----------------------------- MODULE RestProofs -----------------------------
(***************************************************************************)
(* Safety of the components of RestComponents, for every value of the      *)
(* constants.  The components share no state: each has an inductive        *)
(* invariant of its own, in the variables it has in the composition, that  *)
(* its own steps preserve and that the other components' steps leave alone.*)
(* What a recursive function of the code's loops computes is proved by     *)
(* induction on the set of the numbers it is right for.                    *)
(***************************************************************************)
EXTENDS RestComponents, SequenceTheorems, FiniteSetTheorems, WellFoundedInduction, TLAPS

(* A step of the composition is a step of the component it is about, or leaves that one
   alone. *)
LEMMA StepOfOne ==
    ASSUME [Next]_allVars
    PROVE  /\ which' = which
           /\ which = "global" => [Global!Next]_(Global!vars)
           /\ which = "conn" => [Conn!Next]_(Conn!vars)
           /\ which = "file" => [File!Next]_(File!vars)
           /\ which = "fetch" => [Fetch!Next]_(Fetch!vars)
           /\ which = "tunnel" => [Tunnel!Next]_(Tunnel!vars)
<1>1. CASE UNCHANGED allVars
  BY <1>1 DEF allVars, g_vars, h_vars, c_vars, p_vars, r_vars, f_vars, b_vars, w_vars,
              Global!vars, Conn!vars, Orders!vars, Pages!vars, Calls!vars, File!vars,
              Fetch!vars, Tunnel!vars
<1>2. CASE Next
  BY <1>2 DEF Next, OnlyGlobal, OnlyConn, OnlyOrders, OnlyPages, OnlyCalls, OnlyFile,
              OnlyTxs, OnlyOracle, OnlyFetch, OnlyArb, OnlyTunnel
<1> QED BY <1>1, <1>2

-----------------------------------------------------------------------------
(* CursorFile. *)

FileBudgetType == [calls : Nat, faults : Nat, crashes : Nat, processes : Nat]
Tables == UNION {[S -> File!Cursors] : S \in SUBSET Names}
Unwritten == {"create", "write", "fsync", "close", "rename"}
FileCalls ==
    [pc : Unwritten \cup {"directory"}, name : Names, cursor : File!Cursors,
     rewinds : BOOLEAN, synced : BOOLEAN, data : Tables]

FileTypeOK ==
    /\ f_file \in [data : Tables, synced : BOOLEAN]
    /\ f_older \subseteq [data : Tables, synced : BOOLEAN]
    /\ f_calls \in [Threads -> FileCalls \cup {File!Idle}]
    /\ f_floor \in Tables
    /\ budget \in FileBudgetType

(* Behind the fsync of write_cursor_file the temporary is on disk. *)
TemporarySynced ==
    \A t \in Threads : f_calls[t].pc \in {"close", "rename", "directory"} => f_calls[t].synced

(* In one process the mutex lets one call in, and until its rename the file is still the
   one it has read: what it writes is that file with one cursor changed, which a save has
   compared with the cursor it replaces. *)
OneCall ==
    budget.processes = 1 =>
        \A t, u \in Threads : f_calls[t] # File!Idle /\ f_calls[u] # File!Idle => t = u
WritesWhatItRead ==
    budget.processes = 1 =>
        \A t \in Threads : f_calls[t].pc \in Unwritten =>
            LET c == f_calls[t] IN
            /\ c.data = File!With(f_file.data, c.name, c.cursor)
            /\ ~c.rewinds /\ c.name \in DOMAIN f_file.data
                 => File!AtLeast(c.cursor, f_file.data[c.name])

FileInv ==
    /\ FileTypeOK /\ File!WholeFile /\ TemporarySynced
    /\ OneCall /\ WritesWhatItRead /\ File!CursorsKept

(* AtLeast is a preorder on cursors, *)
LEMMA AtLeastReflexive ==
    ASSUME NEW a \in File!Cursors PROVE File!AtLeast(a, a)
  BY FileAssumption DEF File!AtLeast, File!Cursors

LEMMA AtLeastTransitive ==
    ASSUME NEW a \in File!Cursors, NEW b \in File!Cursors, NEW c \in File!Cursors,
           File!AtLeast(a, b), File!AtLeast(b, c)
    PROVE  File!AtLeast(a, c)
  BY FileAssumption DEF File!AtLeast, File!Cursors

(* and cursor_advances never goes down in it. *)
LEMMA AdvancesIsAtLeast ==
    ASSUME NEW a \in File!Cursors, NEW b \in File!Cursors, File!CursorAdvances(a, b)
    PROVE  File!AtLeast(b, a)
  BY FileAssumption DEF File!AtLeast, File!CursorAdvances, File!Cursors

(* Nor does save, which writes a complete block. *)
LEMMA SaveIsAtLeast ==
    ASSUME NEW a \in File!Cursors, NEW b \in 1..MaxBlock, b >= a.block
    PROVE  File!AtLeast([block |-> b, complete |-> TRUE, log |-> 0], a)
  BY FileAssumption DEF File!AtLeast, File!Cursors

(* Writing one cursor into a table. *)
LEMMA WithType ==
    ASSUME NEW d \in Tables, NEW n \in Names, NEW c \in File!Cursors
    PROVE  /\ File!With(d, n, c) \in Tables
           /\ DOMAIN File!With(d, n, c) = DOMAIN d \cup {n}
           /\ File!With(d, n, c)[n] = c
           /\ \A m \in DOMAIN d : m # n => File!With(d, n, c)[m] = d[m]
<1>1. PICK S \in SUBSET Names : d \in [S -> File!Cursors]
  BY DEF Tables
<1>2. S \cup {n} \in SUBSET Names
  BY <1>1
<1>3. File!With(d, n, c) \in [S \cup {n} -> File!Cursors]
  BY <1>1 DEF File!With
<1>4. File!With(d, n, c) \in Tables
  BY <1>2, <1>3 DEF Tables
<1> QED BY <1>1, <1>3, <1>4 DEF File!With

LEMMA TableType ==
    ASSUME NEW d \in Tables
    PROVE  DOMAIN d \subseteq Names /\ \A n \in DOMAIN d : d[n] \in File!Cursors
  BY DEF Tables

LEMMA FileInit == ASSUME File!Init PROVE FileInv
<1>1. File!Nothing \in Tables
  <2>1. File!Nothing \in [{} -> File!Cursors]
    BY DEF File!Nothing
  <2> QED BY <2>1 DEF Tables
<1>2. DOMAIN File!Nothing = {}
  BY DEF File!Nothing
<1>3. FileTypeOK
  BY <1>1, FileAssumption DEF File!Init, File!InitState, FileTypeOK, FileBudgetType, File!Idle
<1>4. \A t \in Threads : f_calls[t] = File!Idle /\ f_calls[t].pc = "idle"
  BY DEF File!Init, File!InitState, File!Idle
<1>5. File!WholeFile
  BY DEF File!Init, File!InitState, File!WholeFile
<1> QED BY <1>2, <1>3, <1>4, <1>5
    DEF File!Init, File!InitState, FileInv, TemporarySynced, OneCall, WritesWhatItRead,
        File!CursorsKept, Unwritten

LEMMA FileCall == ASSUME FileInv, NEW t \in Threads, File!Call(t) PROVE FileInv'
<1> USE DEF FileInv
<1> DEFINE Ops(n) == {File!Save(n, b) : b \in 1..MaxBlock}
              \cup {File!SaveCursor(n, c) : c \in File!Cursors}
              \cup {File!Rewind(n, b) : b \in 1..MaxBlock}
<1>0. PICK n \in Names : \E op \in Ops(n) :
        /\ op.writes
        /\ f_calls' = [f_calls EXCEPT ![t] =
              [pc |-> "create", name |-> n, cursor |-> op.cursor, rewinds |-> op.rewinds,
               synced |-> FALSE, data |-> File!With(f_file.data, n, op.cursor)]]
  BY DEF File!Call
<1>1. PICK op \in Ops(n) :
        /\ op.writes
        /\ f_calls' = [f_calls EXCEPT ![t] =
              [pc |-> "create", name |-> n, cursor |-> op.cursor, rewinds |-> op.rewinds,
               synced |-> FALSE, data |-> File!With(f_file.data, n, op.cursor)]]
  BY <1>0
<1>2. /\ op.cursor \in File!Cursors /\ op.rewinds \in BOOLEAN
      /\ ~op.rewinds /\ n \in DOMAIN f_file.data
           => File!AtLeast(op.cursor, f_file.data[n])
  <2>1. CASE \E b \in 1..MaxBlock : op = File!Save(n, b)
    <3>1. PICK b \in 1..MaxBlock : op = File!Save(n, b)
      BY <2>1
    <3>2. n \in DOMAIN f_file.data => f_file.data[n] \in File!Cursors
      BY TableType DEF FileTypeOK
    <3>3. op.cursor = [block |-> b, complete |-> TRUE, log |-> 0] /\ op.rewinds = FALSE
      BY <3>1 DEF File!Save
    <3>4. n \in DOMAIN f_file.data => b >= f_file.data[n].block
      BY <1>1, <3>1 DEF File!Save
    <3>5. op.cursor \in File!Cursors
      BY <3>3 DEF File!Cursors
    <3> QED BY <3>2, <3>3, <3>4, <3>5, SaveIsAtLeast
  <2>2. CASE \E c \in File!Cursors : op = File!SaveCursor(n, c)
    <3>1. PICK c \in File!Cursors : op = File!SaveCursor(n, c)
      BY <2>2
    <3>2. n \in DOMAIN f_file.data => f_file.data[n] \in File!Cursors
      BY TableType DEF FileTypeOK
    <3>3. op.cursor = c /\ op.rewinds = FALSE
      BY <3>1 DEF File!SaveCursor
    <3>4. n \in DOMAIN f_file.data => File!CursorAdvances(f_file.data[n], c)
      BY <1>1, <3>1 DEF File!SaveCursor
    <3> QED BY <3>2, <3>3, <3>4, AdvancesIsAtLeast
  <2>3. CASE \E b \in 1..MaxBlock : op = File!Rewind(n, b)
    BY <1>1, <2>3 DEF File!Rewind, File!Cursors
  <2> QED BY <1>1, <2>1, <2>2, <2>3
<1>3. File!With(f_file.data, n, op.cursor) \in Tables
  BY <1>2, WithType DEF FileTypeOK
<1>4. /\ f_file' = f_file /\ f_older' = f_older /\ f_floor' = f_floor
      /\ budget' \in FileBudgetType /\ budget'.processes = budget.processes
      /\ budget.processes = 1 => \A u \in Threads : f_calls[u] = File!Idle
  BY DEF File!Call, File!Spend, File!Locked, FileTypeOK, FileBudgetType
<1>5. FileTypeOK'
  BY <1>1, <1>2, <1>3, <1>4 DEF FileTypeOK, FileCalls, Unwritten
<1>6. /\ f_calls'[t].pc = "create" /\ f_calls'[t].name = n
      /\ f_calls'[t].cursor = op.cursor /\ f_calls'[t].rewinds = op.rewinds
      /\ f_calls'[t].data = File!With(f_file.data, n, op.cursor)
      /\ \A u \in Threads \ {t} : f_calls'[u] = f_calls[u]
  BY <1>1 DEF FileTypeOK
<1>7. File!WholeFile' /\ File!CursorsKept'
  BY <1>4 DEF File!WholeFile, File!CursorsKept
<1>8. TemporarySynced'
  BY <1>6 DEF TemporarySynced
<1>9. OneCall' /\ WritesWhatItRead'
  <2>1. \A u \in Threads : budget.processes = 1 /\ u # t => f_calls'[u].pc = "idle"
    BY <1>4, <1>6 DEF File!Idle
  <2>2. OneCall'
    BY <1>4, <1>6 DEF OneCall
  <2> QED BY <1>2, <1>4, <1>6, <2>1, <2>2 DEF WritesWhatItRead, Unwritten
<1> QED BY <1>5, <1>7, <1>8, <1>9

LEMMA FilePrepare == ASSUME FileInv, NEW t \in Threads, File!Prepare(t) PROVE FileInv'
<1> USE DEF FileInv
<1>1. /\ UNCHANGED <<f_file, f_older, f_floor, budget>>
      /\ f_calls[t] \in FileCalls /\ f_calls[t].pc \in {"create", "write", "fsync", "close"}
  BY DEF File!Prepare, FileTypeOK, File!Idle
<1>2. f_calls' = [f_calls EXCEPT ![t] = [f_calls[t] EXCEPT !.pc = File!After(f_calls[t].pc),
                   !.synced = f_calls[t].synced \/ f_calls[t].pc = "fsync"]]
  BY <1>1 DEF File!Prepare, FileTypeOK, FileCalls
<1>3. File!After(f_calls[t].pc) \in Unwritten
  BY <1>1 DEF File!After, Unwritten
<1>4. /\ f_calls'[t] \in FileCalls
      /\ f_calls'[t].pc = File!After(f_calls[t].pc)
      /\ f_calls'[t].name = f_calls[t].name /\ f_calls'[t].cursor = f_calls[t].cursor
      /\ f_calls'[t].rewinds = f_calls[t].rewinds /\ f_calls'[t].data = f_calls[t].data
      /\ f_calls'[t].synced = (f_calls[t].synced \/ f_calls[t].pc = "fsync")
      /\ \A u \in Threads \ {t} : f_calls'[u] = f_calls[u]
  BY <1>1, <1>2, <1>3 DEF FileTypeOK, FileCalls
<1>5. FileTypeOK'
  BY <1>1, <1>2, <1>4 DEF FileTypeOK
<1>6. File!WholeFile' /\ File!CursorsKept'
  BY <1>1 DEF File!WholeFile, File!CursorsKept
<1>7. TemporarySynced'
  BY <1>1, <1>4 DEF TemporarySynced, File!After, FileCalls
<1>8. OneCall'
  <2>1. f_calls[t] # File!Idle
    BY <1>1 DEF File!Idle
  <2> QED BY <1>1, <1>4, <2>1 DEF OneCall
<1>9. WritesWhatItRead'
  <2>1. f_calls[t].pc \in Unwritten
    BY <1>1 DEF Unwritten
  <2> QED BY <1>1, <1>4, <2>1 DEF WritesWhatItRead
<1> QED BY <1>5, <1>6, <1>7, <1>8, <1>9

LEMMA FileReplace == ASSUME FileInv, NEW t \in Threads, File!Replace(t) PROVE FileInv'
<1> USE DEF FileInv
<1> DEFINE c == f_calls[t]
<1>1. /\ c \in FileCalls /\ c.pc = "rename" /\ c.synced
      /\ UNCHANGED budget
      /\ f_file' = [data |-> c.data, synced |-> c.synced]
      /\ f_older' = f_older \cup {f_file}
      /\ f_floor' = IF c.name \in DOMAIN f_floor /\ ~c.rewinds
                        /\ File!AtLeast(f_floor[c.name], c.cursor)
                    THEN f_floor ELSE File!With(f_floor, c.name, c.cursor)
  BY DEF File!Replace, FileTypeOK, File!Idle, TemporarySynced
<1>2. /\ f_calls'[t] \in FileCalls
      /\ f_calls'[t].pc = "directory" /\ f_calls'[t].synced
      /\ f_calls' \in [Threads -> FileCalls \cup {File!Idle}]
      /\ \A u \in Threads \ {t} : f_calls'[u] = f_calls[u]
  BY <1>1 DEF File!Replace, File!After, FileTypeOK, FileCalls
<1>3. c.data \in Tables /\ c.name \in Names /\ c.cursor \in File!Cursors
  BY <1>1 DEF FileCalls
<1>4. f_floor' \in Tables
  BY <1>1, <1>3, WithType DEF FileTypeOK
<1>5. FileTypeOK'
  BY <1>1, <1>2, <1>3, <1>4 DEF FileTypeOK
<1>6. File!WholeFile' /\ TemporarySynced'
  BY <1>1, <1>2 DEF File!WholeFile, TemporarySynced
<1>7. OneCall' /\ WritesWhatItRead'
  <2>1. ASSUME budget.processes = 1, NEW u \in Threads, u # t
        PROVE  f_calls'[u] = File!Idle /\ f_calls'[u].pc = "idle"
    BY <1>1, <1>2, <2>1 DEF OneCall, File!Idle
  <2> QED BY <1>1, <1>2, <2>1 DEF OneCall, WritesWhatItRead, Unwritten
<1>8. File!CursorsKept'
  <2> SUFFICES ASSUME budget.processes = 1, NEW n \in DOMAIN f_floor'
               PROVE  n \in DOMAIN c.data /\ File!AtLeast(c.data[n], f_floor'[n])
    BY <1>1 DEF File!CursorsKept
  <2>1. /\ c.data = File!With(f_file.data, c.name, c.cursor)
        /\ ~c.rewinds /\ c.name \in DOMAIN f_file.data
             => File!AtLeast(c.cursor, f_file.data[c.name])
        /\ \A m \in DOMAIN f_floor :
             m \in DOMAIN f_file.data /\ File!AtLeast(f_file.data[m], f_floor[m])
    BY <1>1 DEF WritesWhatItRead, Unwritten, File!CursorsKept
  <2>2. /\ f_file.data \in Tables /\ f_floor \in Tables
    BY DEF FileTypeOK
  <2>3. /\ DOMAIN c.data = DOMAIN f_file.data \cup {c.name}
        /\ c.data[c.name] = c.cursor
        /\ \A m \in DOMAIN f_file.data : m # c.name => c.data[m] = f_file.data[m]
    <3> DEFINE w == File!With(f_file.data, c.name, c.cursor)
    <3>1. /\ DOMAIN w = DOMAIN f_file.data \cup {c.name} /\ w[c.name] = c.cursor
          /\ \A m \in DOMAIN f_file.data : m # c.name => w[m] = f_file.data[m]
      BY DEF File!With
    <3> QED BY <2>1, <3>1
  <2>4. CASE n = c.name /\ n \in DOMAIN f_floor /\ ~c.rewinds
             /\ File!AtLeast(f_floor[c.name], c.cursor)
    <3>1. f_floor' = f_floor
      BY <1>1, <2>4
    <3>2. f_floor[n] \in File!Cursors /\ f_file.data[n] \in File!Cursors
      BY <2>1, <2>2, <2>4, TableType
    <3>3. File!AtLeast(c.cursor, f_floor[n])
      BY <1>3, <2>1, <2>4, <3>2, AtLeastTransitive
    <3> QED BY <2>3, <2>4, <3>1, <3>3
  <2>5. CASE n = c.name /\ ~(n \in DOMAIN f_floor /\ ~c.rewinds
             /\ File!AtLeast(f_floor[c.name], c.cursor))
    <3>1. f_floor'[n] = c.cursor
      BY <1>1, <1>3, <2>2, <2>5, WithType, ZenonT(60)
    <3> QED BY <1>3, <2>3, <2>5, <3>1, AtLeastReflexive
  <2>6. CASE n # c.name
    <3>1. n \in DOMAIN f_floor /\ f_floor'[n] = f_floor[n]
      <4> DEFINE w == File!With(f_floor, c.name, c.cursor)
      <4>1. /\ DOMAIN w = DOMAIN f_floor \cup {c.name}
            /\ \A m \in DOMAIN f_floor : m # c.name => w[m] = f_floor[m]
        BY DEF File!With
      <4> HIDE DEF w
      <4>2. f_floor' \in {f_floor, w}
        BY <1>1 DEF w
      <4> QED BY <2>6, <4>1, <4>2
    <3> QED BY <2>1, <2>3, <2>6, <3>1
  <2> QED BY <2>4, <2>5, <2>6
<1> QED BY <1>5, <1>6, <1>7, <1>8

(* A call that is over, by returning, by failing or with its process, leaves the file and
   what it may hold alone. *)
LEMMA FileCallsEnd ==
    ASSUME FileInv, UNCHANGED <<f_file, f_floor>>, f_older' \in {f_older, {}},
           budget' \in FileBudgetType, budget'.processes = budget.processes,
           f_calls' \in [Threads -> FileCalls \cup {File!Idle}],
           \A u \in Threads : f_calls'[u] \in {f_calls[u], File!Idle}
    PROVE  FileInv'
<1> USE DEF FileInv
<1>1. File!Idle.pc = "idle"
  BY DEF File!Idle
<1>2. FileTypeOK'
  BY DEF FileTypeOK
<1>3. File!WholeFile' /\ File!CursorsKept'
  BY DEF File!WholeFile, File!CursorsKept
<1>4. TemporarySynced'
  BY <1>1 DEF TemporarySynced
<1>5. OneCall'
  BY DEF OneCall
<1>6. WritesWhatItRead'
  BY <1>1 DEF WritesWhatItRead, Unwritten
<1> QED BY <1>2, <1>3, <1>4, <1>5, <1>6

LEMMA FilePowerFails == ASSUME FileInv, File!PowerFails PROVE FileInv'
<1> USE DEF FileInv
<1>1. /\ budget' \in FileBudgetType /\ budget'.processes = budget.processes
      /\ f_calls' = [t \in Threads |-> File!Idle] /\ f_older' = {}
  BY DEF File!PowerFails, File!Spend, FileTypeOK, FileBudgetType
<1>2. PICK v \in f_older \cup {f_file} :
        f_file' = v /\ f_floor' = IF f_older = {} THEN f_floor ELSE v.data
  BY DEF File!PowerFails
<1>3. v \in [data : Tables, synced : BOOLEAN] /\ v.synced /\ v.data \in Tables
  BY <1>2 DEF FileTypeOK, File!WholeFile
<1>4. FileTypeOK'
  BY <1>1, <1>2, <1>3 DEF FileTypeOK
<1>5. File!WholeFile'
  BY <1>1, <1>2, <1>3 DEF File!WholeFile
<1>6. \A t \in Threads : f_calls'[t] = File!Idle /\ f_calls'[t].pc = "idle"
  BY <1>1 DEF File!Idle
<1>7. TemporarySynced' /\ OneCall' /\ WritesWhatItRead'
  BY <1>6 DEF TemporarySynced, OneCall, WritesWhatItRead, Unwritten
<1>8. File!CursorsKept'
  <2>1. CASE f_older = {}
    BY <1>1, <1>2, <2>1 DEF File!CursorsKept
  <2>2. CASE f_older # {}
    BY <1>1, <1>2, <1>3, <2>2, TableType, AtLeastReflexive DEF File!CursorsKept
  <2> QED BY <2>1, <2>2
<1> QED BY <1>4, <1>5, <1>7, <1>8

LEMMA FileNext == ASSUME FileInv, [File!Next]_(File!vars) PROVE FileInv'
<1>1. CASE UNCHANGED File!vars
  BY <1>1, FileCallsEnd DEF FileInv, FileTypeOK, File!vars
<1>2. ASSUME NEW t \in Threads, File!Return(t) \/ File!Fails(t) PROVE FileInv'
  <2>1. /\ UNCHANGED <<f_file, f_floor>> /\ f_older' \in {f_older, {}}
        /\ f_calls' = [f_calls EXCEPT ![t] = File!Idle]
        /\ budget' \in FileBudgetType /\ budget'.processes = budget.processes
    BY <1>2 DEF FileInv, FileTypeOK, FileBudgetType, File!Return, File!Fails, File!Spend
  <2> QED BY <2>1, FileCallsEnd DEF FileInv, FileTypeOK
<1>3. CASE File!Killed
  <2>1. /\ UNCHANGED <<f_file, f_older, f_floor>> /\ f_calls' = [t \in Threads |-> File!Idle]
        /\ budget' \in FileBudgetType /\ budget'.processes = budget.processes
    BY <1>3 DEF FileInv, FileTypeOK, FileBudgetType, File!Killed, File!Spend
  <2> QED BY <2>1, FileCallsEnd
<1> QED BY <1>1, <1>2, <1>3, FileCall, FilePrepare, FileReplace, FilePowerFails DEF File!Next

(* FileBlockCursorStore by itself: its specification keeps both promises. *)
THEOREM CursorFileSafe == File!Spec => [](File!WholeFile /\ File!CursorsKept)
<1>1. File!Init => FileInv
  BY FileInit
<1>2. FileInv /\ [File!Next]_(File!vars) => FileInv'
  BY FileNext
<1>3. FileInv => File!WholeFile /\ File!CursorsKept
  BY DEF FileInv
<1> QED BY <1>1, <1>2, <1>3, PTL DEF File!Spec

(* Whatever a kill or a power failure interrupts, the cursor file is whole, and no save of
   one process loses or lowers a cursor: for any number of threads, names and blocks. *)
THEOREM CursorFilesStayWhole == Spec => []CursorFilesWhole
<1> DEFINE I == which = "file" => FileInv
<1>1. Init => I
  BY FileInit DEF Init, Select, InitComponents, File!Init
<1>2. I /\ [Next]_allVars => I'
  BY StepOfOne, FileNext
<1>3. I => CursorFilesWhole
  BY DEF CursorFilesWhole, FileInv
<1> QED BY <1>1, <1>2, <1>3, PTL DEF Spec

-----------------------------------------------------------------------------
(* WebSocketTunnel. *)

TunnelBudgetType == [bytes : Nat, connections : Nat, faults : Nat]
Directions == [wire : Nat, held : Nat, pending : Nat, buffer : Nat, got : Nat, sent : Nat]
Sides == {"client", "upstream"}

TunnelTypeOK ==
    /\ w_pc \in {"accept", "open", "readClient", "readUpstream", "sendClient",
                 "sendUpstream", "poll", "done"}
    /\ w_up \in Directions /\ w_down \in Directions
    /\ w_closed \subseteq Sides /\ w_eof \subseteq Sides
    /\ w_stopping \in BOOLEAN /\ w_failed \in BOOLEAN
    /\ budget \in TunnelBudgetType

(* A direction within its bounds, with every byte accounted for. *)
Balanced(d) ==
    /\ d.pending < MaxPending + Chunk /\ d.buffer <= Buffer
    /\ d.sent = d.wire + d.held + d.pending + d.buffer + d.got

(* The end of a side is only seen behind its last byte, unless a read failed. *)
EndsBehindBytes ==
    /\ "client" \in w_eof => "client" \in w_closed /\ w_up.wire = 0
    /\ "upstream" \in w_eof /\ ~w_failed =>
         "upstream" \in w_closed /\ w_down.wire = 0 /\ w_down.held = 0

(* Why the worker went back to accept() without an error or a stop. *)
Drained ==
    \/ w_eof = {"upstream"} /\ w_down.pending = 0 /\ w_down.held = 0 /\ w_down.wire = 0
    \/ w_eof = {"client"} /\ w_up.pending = 0 /\ w_up.wire = 0
    \/ w_eof = {"client", "upstream"}
    \/ w_up = Tunnel!Empty /\ w_down = Tunnel!Empty

TunnelInv ==
    /\ TunnelTypeOK /\ Balanced(w_up) /\ Balanced(w_down) /\ EndsBehindBytes
    /\ w_pc = "accept" /\ ~w_stopping /\ ~w_failed => Drained

LEMMA TunnelInit == ASSUME Tunnel!Init PROVE TunnelInv
<1>1. Tunnel!Empty \in Directions /\ Balanced(Tunnel!Empty)
  BY TunnelAssumption DEF Tunnel!Empty, Directions, Balanced
<1> QED BY <1>1, TunnelAssumption
    DEF Tunnel!Init, Tunnel!InitState, TunnelInv, TunnelTypeOK, TunnelBudgetType,
        EndsBehindBytes, Drained

(* The steps that move bytes keep the balance of their direction. *)
LEMMA BytesBalance ==
    ASSUME NEW d \in Directions, Balanced(d)
    PROVE  /\ [d EXCEPT !.wire = @ + 1, !.sent = @ + 1] \in Directions
           /\ Balanced([d EXCEPT !.wire = @ + 1, !.sent = @ + 1])
           /\ Tunnel!Drains(d) \in Directions /\ Balanced(Tunnel!Drains(d))
           /\ Tunnel!Push(d) \in Directions /\ Balanced(Tunnel!Push(d))
           /\ Tunnel!HasRoom(d) =>
                \A n \in 1..Tunnel!Lesser(Chunk, d.wire) :
                   /\ [d EXCEPT !.wire = @ - n, !.pending = @ + n] \in Directions
                   /\ Balanced([d EXCEPT !.wire = @ - n, !.pending = @ + n])
           /\ Tunnel!HasRoom(d) =>
                \A e \in Tunnel!CurlRecv(d) : e \in Directions /\ Balanced(e)
<1> USE TunnelAssumption
<1>1. /\ [d EXCEPT !.wire = @ + 1, !.sent = @ + 1] \in Directions
      /\ Balanced([d EXCEPT !.wire = @ + 1, !.sent = @ + 1])
  <2>1. d.wire + 1 \in Nat /\ d.sent + 1 \in Nat
    BY DEF Directions
  <2>2. [d EXCEPT !.wire = @ + 1, !.sent = @ + 1] \in Directions
    BY <2>1 DEF Directions
  <2> QED BY <2>2 DEF Directions, Balanced
<1>2. Tunnel!Drains(d) \in Directions /\ Balanced(Tunnel!Drains(d))
  <2>1. d.got + d.buffer \in Nat
    BY DEF Directions
  <2>2. Tunnel!Drains(d) \in Directions
    BY <2>1 DEF Directions, Tunnel!Drains
  <2> QED BY <2>2 DEF Tunnel!Drains, Directions, Balanced
<1>3. Tunnel!Push(d) \in Directions /\ Balanced(Tunnel!Push(d))
  <2> DEFINE n == Tunnel!Lesser(d.pending, Buffer - d.buffer)
  <2>1. /\ n \in Nat /\ d.pending - n \in Nat /\ d.buffer + n \in Nat
        /\ d.buffer + n <= Buffer
    BY DEF Directions, Balanced, Tunnel!Lesser
  <2> HIDE DEF n
  <2>2. Tunnel!Push(d) = [d EXCEPT !.pending = d.pending - n, !.buffer = d.buffer + n]
    BY DEF Tunnel!Push, n
  <2>3. Tunnel!Push(d) \in Directions
    BY <2>1, <2>2 DEF Directions
  <2> QED BY <2>1, <2>2, <2>3 DEF Directions, Balanced
<1>4. ASSUME Tunnel!HasRoom(d), NEW n \in 1..Tunnel!Lesser(Chunk, d.wire)
      PROVE  /\ [d EXCEPT !.wire = @ - n, !.pending = @ + n] \in Directions
             /\ Balanced([d EXCEPT !.wire = @ - n, !.pending = @ + n])
  <2>1. n \in Nat /\ n <= Chunk /\ n <= d.wire
    BY <1>4 DEF Directions, Tunnel!Lesser
  <2>2. /\ d.wire - n \in Nat /\ d.pending + n \in Nat
        /\ d.pending + n < MaxPending + Chunk
    BY <1>4, <2>1 DEF Directions, Tunnel!HasRoom
  <2>3. [d EXCEPT !.wire = @ - n, !.pending = @ + n] \in Directions
    BY <2>2 DEF Directions
  <2> QED BY <2>1, <2>2, <2>3 DEF Directions, Balanced
<1>5. ASSUME Tunnel!HasRoom(d), NEW e \in Tunnel!CurlRecv(d)
      PROVE  e \in Directions /\ Balanced(e)
  <2>1. CASE d.held > 0
    <3>1. PICK n \in 1..Tunnel!Lesser(Chunk, d.held) :
                 e = [d EXCEPT !.held = @ - n, !.pending = @ + n]
      BY <1>5, <2>1 DEF Tunnel!CurlRecv
    <3>2. n \in Nat /\ n <= Chunk /\ n <= d.held
      BY <3>1 DEF Directions, Tunnel!Lesser
    <3>3. /\ d.held - n \in Nat /\ d.pending + n \in Nat
          /\ d.pending + n < MaxPending + Chunk
      BY <1>5, <3>2 DEF Directions, Tunnel!HasRoom
    <3>4. e \in Directions
      BY <3>1, <3>3 DEF Directions
    <3> QED BY <3>1, <3>2, <3>3, <3>4 DEF Directions, Balanced
  <2>2. CASE ~(d.held > 0)
    <3> DEFINE r == Tunnel!Lesser(d.wire, Record)
    <3>1. d.held = 0 /\ r \in Nat /\ r <= d.wire
      BY <2>2 DEF Directions, Tunnel!Lesser
    <3>2. PICK n \in 1..Tunnel!Lesser(Chunk, r) :
                 e = [d EXCEPT !.wire = @ - r, !.held = r - n, !.pending = @ + n]
      BY <1>5, <2>2 DEF Tunnel!CurlRecv, r
    <3> HIDE DEF r
    <3>3. n \in Nat /\ n <= Chunk /\ n <= r
      BY <3>1, <3>2 DEF Tunnel!Lesser
    <3>4. /\ d.wire - r \in Nat /\ r - n \in Nat /\ d.pending + n \in Nat
          /\ d.pending + n < MaxPending + Chunk
      BY <1>5, <3>1, <3>3 DEF Directions, Tunnel!HasRoom
    <3>5. e \in Directions
      BY <3>2, <3>4 DEF Directions
    <3> QED BY <3>1, <3>2, <3>3, <3>4, <3>5 DEF Directions, Balanced
  <2> QED BY <2>1, <2>2
<1> QED BY <1>1, <1>2, <1>3, <1>4, <1>5

LEMMA TunnelSpend ==
    ASSUME budget \in TunnelBudgetType, NEW k \in {"bytes", "connections", "faults"},
           Tunnel!Spend(k)
    PROVE  budget' \in TunnelBudgetType
  BY DEF TunnelBudgetType, Tunnel!Spend

LEMMA TunnelPeers ==
    ASSUME TunnelInv, Tunnel!Dial \/ Tunnel!ClientWrites \/ Tunnel!UpstreamWrites
                        \/ Tunnel!PeersRead \/ Tunnel!Closes("client")
                        \/ Tunnel!Closes("upstream") \/ Tunnel!Destroy
    PROVE  TunnelInv'
<1> USE DEF TunnelInv
<1>1. CASE Tunnel!Dial \/ Tunnel!Destroy
  <2>1. /\ UNCHANGED <<w_pc, w_up, w_down, w_closed, w_eof, w_failed>>
        /\ w_stopping' \in BOOLEAN /\ (w_stopping => w_stopping')
        /\ budget' \in TunnelBudgetType
    BY <1>1, TunnelSpend DEF Tunnel!Dial, Tunnel!Destroy, TunnelTypeOK
  <2> QED BY <2>1 DEF TunnelTypeOK, Balanced, EndsBehindBytes, Drained
<1>2. CASE Tunnel!ClientWrites
  <2>1. w_up' \in Directions /\ Balanced(w_up')
    BY <1>2, BytesBalance DEF Tunnel!ClientWrites, TunnelTypeOK
  <2> QED BY <1>2, <2>1 DEF Tunnel!ClientWrites, Tunnel!Relaying, Tunnel!Spend, TunnelTypeOK,
          TunnelBudgetType, EndsBehindBytes
<1>3. CASE Tunnel!UpstreamWrites
  <2>1. w_down' \in Directions /\ Balanced(w_down')
    BY <1>3, BytesBalance DEF Tunnel!UpstreamWrites, TunnelTypeOK
  <2> QED BY <1>3, <2>1, SMTT(30) DEF Tunnel!UpstreamWrites, Tunnel!Relaying, Tunnel!Spend,
          TunnelTypeOK, TunnelBudgetType, EndsBehindBytes
<1>4. CASE Tunnel!PeersRead
  <2>1. /\ w_up' \in Directions /\ Balanced(w_up')
        /\ w_down' \in Directions /\ Balanced(w_down')
    BY <1>4, BytesBalance DEF Tunnel!PeersRead, TunnelTypeOK
  <2>2. /\ w_up'.wire = w_up.wire /\ w_up'.pending = w_up.pending
        /\ w_down'.wire = w_down.wire /\ w_down'.pending = w_down.pending
        /\ w_down'.held = w_down.held
    BY <1>4 DEF Tunnel!PeersRead, Tunnel!Drains, TunnelTypeOK, Directions
  <2>3. ~(w_up = Tunnel!Empty /\ w_down = Tunnel!Empty)
    BY <1>4 DEF Tunnel!PeersRead, Tunnel!Empty
  <2> QED BY <1>4, <2>1, <2>2, <2>3, SMTT(30)
         DEF Tunnel!PeersRead, TunnelTypeOK, EndsBehindBytes, Drained
<1>5. ASSUME NEW s \in Sides, Tunnel!Closes(s) PROVE TunnelInv'
  BY <1>5 DEF Tunnel!Closes, Tunnel!Relaying, Tunnel!Spend, TunnelTypeOK, TunnelBudgetType,
              Balanced, EndsBehindBytes
<1> QED BY <1>1, <1>2, <1>3, <1>4, <1>5 DEF Sides

LEMMA TunnelWorker == ASSUME TunnelInv, Tunnel!Worker PROVE TunnelInv'
<1> USE DEF TunnelInv
<1>1. CASE Tunnel!Accept
  BY <1>1 DEF Tunnel!Accept, TunnelTypeOK, Balanced, EndsBehindBytes
<1>2. CASE Tunnel!OpenUpstream
  <2>1. Tunnel!Empty \in Directions /\ Balanced(Tunnel!Empty)
    BY TunnelAssumption DEF Tunnel!Empty, Directions, Balanced
  <2>2. budget' \in TunnelBudgetType
    BY <1>2, TunnelSpend DEF Tunnel!OpenUpstream, TunnelTypeOK
  <2> QED BY <1>2, <2>1, <2>2 DEF Tunnel!OpenUpstream, TunnelTypeOK, EndsBehindBytes, Drained
<1>3. CASE Tunnel!ReadClient
  <2>1. w_up' \in Directions /\ Balanced(w_up')
    BY <1>3, BytesBalance DEF Tunnel!ReadClient, TunnelTypeOK
  <2>2. /\ UNCHANGED <<w_down, w_closed, w_stopping>>
        /\ w_failed' \in BOOLEAN /\ w_eof' \in {w_eof, w_eof \cup {"client"}}
        /\ w_pc' \in {"readClient", "readUpstream", "accept"}
        /\ (w_pc' = "accept" => w_failed') /\ (w_failed => w_failed')
        /\ budget' \in TunnelBudgetType
    BY <1>3, TunnelSpend DEF Tunnel!ReadClient, TunnelTypeOK
  <2>3. "client" \in w_eof' => "client" \in w_closed /\ w_up'.wire = 0
    BY <1>3 DEF Tunnel!ReadClient, TunnelTypeOK, EndsBehindBytes, Directions
  <2> QED BY <2>1, <2>2, <2>3, SMTT(30) DEF TunnelTypeOK, EndsBehindBytes, Sides
<1>4. CASE Tunnel!ReadUpstream
  <2>1. w_down' \in Directions /\ Balanced(w_down')
    BY <1>4, BytesBalance DEF Tunnel!ReadUpstream, TunnelTypeOK
  <2>2. /\ w_up' = w_up /\ w_closed' = w_closed /\ w_stopping' = w_stopping
        /\ w_failed' \in BOOLEAN /\ w_eof' \in {w_eof, w_eof \cup {"upstream"}}
        /\ w_pc' \in {"readUpstream", "sendClient"}
        /\ budget' \in TunnelBudgetType
    BY <1>4, TunnelSpend DEF Tunnel!ReadUpstream, TunnelTypeOK
  <2>3. "upstream" \in w_eof' /\ ~w_failed' =>
          "upstream" \in w_closed /\ w_down'.wire = 0 /\ w_down'.held = 0
    BY <1>4 DEF Tunnel!ReadUpstream, TunnelTypeOK, EndsBehindBytes, Directions
  <2> QED BY <2>1, <2>2, <2>3, SMTT(30) DEF TunnelTypeOK, EndsBehindBytes, Sides
<1>5. CASE Tunnel!SendClient
  <2>1. w_down' \in Directions /\ Balanced(w_down')
    BY <1>5, BytesBalance DEF Tunnel!SendClient, TunnelTypeOK
  <2>2. w_down'.wire = w_down.wire /\ w_down'.held = w_down.held
    BY <1>5 DEF Tunnel!SendClient, Tunnel!Push, TunnelTypeOK, Directions
  <2> QED BY <1>5, <2>1, <2>2 DEF Tunnel!SendClient, TunnelTypeOK, EndsBehindBytes
<1>6. CASE Tunnel!SendUpstream
  <2>1. w_up' \in Directions /\ Balanced(w_up')
    BY <1>6, BytesBalance DEF Tunnel!SendUpstream, TunnelTypeOK
  <2>2. w_up'.wire = w_up.wire
    BY <1>6 DEF Tunnel!SendUpstream, Tunnel!Push, TunnelTypeOK, Directions
  <2>3. w_pc' = "accept" /\ ~w_failed' => w_up' = w_up /\ Tunnel!Over
    BY <1>6 DEF Tunnel!SendUpstream
  <2>4. w_pc' = "accept" /\ ~w_failed' => Drained'
    BY <1>6, <2>3 DEF Tunnel!SendUpstream, Tunnel!Over, TunnelTypeOK, EndsBehindBytes, Drained,
       Sides
  <2> QED BY <1>6, <2>1, <2>2, <2>4 DEF Tunnel!SendUpstream, TunnelTypeOK, EndsBehindBytes
<1>7. CASE Tunnel!Poll
  BY <1>7 DEF Tunnel!Poll, TunnelTypeOK, Balanced, EndsBehindBytes
<1> QED BY <1>1, <1>2, <1>3, <1>4, <1>5, <1>6, <1>7 DEF Tunnel!Worker

LEMMA TunnelNext == ASSUME TunnelInv, [Tunnel!Next]_(Tunnel!vars) PROVE TunnelInv'
<1>1. CASE UNCHANGED Tunnel!vars
  BY <1>1 DEF Tunnel!vars, TunnelInv, TunnelTypeOK, Balanced, EndsBehindBytes, Drained
<1> QED BY <1>1, TunnelPeers, TunnelWorker DEF Tunnel!Next

LEMMA TunnelInvSafe == ASSUME TunnelInv PROVE Tunnel!TunnelKeepsBytes
  BY DEF TunnelInv, Balanced, Drained, Tunnel!TunnelKeepsBytes

(* The tunnel holds less than max_pending_bytes and a chunk in each direction, loses and
   invents no byte, and has drained a side that closed before it takes the next connection:
   for any sizes of the buffers, the chunks and the records, and any traffic (relay). *)
THEOREM TunnelBytesKept == Spec => []TunnelKeepsBytes
<1> DEFINE I == which = "tunnel" => TunnelInv
<1>1. Init => I
  BY TunnelInit DEF Init, Select, InitComponents, Tunnel!Init
<1>2. I /\ [Next]_allVars => I'
  BY StepOfOne, TunnelNext
<1>3. I => TunnelKeepsBytes
  BY TunnelInvSafe DEF TunnelKeepsBytes
<1> QED BY <1>1, <1>2, <1>3, PTL DEF Spec

-----------------------------------------------------------------------------
(* HttpConnection. *)

Holders == Threads \cup {"free", "heartbeat"}
Requests == [at : {"idle", "waiting", "performing"}, verb : {"GET", "POST", "DELETE"},
             headers : {"base", "custom"}]

Handles == [timeout : Int, progress : BOOLEAN, verb : {"GET", "POST"}, custom : BOOLEAN]

(* What the owner of curl_mutex_ has made of the handle: nothing is left on it by whoever
   owned it before. *)
HandleOfOwner ==
    /\ h_curl \in Handles
    /\ h_curl.timeout = IF h_lock = "heartbeat" THEN Conn!Bounded ELSE h_configured
    /\ h_curl.progress <=> h_lock = "heartbeat"
    /\ h_curl.verb = IF h_lock \in Threads /\ h_caller[h_lock].verb # "GET" THEN "POST" ELSE "GET"
    /\ h_curl.custom <=> h_lock \in Threads /\ h_caller[h_lock].verb = "DELETE"

ConnInv ==
    /\ h_configured \in Timeouts /\ h_lock \in Holders
    /\ h_caller \in [Threads -> Requests]
    /\ \A t \in Threads : h_caller[t].at = "performing" <=> h_lock = t
    /\ h_hb = "performing" <=> h_lock = "heartbeat"
    /\ HandleOfOwner
    /\ h_headers = IF h_lock \in Threads THEN h_caller[h_lock].headers ELSE "base"

LEMMA ConnInit == ASSUME Conn!Init PROVE ConnInv
  BY HttpAssumption DEF Conn!Init, Conn!InitState, ConnInv, Conn!Rest, Conn!Free, Requests,
     Holders, HandleOfOwner, Handles

LEMMA ConnRequests ==
    ASSUME ConnInv, NEW t \in Threads,
           \/ \E verb \in {"GET", "POST", "DELETE"}, list \in {"base", "custom"} :
                Conn!Ask(t, verb, list)
           \/ Conn!Perform(t) \/ Conn!Done(t) \/ Conn!Warm(t)
    PROVE  ConnInv'
<1> USE HttpAssumption DEF ConnInv, Conn!Free, Holders
<1>1. ASSUME NEW verb \in {"GET", "POST", "DELETE"}, NEW list \in {"base", "custom"},
             Conn!Ask(t, verb, list)
      PROVE  ConnInv'
  <2>1. h_caller' \in [Threads -> Requests]
    BY <1>1 DEF Conn!Ask, Requests
  <2>2. h_lock # t /\ \A u \in Threads \ {t} : h_caller'[u] = h_caller[u]
    BY <1>1 DEF Conn!Ask
  <2>3. h_caller'[t].at = "waiting"
    BY <1>1 DEF Conn!Ask
  <2>4. UNCHANGED <<h_configured, h_curl, h_headers, h_lock, h_hb>>
    BY <1>1 DEF Conn!Ask
  <2>5. HandleOfOwner'
    BY <2>2, <2>4 DEF HandleOfOwner, Handles, Conn!Bounded, Conn!heartbeat_timeout_ms
  <2> QED BY <2>1, <2>2, <2>3, <2>4, <2>5
<1>2. CASE Conn!Perform(t)
  <2>1. /\ h_caller[t].at = "waiting" /\ h_lock = "free" /\ h_lock' = t
        /\ h_caller' = [h_caller EXCEPT ![t].at = "performing"]
        /\ h_headers' = h_caller[t].headers /\ h_curl' = Conn!Options(h_caller[t].verb)
        /\ UNCHANGED <<h_configured, h_hb>>
    BY <1>2 DEF Conn!Perform
  <2>2. /\ h_caller' \in [Threads -> Requests]
        /\ h_caller'[t].at = "performing" /\ h_caller'[t].verb = h_caller[t].verb
        /\ h_caller'[t].headers = h_caller[t].headers
        /\ \A u \in Threads \ {t} : h_caller'[u] = h_caller[u]
    BY <2>1 DEF Requests
  <2>3. ~h_curl.custom
    BY <2>1 DEF HandleOfOwner, Handles
  <2>4. HandleOfOwner'
    BY <2>1, <2>2, <2>3 DEF HandleOfOwner, Handles, Conn!Options, Requests
  <2> QED BY <2>1, <2>2, <2>4
<1>3. CASE Conn!Done(t)
  <2>1. /\ h_lock = t /\ h_lock' = "free" /\ h_headers' = "base"
        /\ h_caller' = [h_caller EXCEPT ![t] = Conn!Rest]
        /\ h_curl' = [h_curl EXCEPT !.verb = "GET", !.custom = FALSE]
        /\ UNCHANGED <<h_configured, h_hb>>
    BY <1>3 DEF Conn!Done
  <2>2. /\ h_caller' \in [Threads -> Requests] /\ h_caller'[t].at = "idle"
        /\ \A u \in Threads \ {t} : h_caller'[u] = h_caller[u]
    BY <2>1 DEF Requests, Conn!Rest
  <2>3. HandleOfOwner'
    BY <2>1 DEF HandleOfOwner, Handles
  <2> QED BY <2>1, <2>2, <2>3
<1>4. CASE Conn!Warm(t)
  <2>1. /\ h_lock = "free" /\ h_lock' = t
        /\ h_caller' = [h_caller EXCEPT ![t] = [Conn!Rest EXCEPT !.at = "performing"]]
        /\ h_curl' = Conn!Options("GET")
        /\ UNCHANGED <<h_configured, h_hb, h_headers>>
    BY <1>4 DEF Conn!Warm
  <2>2. /\ h_caller' \in [Threads -> Requests] /\ h_caller'[t].at = "performing"
        /\ h_caller'[t].verb = "GET" /\ h_caller'[t].headers = "base"
        /\ \A u \in Threads \ {t} : h_caller'[u] = h_caller[u]
    BY <2>1 DEF Requests, Conn!Rest
  <2>3. HandleOfOwner'
    BY <2>1, <2>2 DEF HandleOfOwner, Handles, Conn!Options
  <2> QED BY <2>1, <2>2, <2>3
<1> QED BY <1>1, <1>2, <1>3, <1>4

LEMMA ConnOwner ==
    ASSUME ConnInv,
           \/ \E timeout \in Timeouts : Conn!Configure(timeout)
           \/ Conn!StartHeartbeat \/ Conn!StopHeartbeat \/ Conn!Joined \/ Conn!Wake
           \/ Conn!Beat \/ Conn!BeatEnds \/ UNCHANGED Conn!vars
    PROVE  ConnInv'
<1> USE HttpAssumption DEF ConnInv, Conn!Free, Holders
<1>1. ASSUME NEW timeout \in Timeouts, Conn!Configure(timeout) PROVE ConnInv'
  <2>1. HandleOfOwner'
    BY <1>1 DEF Conn!Configure, HandleOfOwner, Handles
  <2> QED BY <1>1, <2>1 DEF Conn!Configure
<1>2. CASE \/ Conn!StartHeartbeat \/ Conn!StopHeartbeat \/ Conn!Joined \/ Conn!Wake
           \/ UNCHANGED Conn!vars
  <2>1. /\ UNCHANGED <<h_configured, h_curl, h_headers, h_lock, h_caller>>
        /\ h_hb' = "performing" <=> h_hb = "performing"
    <3>1. CASE Conn!Wake
      BY <3>1 DEF Conn!Wake
    <3>2. CASE UNCHANGED Conn!vars
      BY <3>2 DEF Conn!vars
    <3>3. CASE Conn!StartHeartbeat
      BY <3>3 DEF Conn!StartHeartbeat
    <3>4. CASE Conn!StopHeartbeat \/ Conn!Joined
      BY <3>4 DEF Conn!StopHeartbeat, Conn!Joined
    <3> QED BY <1>2, <3>1, <3>2, <3>3, <3>4
  <2>2. HandleOfOwner'
    BY <2>1 DEF HandleOfOwner, Handles, Conn!Bounded, Conn!heartbeat_timeout_ms
  <2> QED BY <2>1, <2>2
<1>3. CASE Conn!Beat
  <2>1. CASE h_lock # "free" \/ h_waiters > 0
    <3>1. UNCHANGED <<h_configured, h_curl, h_headers, h_lock, h_caller>>
      BY <1>3, <2>1 DEF Conn!Beat
    <3>2. HandleOfOwner'
      BY <3>1 DEF HandleOfOwner, Handles, Conn!Bounded, Conn!heartbeat_timeout_ms
    <3> QED BY <1>3, <2>1, <3>1, <3>2 DEF Conn!Beat
  <2>2. CASE ~(h_lock # "free" \/ h_waiters > 0)
    <3>1. /\ h_lock = "free" /\ h_lock' = "heartbeat" /\ h_hb' = "performing"
          /\ h_curl' = [h_curl EXCEPT !.timeout = Conn!Bounded, !.progress = TRUE, !.verb = "GET"]
          /\ UNCHANGED <<h_configured, h_headers, h_caller>>
      BY <1>3, <2>2 DEF Conn!Beat
    <3>2. Conn!Bounded \in Int /\ Conn!Bounded' = Conn!Bounded
      BY <3>1 DEF Conn!Bounded, Conn!heartbeat_timeout_ms
    <3>3. h_curl' \in Handles
      BY <3>1, <3>2 DEF HandleOfOwner, Handles
    <3>4. HandleOfOwner'
      BY <3>1, <3>2, <3>3 DEF HandleOfOwner, Handles
    <3> QED BY <3>1, <3>4
  <2> QED BY <2>1, <2>2
<1>4. CASE Conn!BeatEnds
  <2>1. /\ h_lock = "heartbeat" /\ h_lock' = "free" /\ h_hb' = "sleeping"
        /\ h_curl' = [h_curl EXCEPT !.timeout = h_configured, !.progress = FALSE]
        /\ UNCHANGED <<h_configured, h_headers, h_caller>>
    BY <1>4 DEF Conn!BeatEnds
  <2>2. HandleOfOwner'
    BY <2>1 DEF HandleOfOwner, Handles
  <2> QED BY <2>1, <2>2
<1> QED BY <1>1, <1>2, <1>3, <1>4

LEMMA ConnNext == ASSUME ConnInv, [Conn!Next]_(Conn!vars) PROVE ConnInv'
  BY ConnRequests, ConnOwner DEF Conn!Next

LEMMA ConnSafe == ASSUME ConnInv PROVE Conn!RequestsAsConfigured
<1> USE HttpAssumption DEF ConnInv
<1>1. ASSUME NEW t \in Threads, h_caller[t].at = "performing"
      PROVE  /\ h_lock = t
             /\ Conn!Sent = h_caller[t].verb /\ h_headers = h_caller[t].headers
             /\ h_curl.timeout = h_configured /\ ~h_curl.progress
  BY <1>1 DEF HandleOfOwner, Handles, Conn!Sent, Requests
<1>2. ASSUME h_hb = "performing"
      PROVE  /\ Conn!Sent = "GET" /\ h_headers = "base"
             /\ h_curl.timeout \in 1 .. Conn!heartbeat_timeout_ms
  BY <1>2 DEF HandleOfOwner, Conn!Sent, Conn!Bounded, Conn!heartbeat_timeout_ms
<1> QED BY <1>1, <1>2 DEF Conn!RequestsAsConfigured

-----------------------------------------------------------------------------
(* HttpGlobal. *)

ClientStates == [built : BOOLEAN, curl : BOOLEAN, acquired : BOOLEAN]
OpStates == [step : {"idle", "init", "release"}, of : Global!Objects \cup {"none"}]
Acquired == {c \in Global!Objects : g_client[c].acquired}
Releasing == {t \in Global!Owners : g_op[t].step = "release"}

(* A thread is in a constructor only of a client of its own that holds its reference. *)
Constructs ==
    \A t \in Global!Owners : g_op[t].step = "init" =>
        g_op[t].of \in Slots[t] /\ g_client[g_op[t].of].acquired

(* A client has a handle only with its reference, every reference is a client's, or on its
   way back; libcurl is initialized exactly while there is one, or a manual pin. *)
GlobalInv ==
    /\ g_client \in [Global!Objects -> ClientStates]
    /\ \A c \in Global!Objects : g_client[c].curl => g_client[c].acquired
    /\ g_op \in [Global!Owners -> OpStates]
    /\ \A t \in Global!Owners : g_op[t].step = "idle" => g_op[t] = Global!Idle
    /\ Constructs
    /\ g_manual \in BOOLEAN /\ g_initialized \in BOOLEAN
    /\ g_refs = Cardinality(Acquired) + Cardinality(Releasing)
    /\ g_initialized <=> g_manual \/ g_refs > 0

LEMMA GlobalFinite ==
    /\ IsFiniteSet(Acquired) /\ IsFiniteSet(Releasing)
    /\ Cardinality(Acquired) \in Nat /\ Cardinality(Releasing) \in Nat
<1>1. IsFiniteSet(Global!Objects) /\ IsFiniteSet(Global!Owners)
  BY HttpAssumption DEF Global!Objects, Global!Owners
<1>2. Acquired \in SUBSET Global!Objects /\ Releasing \in SUBSET Global!Owners
  BY DEF Acquired, Releasing
<1>3. IsFiniteSet(Acquired) /\ IsFiniteSet(Releasing)
  BY <1>1, <1>2, FS_Subset
<1> QED BY <1>3, FS_CardinalityType

LEMMA ClientKinds ==
    /\ Global!Gone \in ClientStates /\ ~Global!Gone.acquired /\ ~Global!Gone.curl
    /\ Global!Empty \in ClientStates /\ ~Global!Empty.acquired /\ ~Global!Empty.curl
    /\ [Global!Empty EXCEPT !.acquired = TRUE] \in ClientStates
    /\ [Global!Empty EXCEPT !.acquired = TRUE].acquired
    /\ ~[Global!Empty EXCEPT !.acquired = TRUE].curl
    /\ Global!Idle \in OpStates /\ Global!Idle.step = "idle"
  BY DEF ClientStates, OpStates, Global!Gone, Global!Empty, Global!Idle

LEMMA GlobalInit == ASSUME Global!Init PROVE GlobalInv
<1>1. \A c \in Global!Objects : g_client[c] = Global!Gone
  BY DEF Global!Init, Global!InitState
<1>2. \A t \in Global!Owners : g_op[t] = Global!Idle
  BY DEF Global!Init, Global!InitState
<1>3. Acquired = {} /\ Releasing = {}
  BY <1>1, <1>2, ClientKinds DEF Acquired, Releasing
<1>4. g_refs = Cardinality(Acquired) + Cardinality(Releasing)
  BY <1>3, FS_EmptySet DEF Global!Init, Global!InitState
<1>5. g_client \in [Global!Objects -> ClientStates] /\ g_op \in [Global!Owners -> OpStates]
  BY ClientKinds DEF Global!Init, Global!InitState
<1>6. Constructs /\ \A c \in Global!Objects : ~g_client[c].curl
  BY <1>1, <1>2, ClientKinds DEF Constructs
<1>7. g_manual = FALSE /\ g_initialized = FALSE /\ ~(g_refs > 0)
  BY DEF Global!Init, Global!InitState
<1> QED BY <1>1, <1>2, <1>4, <1>5, <1>6, <1>7 DEF GlobalInv

LEMMA GlobalManual ==
    ASSUME GlobalInv, Global!ManualInit \/ Global!ManualCleanup \/ UNCHANGED Global!vars
    PROVE  GlobalInv'
<1>1. UNCHANGED <<g_client, g_refs, g_op>>
  BY DEF Global!ManualInit, Global!ManualCleanup, Global!vars
<1>2. Acquired' = Acquired /\ Releasing' = Releasing
  BY <1>1 DEF Acquired, Releasing
<1>3. g_refs # 0 <=> g_refs > 0
  BY GlobalFinite DEF GlobalInv
<1>4. /\ g_manual' \in BOOLEAN /\ g_initialized' \in BOOLEAN
      /\ g_initialized' <=> g_manual' \/ g_refs > 0
  <2>1. CASE Global!ManualInit
    BY <2>1 DEF Global!ManualInit
  <2>2. CASE Global!ManualCleanup
    <3>1. CASE g_manual
      BY <1>3, <2>2, <3>1 DEF Global!ManualCleanup, Global!CleanupIfUnused, GlobalInv
    <3>2. CASE ~g_manual
      BY <2>2, <3>2 DEF Global!ManualCleanup, GlobalInv
    <3> QED BY <3>1, <3>2
  <2>3. CASE UNCHANGED Global!vars
    BY <2>3 DEF Global!vars, GlobalInv
  <2> QED BY <2>1, <2>2, <2>3
<1> QED BY <1>1, <1>2, <1>4 DEF GlobalInv, Constructs

(* A call of thread t that touches its own clients only: what it may do to them and to its
   own step, and how the references must follow. *)
LEMMA GlobalOwnStep ==
    ASSUME GlobalInv, NEW t \in Global!Owners,
           g_client' \in [Global!Objects -> ClientStates],
           \A d \in Global!Objects \ Slots[t] : g_client'[d] = g_client[d],
           \A d \in Slots[t] : g_client'[d].curl => g_client'[d].acquired,
           g_op' \in [Global!Owners -> OpStates],
           \A u \in Global!Owners \ {t} : g_op'[u] = g_op[u],
           g_op'[t].step = "idle" => g_op'[t] = Global!Idle,
           g_op'[t].step = "init" =>
               g_op'[t].of \in Slots[t] /\ g_client'[g_op'[t].of].acquired,
           g_manual' \in BOOLEAN, g_initialized' \in BOOLEAN,
           g_refs' = Cardinality(Acquired') + Cardinality(Releasing'),
           g_initialized' <=> g_manual' \/ g_refs' > 0
    PROVE  GlobalInv'
<1>1. Constructs'
  <2> SUFFICES ASSUME NEW u \in Global!Owners, g_op'[u].step = "init"
               PROVE  g_op'[u].of \in Slots[u] /\ g_client'[g_op'[u].of].acquired
    BY DEF Constructs
  <2>1. CASE u # t
    <3>1. g_op'[u].of \in Slots[u] /\ g_client[g_op'[u].of].acquired
      BY <2>1 DEF GlobalInv, Constructs
    <3>2. g_op'[u].of \in Global!Objects /\ g_op'[u].of \notin Slots[t]
      BY <2>1, <3>1, HttpAssumption DEF Global!Objects, Global!Owners
    <3> QED BY <3>1, <3>2
  <2> QED BY <2>1
<1>2. \A d \in Global!Objects : g_client'[d].curl => g_client'[d].acquired
  BY DEF GlobalInv
<1> QED BY <1>1, <1>2 DEF GlobalInv

LEMMA GlobalConstruct ==
    ASSUME GlobalInv, NEW t \in Global!Owners, NEW c \in Slots[t], Global!Construct(t, c)
    PROVE  GlobalInv'
<1>0. c \in Global!Objects
  BY DEF Global!Objects
<1>1. CASE UNCHANGED <<g_client, g_refs, g_manual, g_initialized, g_op>>
  BY <1>1 DEF GlobalInv, Constructs, Acquired, Releasing
<1>2. CASE ~UNCHANGED <<g_client, g_refs, g_manual, g_initialized, g_op>>
  <2> DEFINE new == [Global!Empty EXCEPT !.acquired = TRUE]
  <2>1. /\ g_op[t] = Global!Idle /\ g_client[c] = Global!Gone
        /\ g_refs' = g_refs + 1 /\ g_initialized' = TRUE /\ g_manual' = g_manual
        /\ g_op' = [g_op EXCEPT ![t] = [step |-> "init", of |-> c]]
        /\ g_client' = [g_client EXCEPT ![c] = new]
    BY <1>2 DEF Global!Construct, Global!Acquire, Global!Then
  <2>2. new \in ClientStates /\ new.acquired /\ ~new.curl
    BY ClientKinds
  <2> HIDE DEF new
  <2>3. /\ g_client' \in [Global!Objects -> ClientStates] /\ g_client'[c] = new
        /\ \A d \in Global!Objects \ {c} : g_client'[d] = g_client[d]
    BY <1>0, <2>1, <2>2 DEF GlobalInv
  <2>4. /\ g_op' \in [Global!Owners -> OpStates]
        /\ g_op'[t].step = "init" /\ g_op'[t].of = c
        /\ \A u \in Global!Owners \ {t} : g_op'[u] = g_op[u]
    BY <1>0, <2>1 DEF GlobalInv, OpStates
  <2>5. c \notin Acquired /\ Acquired' = Acquired \cup {c}
    BY <1>0, <2>1, <2>2, <2>3, ClientKinds DEF Acquired
  <2>6. Releasing' = Releasing
    BY <2>1, <2>4, ClientKinds DEF Releasing
  <2>7. Cardinality(Acquired') = Cardinality(Acquired) + 1
    BY <2>5, GlobalFinite, FS_AddElement
  <2>8. g_refs' = Cardinality(Acquired') + Cardinality(Releasing') /\ g_refs' > 0
    BY <2>1, <2>6, <2>7, GlobalFinite DEF GlobalInv
  <2>9. \A d \in Slots[t] : g_client'[d].curl => g_client'[d].acquired
    BY <2>2, <2>3 DEF GlobalInv, Global!Objects
  <2> QED BY <2>1, <2>2, <2>3, <2>4, <2>8, <2>9, GlobalOwnStep DEF GlobalInv
<1> QED BY <1>1, <1>2

(* A client that holds a reference is gone, and its thread about to give that back. *)
LEMMA GlobalDrops ==
    ASSUME GlobalInv, NEW t \in Global!Owners, NEW c \in Slots[t],
           g_client[c].acquired, g_op[t].step # "release",
           UNCHANGED <<g_refs, g_manual, g_initialized>>,
           g_client' = [g_client EXCEPT ![c] = Global!Gone],
           g_op' = [g_op EXCEPT ![t] = [step |-> "release", of |-> c]]
    PROVE  GlobalInv'
<1>0. c \in Global!Objects
  BY DEF Global!Objects
<1>1. /\ g_client' \in [Global!Objects -> ClientStates] /\ g_client'[c] = Global!Gone
      /\ \A d \in Global!Objects \ {c} : g_client'[d] = g_client[d]
  BY <1>0, ClientKinds DEF GlobalInv
<1>2. /\ g_op' \in [Global!Owners -> OpStates] /\ g_op'[t].step = "release"
      /\ \A u \in Global!Owners \ {t} : g_op'[u] = g_op[u]
  BY <1>0 DEF GlobalInv, OpStates
<1>3. Acquired' = Acquired \ {c} /\ c \in Acquired
  BY <1>0, <1>1, ClientKinds DEF Acquired
<1>4. Releasing' = Releasing \cup {t} /\ t \notin Releasing
  BY <1>2 DEF Releasing
<1>5. /\ Cardinality(Acquired') = Cardinality(Acquired) - 1
      /\ Cardinality(Releasing') = Cardinality(Releasing) + 1
  BY <1>3, <1>4, GlobalFinite, FS_RemoveElement, FS_AddElement
<1>6. g_refs' = Cardinality(Acquired') + Cardinality(Releasing')
  BY <1>5, GlobalFinite DEF GlobalInv
<1>7. \A d \in Slots[t] : g_client'[d].curl => g_client'[d].acquired
  BY <1>1, ClientKinds DEF GlobalInv, Global!Objects
<1> QED BY <1>1, <1>2, <1>6, <1>7, GlobalOwnStep DEF GlobalInv

LEMMA GlobalInitHandle ==
    ASSUME GlobalInv, NEW t \in Global!Owners, Global!InitHandle(t) PROVE GlobalInv'
<1> DEFINE c == g_op[t].of
<1>1. /\ g_op[t].step = "init" /\ c \in Slots[t] /\ g_client[c].acquired
      /\ UNCHANGED <<g_refs, g_manual, g_initialized>>
  BY DEF Global!InitHandle, GlobalInv, Constructs
<1>2. c \in Global!Objects
  BY <1>1 DEF Global!Objects
<1>3. CASE /\ g_client' = [g_client EXCEPT ![c].curl = TRUE]
           /\ g_op' = [g_op EXCEPT ![t] = Global!Idle]
  <2>1. /\ g_client' \in [Global!Objects -> ClientStates]
        /\ \A d \in Global!Objects : g_client'[d].acquired = g_client[d].acquired
        /\ \A d \in Global!Objects \ {c} : g_client'[d] = g_client[d]
    BY <1>2, <1>3, ZenonT(40) DEF GlobalInv, ClientStates
  <2>2. /\ g_op' \in [Global!Owners -> OpStates] /\ g_op'[t] = Global!Idle
        /\ \A u \in Global!Owners \ {t} : g_op'[u] = g_op[u]
    BY <1>3, ClientKinds DEF GlobalInv
  <2>3. Acquired' = Acquired
    BY <2>1 DEF Acquired
  <2>4. Releasing' = Releasing
    BY <1>1, <2>2, ClientKinds DEF Releasing
  <2>5. \A d \in Slots[t] : g_client'[d].curl => g_client'[d].acquired
    BY <1>1, <2>1 DEF GlobalInv, Global!Objects
  <2>6. \A d \in Global!Objects \ Slots[t] : g_client'[d] = g_client[d]
    BY <1>1, <2>1
  <2> QED BY <1>1, <2>1, <2>2, <2>3, <2>4, <2>5, <2>6, ClientKinds, GlobalOwnStep DEF GlobalInv
<1>4. CASE /\ g_client' = [g_client EXCEPT ![c] = Global!Gone]
           /\ g_op' = [g_op EXCEPT ![t] = [step |-> "release", of |-> c]]
  BY <1>1, <1>2, <1>4, GlobalDrops DEF GlobalInv
<1> QED BY <1>3, <1>4 DEF Global!InitHandle, Global!Then

LEMMA GlobalDestroy ==
    ASSUME GlobalInv, NEW t \in Global!Owners, NEW c \in Slots[t], Global!Destroy(t, c)
    PROVE  GlobalInv'
<1>0. c \in Global!Objects
  BY DEF Global!Objects
<1>1. /\ g_op[t].step = "idle" /\ UNCHANGED <<g_refs, g_manual, g_initialized>>
      /\ g_client' = [g_client EXCEPT ![c] = Global!Gone]
      /\ g_op' = IF g_client[c].acquired THEN [g_op EXCEPT ![t] = [step |-> "release", of |-> c]]
                 ELSE g_op
  BY ClientKinds DEF Global!Destroy, Global!Then
<1>2. CASE g_client[c].acquired
  BY <1>1, <1>2, GlobalDrops
<1>3. CASE ~g_client[c].acquired
  <2>1. /\ g_client' \in [Global!Objects -> ClientStates] /\ g_client'[c] = Global!Gone
        /\ \A d \in Global!Objects \ {c} : g_client'[d] = g_client[d]
    BY <1>0, <1>1, ClientKinds DEF GlobalInv
  <2>2. Acquired' = Acquired /\ Releasing' = Releasing
    BY <1>0, <1>1, <1>3, <2>1, ClientKinds DEF Acquired, Releasing
  <2>3. \A d \in Slots[t] : g_client'[d].curl => g_client'[d].acquired
    BY <2>1, ClientKinds DEF GlobalInv, Global!Objects
  <2> QED BY <1>1, <1>3, <2>1, <2>2, <2>3, GlobalOwnStep DEF GlobalInv
<1> QED BY <1>2, <1>3

LEMMA GlobalGiveBack ==
    ASSUME GlobalInv, NEW t \in Global!Owners, Global!GiveBack(t) PROVE GlobalInv'
<1>1. /\ g_op[t].step = "release" /\ Global!Release
      /\ g_op' = [g_op EXCEPT ![t] = Global!Idle] /\ UNCHANGED g_client
  BY DEF Global!GiveBack
<1>2. /\ g_op' \in [Global!Owners -> OpStates] /\ g_op'[t] = Global!Idle
      /\ \A u \in Global!Owners \ {t} : g_op'[u] = g_op[u]
  BY <1>1, ClientKinds DEF GlobalInv
<1>3. Acquired' = Acquired
  BY <1>1 DEF Acquired
<1>4. Releasing' = Releasing \ {t} /\ t \in Releasing
  BY <1>1, <1>2, ClientKinds DEF Releasing
<1>5. Cardinality(Releasing') = Cardinality(Releasing) - 1 /\ Cardinality(Releasing') \in Nat
  BY <1>4, GlobalFinite, FS_RemoveElement, FS_CardinalityType
<1>6. g_refs \in Nat /\ g_refs # 0 /\ g_refs - 1 = Cardinality(Acquired') + Cardinality(Releasing')
  BY <1>3, <1>5, GlobalFinite DEF GlobalInv
<1>7. /\ g_refs' = g_refs - 1 /\ g_manual' = g_manual
      /\ g_initialized' = (g_initialized /\ (g_manual \/ g_refs - 1 # 0))
  BY <1>1, <1>6 DEF Global!Release, Global!CleanupIfUnused
<1>8. g_initialized' \in BOOLEAN /\ (g_initialized' <=> g_manual' \/ g_refs' > 0)
  <2>1. g_refs > 0 /\ (g_refs - 1 # 0 <=> g_refs' > 0)
    BY <1>6, <1>7
  <2> QED BY <1>7, <2>1 DEF GlobalInv
<1> QED BY <1>1, <1>2, <1>6, <1>7, <1>8, ClientKinds, GlobalOwnStep DEF GlobalInv, Global!Objects

(* A move: the reference and the handle change hands, and a reference the target had is on
   its way back. *)
LEMMA GlobalMove ==
    ASSUME GlobalInv, NEW t \in Global!Owners, NEW a \in Slots[t], NEW b \in Slots[t], a # b,
           g_op[t] = Global!Idle, UNCHANGED <<g_refs, g_manual, g_initialized>>,
           g_client' = [g_client EXCEPT ![b] = g_client[a], ![a] = Global!Empty],
           g_op' = IF g_client[b].acquired THEN [g_op EXCEPT ![t] = [step |-> "release", of |-> b]]
                   ELSE g_op
    PROVE  GlobalInv'
<1>0. a \in Global!Objects /\ b \in Global!Objects
  BY DEF Global!Objects
<1>1. /\ g_client' \in [Global!Objects -> ClientStates]
      /\ g_client'[b] = g_client[a] /\ g_client'[a] = Global!Empty
      /\ \A d \in Global!Objects \ {a, b} : g_client'[d] = g_client[d]
  BY <1>0, ClientKinds DEF GlobalInv
<1>2. /\ g_op' \in [Global!Owners -> OpStates]
      /\ g_op'[t].step = IF g_client[b].acquired THEN "release" ELSE "idle"
      /\ g_op'[t].step = "idle" => g_op'[t] = Global!Idle
      /\ \A u \in Global!Owners \ {t} : g_op'[u] = g_op[u]
  BY <1>0, ClientKinds DEF GlobalInv, OpStates
<1> DEFINE rest == Acquired \ {b}
<1>3. /\ IsFiniteSet(rest) /\ IsFiniteSet(rest \ {a})
      /\ Cardinality(rest) = IF b \in Acquired THEN Cardinality(Acquired) - 1
                             ELSE Cardinality(Acquired)
      /\ Cardinality(rest \ {a}) = IF a \in rest THEN Cardinality(rest) - 1
                                   ELSE Cardinality(rest)
      /\ Cardinality(rest) \in Nat /\ Cardinality(rest \ {a}) \in Nat
  BY GlobalFinite, FS_RemoveElement, FS_CardinalityType
<1>4. Cardinality(Acquired') = Cardinality(rest)
  <2>1. CASE g_client[a].acquired
    <3>1. Acquired' = (rest \ {a}) \cup {b}
      BY <1>0, <1>1, <2>1, ClientKinds DEF Acquired
    <3>2. a \in rest /\ b \notin rest \ {a}
      BY <1>0, <2>1 DEF Acquired
    <3>3. Cardinality((rest \ {a}) \cup {b}) = Cardinality(rest \ {a}) + 1
      BY <1>3, <3>2, FS_AddElement
    <3> QED BY <1>3, <3>1, <3>2, <3>3
  <2>2. CASE ~g_client[a].acquired
    <3>1. Acquired' = rest
      BY <1>0, <1>1, <2>2, ClientKinds DEF Acquired
    <3> QED BY <3>1
  <2> QED BY <2>1, <2>2
<1>5. g_refs' = Cardinality(Acquired') + Cardinality(Releasing')
  <2>1. CASE g_client[b].acquired
    <3>1. Releasing' = Releasing \cup {t} /\ t \notin Releasing
      BY <1>2, <2>1, ClientKinds DEF Releasing
    <3>2. Cardinality(Releasing') = Cardinality(Releasing) + 1
      BY <3>1, GlobalFinite, FS_AddElement
    <3>3. b \in Acquired
      BY <1>0, <2>1 DEF Acquired
    <3> QED BY <1>3, <1>4, <3>2, <3>3, GlobalFinite DEF GlobalInv
  <2>2. CASE ~g_client[b].acquired
    <3>1. Releasing' = Releasing
      BY <2>2 DEF Releasing
    <3>2. b \notin Acquired
      BY <2>2 DEF Acquired
    <3> QED BY <1>3, <1>4, <3>1, <3>2 DEF GlobalInv
  <2> QED BY <2>1, <2>2
<1>6. \A d \in Slots[t] : g_client'[d].curl => g_client'[d].acquired
  BY <1>0, <1>1, ClientKinds DEF GlobalInv, Global!Objects
<1>7. \A d \in Global!Objects \ Slots[t] : g_client'[d] = g_client[d]
  BY <1>1
<1> QED BY <1>1, <1>2, <1>5, <1>6, <1>7, GlobalOwnStep DEF GlobalInv

LEMMA GlobalMoves ==
    ASSUME GlobalInv, NEW t \in Global!Owners, NEW a \in Slots[t], NEW b \in Slots[t],
           Global!MoveConstruct(t, a, b) \/ Global!MoveAssign(t, a, b)
    PROVE  GlobalInv'
<1>1. CASE Global!MoveConstruct(t, a, b)
  <2>1. a # b /\ ~g_client[b].acquired
    BY <1>1, ClientKinds DEF Global!MoveConstruct
  <2> QED BY <1>1, <2>1, GlobalMove DEF Global!MoveConstruct
<1>2. CASE Global!MoveAssign(t, a, b)
  BY <1>2, GlobalMove DEF Global!MoveAssign, Global!Then
<1> QED BY <1>1, <1>2

LEMMA GlobalNext == ASSUME GlobalInv, [Global!Next]_(Global!vars) PROVE GlobalInv'
  BY GlobalManual, GlobalConstruct, GlobalInitHandle, GlobalDestroy, GlobalGiveBack, GlobalMoves
  DEF Global!Next

LEMMA GlobalCardinality == ASSUME NEW S PROVE Global!Cardinality(S) = Cardinality(S)
  BY DEF Global!Cardinality, Cardinality

LEMMA GlobalSafe == ASSUME GlobalInv PROVE Global!HandleNeedsGlobal /\ Global!NoReferenceLeaks
<1>1. Global!HandleNeedsGlobal
  <2> SUFFICES ASSUME NEW c \in Global!Objects, g_client[c].curl PROVE g_initialized
    BY DEF Global!HandleNeedsGlobal
  <2>1. Acquired # {}
    BY DEF GlobalInv, Acquired
  <2>2. Cardinality(Acquired) # 0
    BY <2>1, GlobalFinite, FS_EmptySet
  <2>3. g_refs > 0
    BY <2>2, GlobalFinite DEF GlobalInv
  <2> QED BY <2>3 DEF GlobalInv
<1>2. ASSUME \A t \in Global!Owners : g_op[t] = Global!Idle
      PROVE  g_refs = Cardinality(Acquired)
  <2>1. Releasing = {}
    BY <1>2, ClientKinds DEF Releasing
  <2>2. Cardinality(Releasing) = 0
    BY <2>1, FS_EmptySet
  <2> QED BY <2>2, GlobalFinite DEF GlobalInv
<1>3. g_initialized = (g_manual \/ g_refs > 0)
  <2>1. g_initialized \in BOOLEAN /\ (g_initialized <=> g_manual \/ g_refs > 0)
    BY DEF GlobalInv
  <2>2. CASE g_initialized = TRUE
    BY <2>1, <2>2, Zenon
  <2>3. CASE g_initialized = FALSE
    BY <2>1, <2>3, Zenon
  <2> QED BY <2>1, <2>2, <2>3
<1>4. Global!NoReferenceLeaks
  BY <1>2, <1>3, GlobalCardinality, Zenon DEF Global!NoReferenceLeaks, Acquired
<1> QED BY <1>1, <1>4

(* HttpClient, for any number of threads and clients: libcurl is never cleaned up under a
   live handle, every reference is given back, and no request goes out with what the
   heartbeat or another request left on the shared handle. *)
THEOREM HttpStaysSafe == Spec => []HttpSafe
<1> DEFINE I == /\ which = "global" => GlobalInv
                /\ which = "conn" => ConnInv
<1>1. Init => I
  BY GlobalInit, ConnInit DEF Init, Select, InitComponents, Global!Init, Conn!Init
<1>2. I /\ [Next]_allVars => I'
  BY StepOfOne, GlobalNext, ConnNext
<1>3. I => HttpSafe
  BY GlobalSafe, ConnSafe DEF HttpSafe
<1> QED BY <1>1, <1>2, <1>3, PTL DEF Spec

-----------------------------------------------------------------------------
(* Induction over the natural numbers. *)

(* A set of numbers that is not empty has a least one. *)
LEMMA LeastNumber ==
  ASSUME NEW T \in SUBSET Nat, T # {}
  PROVE  \E x \in T : \A y \in T : x <= y
<1>1. IsWellFoundedOn(OpToRel(<, Nat), Nat)
  BY NatLessThanWellFounded
<1>2. PICK x \in T : \A y \in T : ~(<<y, x>> \in OpToRel(<, Nat))
  BY <1>1, WFMin
<1>3. \A y \in T : ~(y < x)
  BY <1>2 DEF OpToRel
<1>. QED  BY <1>3

(* Induction up to m, on the set of the numbers the claim holds of. *)
LEMMA InductionUpTo ==
  ASSUME NEW m \in Nat, NEW T \in SUBSET (0..m), 0 \in T,
         \A n \in T : n < m => n + 1 \in T
  PROVE  T = 0..m
<1> SUFFICES ASSUME T # 0..m PROVE FALSE
  OBVIOUS
<1>1. (0..m) \ T # {}
  OBVIOUS
<1>2. PICK x \in (0..m) \ T : \A y \in (0..m) \ T : x <= y
  BY <1>1, LeastNumber, (0..m) \ T \in SUBSET Nat
<1>3. x # 0 /\ x - 1 \in 0..m /\ x - 1 < m /\ x - 1 \in T
  BY <1>2
<1>. QED  BY <1>2, <1>3

(* A value and a step for each number define a function. *)
LEMMA RecursionDefined ==
  ASSUME NEW S, NEW a \in S, NEW m \in Nat, NEW step \in [1..m -> [S -> S]]
  PROVE  \E f \in [0..m -> S] : f[0] = a /\ \A n \in 1..m : f[n] = step[n][f[n - 1]]
<1> DEFINE Defined(k) == \E f \in [0..k -> S] : f[0] = a /\ \A n \in 1..k : f[n] = step[n][f[n - 1]]
           T == {k \in 0..m : Defined(k)}
<1>1. Defined(0)
  <2> DEFINE f == [n \in 0..0 |-> a]
  <2>1. f \in [0..0 -> S] /\ f[0] = a
    OBVIOUS
  <2>2. \A n \in 1..0 : f[n] = step[n][f[n - 1]]
    OBVIOUS
  <2> HIDE DEF f
  <2>. QED  BY <2>1, <2>2
<1>2. ASSUME NEW k \in T, k < m PROVE k + 1 \in T
  <2>1. PICK f \in [0..k -> S] : f[0] = a /\ \A n \in 1..k : f[n] = step[n][f[n - 1]]
    OBVIOUS
  <2> DEFINE g == [n \in 0..(k + 1) |-> IF n <= k THEN f[n] ELSE step[k + 1][f[k]]]
  <2>2. k \in Nat /\ k \in 0..k /\ k + 1 \in 1..m /\ k + 1 \in 0..m
    BY <1>2
  <2>3. f[k] \in S /\ step[k + 1] \in [S -> S]
    BY <2>2
  <2>4. step[k + 1][f[k]] \in S
    BY <2>3
  <2>5. g \in [0..(k + 1) -> S]
    BY <2>2, <2>4
  <2>6. \A n \in 0..k : g[n] = f[n]
    BY <2>2
  <2>7. g[k + 1] = step[k + 1][f[k]]
    BY <2>2
  <2>8. g[0] = a
    BY <2>1, <2>2, <2>6
  <2>9. ASSUME NEW n \in 1..(k + 1) PROVE g[n] = step[n][g[n - 1]]
    <3>1. CASE n = k + 1
      BY <3>1, <2>2, <2>6, <2>7
    <3>2. CASE n \in 1..k
      <4>1. n \in 0..k /\ n - 1 \in 0..k
        BY <2>2, <3>2
      <4>. QED  BY <2>1, <2>6, <3>2, <4>1
    <3>. QED  BY <2>2, <3>1, <3>2
  <2> HIDE DEF g
  <2>. QED  BY <2>2, <2>5, <2>8, <2>9
<1>3. T = 0..m
  <2> HIDE DEF Defined
  <2>1. T \in SUBSET (0..m) /\ 0 \in T
    BY <1>1
  <2> HIDE DEF T
  <2>. QED  BY <1>2, <2>1, InductionUpTo
<1>. QED  BY <1>3, SMTT(30)

(* Two functions that begin alike and go on alike are the same. *)
LEMMA SameRecursion ==
  ASSUME NEW m \in Nat, NEW f, NEW g, f[0] = g[0],
         \A n \in 1..m : f[n - 1] = g[n - 1] => f[n] = g[n]
  PROVE  \A n \in 0..m : f[n] = g[n]
<1> DEFINE T == {n \in 0..m : f[n] = g[n]}
<1>1. 0 \in T /\ T \in SUBSET (0..m)
  OBVIOUS
<1>2. ASSUME NEW n \in T, n < m PROVE n + 1 \in T
  <2>1. n + 1 \in 1..m /\ n + 1 \in 0..m /\ (n + 1) - 1 = n
    BY <1>2
  <2>. QED  BY <2>1
<1> HIDE DEF T
<1>3. T = 0..m
  BY <1>1, <1>2, InductionUpTo
<1>. QED  BY <1>3 DEF T

(* The same, for a context that has other facts about the two. *)
Alike(f, g, m) == f[0] = g[0] /\ \A n \in 1..m : f[n - 1] = g[n - 1] => f[n] = g[n]
Agree(f, g, m) == \A n \in 0..m : f[n] = g[n]
LEMMA AlikeAgree ==
  ASSUME NEW m \in Nat, NEW f, NEW g, Alike(f, g, m)
  PROVE  Agree(f, g, m)
<1>1. f[0] = g[0] /\ \A n \in 1..m : f[n - 1] = g[n - 1] => f[n] = g[n]
  BY DEF Alike
<1>2. \A n \in 0..m : f[n] = g[n]
  BY <1>1, SameRecursion
<1>. QED  BY <1>2 DEF Agree

-----------------------------------------------------------------------------
(* OracleDashboard. *)

Words == STRING \cup {"", "unknown", "pending", "resolved", "manual"}
OracleStates ==
    [seen : Nat, phase : Words, price : Words, last : Words, timeline : Seq(Words \X Nat)]
Histories == Seq(Logs)

(* What the assumption says of one log. *)
LEMMA LogsTyped ==
  ASSUME NEW l \in Logs
  PROVE  l.at \in Nat /\ l.at > 0 /\ l.key \in STRING /\ l.kind \in STRING /\ l.price \in STRING
BY OracleAssumption

(* append_event makes a state of a state. *)
LEMMA AppendEventTyped ==
  ASSUME NEW s \in OracleStates, NEW l \in Logs
  PROVE  Oracle!AppendEvent(s, l) \in OracleStates
<1>0. s.phase \in Words
  BY DEF OracleStates
<1>1. PICK phase \in Words : phase = Oracle!NextPhase(l.kind, s.phase)
  <2>1. Oracle!NextPhase(l.kind, s.phase) \in {"pending", "resolved", "manual", s.phase}
    BY DEF Oracle!NextPhase
  <2>2. Oracle!NextPhase(l.kind, s.phase) \in Words
    BY <1>0, <2>1 DEF Words
  <2>. QED  BY <2>2
<1>2. <<phase, l.at>> \in Words \X Nat /\ s.timeline \in Seq(Words \X Nat) /\ s.seen + 1 \in Nat
  BY LogsTyped DEF OracleStates
<1>3. Append(s.timeline, <<phase, l.at>>) \in Seq(Words \X Nat)
  BY <1>2
<1>. QED  BY <1>1, <1>2, <1>3, LogsTyped DEF Words, OracleStates, Oracle!AppendEvent

(* The states rebuild_state goes through. *)
Rebuilding(f, base, h) ==
    /\ f \in [0..Len(h) -> OracleStates] /\ f[0] = base
    /\ \A n \in 1..Len(h) : f[n] = Oracle!AppendEvent(f[n - 1], h[n])

(* rebuild_state is the last value of the recursion it is defined by. *)
LEMMA RebuildDefined ==
  ASSUME NEW base \in OracleStates, NEW h \in Histories
  PROVE  \E f : Rebuilding(f, base, h) /\ Oracle!RebuildState(base, h) = f[Len(h)]
<1>0. PICK m \in Nat : m = Len(h)
  BY DEF Histories
<1> DEFINE step == [n \in 1..m |-> [s \in OracleStates |-> Oracle!AppendEvent(s, h[n])]]
           R(f) == f = [n \in 0..m |->
                          IF n = 0 THEN base ELSE Oracle!AppendEvent(f[n - 1], h[n])]
<1>1. m \in Nat /\ \A n \in 1..m : h[n] \in Logs
  BY <1>0 DEF Histories
<1>2. step \in [1..m -> [OracleStates -> OracleStates]]
  BY <1>1, AppendEventTyped
<1>3. PICK f :
         /\ f \in [0..m -> OracleStates]
         /\ f[0] = base /\ \A n \in 1..m : f[n] = step[n][f[n - 1]]
  <2>1. PICK S : S = OracleStates
    OBVIOUS
  <2>2. base \in S /\ m \in Nat
    BY <2>1
  <2>3. PICK st \in [1..m -> [S -> S]] : st = step
    BY <1>2, <2>1
  <2>4. PICK f \in [0..m -> S] : f[0] = base /\ \A n \in 1..m : f[n] = st[n][f[n - 1]]
    BY <2>2, RecursionDefined
  <2> HIDE DEF step
  <2>. QED  BY <2>1, <2>3, <2>4
<1>4. \A n \in 1..m : f[n - 1] \in OracleStates /\ f[n] = Oracle!AppendEvent(f[n - 1], h[n])
  <2>1. \A n \in 1..m : f[n - 1] \in OracleStates
    BY <1>1, <1>3
  <2>. QED  BY <1>3, <2>1
<1>5. R(f)
  BY <1>1, <1>3, <1>4
<1>6. PICK g : R(g) /\ g = CHOOSE x : R(x)
  BY <1>5
<1>7. Oracle!RebuildState(base, h) = g[m]
  BY <1>0, <1>6 DEF Oracle!RebuildState
<1>8. g[0] = base /\ \A n \in 1..m : g[n] = Oracle!AppendEvent(g[n - 1], h[n])
  BY <1>1, <1>6
<1>9. \A n \in 0..m : g[n] = f[n]
  <2>1. \A n \in 1..m : g[n - 1] = f[n - 1] => g[n] = f[n]
    BY <1>4, <1>8
  <2>2. g[0] = f[0]
    BY <1>3, <1>8
  <2>. QED  BY <2>1, <2>2, SameRecursion
<1>10. Rebuilding(f, base, h)
  BY <1>0, <1>3, <1>4 DEF Rebuilding
<1>11. g[m] = f[m]
  BY <1>9
<1>. QED  BY <1>0, <1>7, <1>10, <1>11

(* rebuild_state makes a state of a state. *)
LEMMA RebuildTyped ==
  ASSUME NEW base \in OracleStates, NEW h \in Histories
  PROVE  Oracle!RebuildState(base, h) \in OracleStates
<1>1. Len(h) \in Nat /\ Len(h) \in 0..Len(h)
  BY DEF Histories
<1>. QED  BY <1>1, RebuildDefined DEF Rebuilding

(* Without a retained log, rebuild_state returns the base. *)
LEMMA RebuildNothing ==
  ASSUME NEW base \in OracleStates
  PROVE  Oracle!RebuildState(base, <<>>) = base
<1>1. <<>> \in Histories /\ Len(<<>>) = 0
  BY DEF Histories
<1>. QED  BY <1>1, RebuildDefined DEF Rebuilding

(* The logs of one sequence after those of another. *)
LEMMA RebuildSplit ==
  ASSUME NEW base \in OracleStates, NEW c \in Histories, NEW h \in Histories
  PROVE  Oracle!RebuildState(base, c \o h)
            = Oracle!RebuildState(Oracle!RebuildState(base, c), h)
<1>1. c \o h \in Histories /\ Len(c \o h) = Len(c) + Len(h)
  BY DEF Histories
<1>2. PICK k \in Nat, m \in Nat : k = Len(c) /\ m = Len(h)
  BY DEF Histories
<1>3. /\ \A n \in 1..k : (c \o h)[n] = c[n]
      /\ \A n \in 1..m : (c \o h)[k + n] = h[n]
  BY <1>2 DEF Histories
<1>0. PICK s \in Histories : s = c \o h
  BY <1>1
<1>4. PICK f :
         /\ f \in [0..(k + m) -> OracleStates]
         /\ f[0] = base /\ \A n \in 1..(k + m) : f[n] = Oracle!AppendEvent(f[n - 1], (c \o h)[n])
         /\ Oracle!RebuildState(base, (c \o h)) = f[(k + m)]
  <2>1. PICK f : Rebuilding(f, base, s) /\ Oracle!RebuildState(base, s) = f[Len(s)]
    BY RebuildDefined
  <2>2. Len(s) = (k + m)
    BY <1>1, <1>2, <1>0
  <2>. QED  BY <1>0, <2>1, <2>2 DEF Rebuilding
<1>5. PICK g :
         /\ g \in [0..k -> OracleStates]
         /\ g[0] = base /\ \A n \in 1..k : g[n] = Oracle!AppendEvent(g[n - 1], c[n])
         /\ Oracle!RebuildState(base, c) = g[k]
  <2>1. PICK g : Rebuilding(g, base, c) /\ Oracle!RebuildState(base, c) = g[Len(c)]
    BY RebuildDefined
  <2>2. Len(c) = k
    BY <1>1, <1>2
  <2>. QED  BY <2>1, <2>2 DEF Rebuilding
<1>6. \A n \in 0..k : f[n] = g[n]
  <2>1. \A n \in 1..k : n \in 1..(k + m)
    BY <1>2
  <2>2. \A n \in 1..k : f[n - 1] = g[n - 1] => f[n] = g[n]
    BY <1>3, <1>4, <1>5, <2>1
  <2>3. f[0] = g[0]
    BY <1>4, <1>5
  <2>. QED  BY <2>2, <2>3, SameRecursion
<1>7. g[k] \in OracleStates
  BY <1>2, <1>5
<1>8. PICK e :
         /\ e \in [0..m -> OracleStates]
         /\ e[0] = g[k] /\ \A n \in 1..m : e[n] = Oracle!AppendEvent(e[n - 1], h[n])
         /\ Oracle!RebuildState(g[k], h) = e[m]
  <2>1. PICK e : Rebuilding(e, g[k], h) /\ Oracle!RebuildState(g[k], h) = e[Len(h)]
    BY <1>7, RebuildDefined
  <2>2. Len(h) = m
    BY <1>1, <1>2
  <2>. QED  BY <2>1, <2>2 DEF Rebuilding
<1> DEFINE d == [n \in 0..m |-> f[k + n]]
<1>9. \A n \in 0..m : d[n] = e[n]
  <2>1. d[0] = e[0]
    BY <1>2, <1>6, <1>8
  <2>2. ASSUME NEW n \in 1..m, d[n - 1] = e[n - 1] PROVE d[n] = e[n]
    <3>1. k + n \in 1..(k + m) /\ n \in 0..m /\ n - 1 \in 0..m /\ k + (n - 1) = (k + n) - 1
      BY <1>2
    <3>2. d[n] = f[k + n] /\ d[n - 1] = f[(k + n) - 1]
      BY <3>1
    <3>3. f[k + n] = Oracle!AppendEvent(f[(k + n) - 1], h[n])
      BY <1>3, <1>4, <3>1
    <3>. QED  BY <1>8, <2>2, <3>2, <3>3
  <2> HIDE DEF d
  <2>. QED  BY <2>1, <2>2, SameRecursion
<1>10. f[k + m] = e[m]
  <2>1. m \in 0..m
    BY <1>2
  <2>. QED  BY <1>9, <2>1
<1>. QED  BY <1>4, <1>5, <1>8, <1>10

(* Two states that differ in their timelines only. *)
SameButTimeline(s, t) ==
    s.seen = t.seen /\ s.phase = t.phase /\ s.price = t.price /\ s.last = t.last

(* append_event does the same to two states that differ in the front of the timeline
   only. *)
LEMMA AppendApart ==
  ASSUME NEW s \in OracleStates, NEW t \in OracleStates, NEW l \in Logs,
         NEW p \in Seq(Words \X Nat), SameButTimeline(s, t), t.timeline = p \o s.timeline
  PROVE  /\ SameButTimeline(Oracle!AppendEvent(s, l), Oracle!AppendEvent(t, l))
         /\ Oracle!AppendEvent(t, l).timeline = p \o Oracle!AppendEvent(s, l).timeline
         /\ Len(Oracle!AppendEvent(s, l).timeline) = Len(s.timeline) + 1
<1>1. PICK x : x = <<Oracle!NextPhase(l.kind, s.phase), l.at>>
  OBVIOUS
<1>2. x = <<Oracle!NextPhase(l.kind, t.phase), l.at>>
  BY <1>1 DEF SameButTimeline
<1>3. /\ Oracle!AppendEvent(s, l).timeline = Append(s.timeline, x)
      /\ Oracle!AppendEvent(t, l).timeline = Append(p \o s.timeline, x)
  BY <1>1, <1>2 DEF Oracle!AppendEvent
<1>4. SameButTimeline(Oracle!AppendEvent(s, l), Oracle!AppendEvent(t, l))
  BY DEF Oracle!AppendEvent, SameButTimeline
<1>5. s.timeline \in Seq(Words \X Nat) /\ x \in Words \X Nat
  <2>1. Oracle!AppendEvent(s, l) \in OracleStates
    BY AppendEventTyped
  <2>2. Append(s.timeline, x) \in Seq(Words \X Nat) /\ s.timeline \in Seq(Words \X Nat)
    BY <1>3, <2>1 DEF OracleStates
  <2>3. /\ Len(s.timeline) + 1 \in 1..Len(Append(s.timeline, x))
        /\ Append(s.timeline, x)[Len(s.timeline) + 1] = x
    BY <2>2
  <2>. QED  BY <2>2, <2>3
<1>6. Append(p \o s.timeline, x) = p \o Append(s.timeline, x)
  <2>1. PICK q \in Seq(Words \X Nat) : q = s.timeline
    BY <1>5
  <2>2. p \o q \in Seq(Words \X Nat) /\ <<x>> \in Seq(Words \X Nat)
    BY <1>5
  <2>3. Append(p \o q, x) = (p \o q) \o <<x>> /\ Append(q, x) = q \o <<x>>
    BY <1>5, <2>2, AppendIsConcat
  <2>4. (p \o q) \o <<x>> = p \o (q \o <<x>>)
    BY <2>2, ConcatAssociative, SMTT(30)
  <2>. QED  BY <2>1, <2>3, <2>4
<1>7. Len(Append(s.timeline, x)) = Len(s.timeline) + 1
  BY <1>5
<1>. QED  BY <1>3, <1>4, <1>6, <1>7

(* So does rebuild_state: the base counts by all but its timeline. *)
LEMMA RebuildApart ==
  ASSUME NEW s \in OracleStates, NEW t \in OracleStates, NEW h \in Histories,
         SameButTimeline(s, t), s.timeline = <<>>
  PROVE  LET a == Oracle!RebuildState(s, h)
             b == Oracle!RebuildState(t, h)
         IN SameButTimeline(a, b) /\ b.timeline = t.timeline \o a.timeline
              /\ Len(a.timeline) = Len(h)
<1>1. PICK m \in Nat : m = Len(h)
  BY DEF Histories
<1>2. PICK f :
         /\ f \in [0..m -> OracleStates]
         /\ f[0] = s /\ \A n \in 1..m : f[n] = Oracle!AppendEvent(f[n - 1], h[n])
         /\ Oracle!RebuildState(s, h) = f[m]
  <2>1. PICK f : Rebuilding(f, s, h) /\ Oracle!RebuildState(s, h) = f[Len(h)]
    BY RebuildDefined
  <2>2. Len(h) = m
    BY <1>1
  <2>. QED  BY <2>1, <2>2 DEF Rebuilding
<1>3. PICK g :
         /\ g \in [0..m -> OracleStates]
         /\ g[0] = t /\ \A n \in 1..m : g[n] = Oracle!AppendEvent(g[n - 1], h[n])
         /\ Oracle!RebuildState(t, h) = g[m]
  <2>1. PICK g : Rebuilding(g, t, h) /\ Oracle!RebuildState(t, h) = g[Len(h)]
    BY RebuildDefined
  <2>2. Len(h) = m
    BY <1>1
  <2>. QED  BY <2>1, <2>2 DEF Rebuilding
<1>4. PICK p \in Seq(Words \X Nat) : p = t.timeline
  BY DEF OracleStates
<1> DEFINE T == {n \in 0..m : /\ SameButTimeline(f[n], g[n]) /\ g[n].timeline = p \o f[n].timeline
                              /\ Len(f[n].timeline) = n}
<1>5. 0 \in T /\ T \in SUBSET (0..m)
  <2>1. p = p \o <<>> /\ Len(<<>>) = 0
    BY <1>4
  <2>2. /\ SameButTimeline(f[0], g[0]) /\ g[0].timeline = p \o f[0].timeline
        /\ Len(f[0].timeline) = 0
    BY <1>2, <1>3, <1>4, <2>1
  <2>. QED  BY <2>2
<1>6. ASSUME NEW n \in T, n < m PROVE n + 1 \in T
  <2>1. n + 1 \in 1..m /\ n + 1 \in 0..m /\ (n + 1) - 1 = n /\ n \in 0..m
    BY <1>6
  <2>0. h[n + 1] \in Logs
    BY <1>1, <2>1 DEF Histories
  <2>2. f[n] \in OracleStates /\ g[n] \in OracleStates
    BY <1>2, <1>3, <2>1
  <2>3. f[n + 1] = Oracle!AppendEvent(f[n], h[n + 1])
          /\ g[n + 1] = Oracle!AppendEvent(g[n], h[n + 1])
    BY <1>2, <1>3, <2>1
  <2>4. SameButTimeline(f[n], g[n]) /\ g[n].timeline = p \o f[n].timeline /\ Len(f[n].timeline) = n
    OBVIOUS
  <2>5. /\ SameButTimeline(f[n + 1], g[n + 1]) /\ g[n + 1].timeline = p \o f[n + 1].timeline
        /\ Len(f[n + 1].timeline) = n + 1
    <3>1. PICK a \in OracleStates, b \in OracleStates, l \in Logs :
             a = f[n] /\ b = g[n] /\ l = h[n + 1]
      BY <2>0, <2>2
    <3>2. /\ SameButTimeline(Oracle!AppendEvent(a, l), Oracle!AppendEvent(b, l))
          /\ Oracle!AppendEvent(b, l).timeline = p \o Oracle!AppendEvent(a, l).timeline
          /\ Len(Oracle!AppendEvent(a, l).timeline) = Len(a.timeline) + 1
      <4>1. SameButTimeline(a, b) /\ b.timeline = p \o a.timeline
        BY <2>4, <3>1
      <4>. QED  BY <4>1, AppendApart
    <3>. QED  BY <2>3, <2>4, <3>1, <3>2
  <2>. QED  BY <2>1, <2>5
<1>7. T = 0..m
  <2> HIDE DEF T
  <2>. QED  BY <1>5, <1>6, InductionUpTo
<1>8. m \in T
  BY <1>7
<1>. QED  BY <1>1, <1>2, <1>3, <1>4, <1>8

-----------------------------------------------------------------------------
(* The order of the chain. *)

LEMMA OracleCardinality == ASSUME NEW S PROVE Oracle!Cardinality(S) = Cardinality(S)
BY DEF Oracle!Cardinality, Cardinality

Sorted(s) == \A i, j \in 1..Len(s) : i < j => s[i].at < s[j].at
LogsOf(s) == {s[i] : i \in 1..Len(s)}

(* The places of a history in order are the order of its logs. *)
LEMMA SortedDistinct ==
  ASSUME NEW s \in Histories, Sorted(s)
  PROVE  /\ Len(s) \in Nat /\ \A i \in 1..Len(s) : s[i] \in Logs /\ s[i].at \in Nat
         /\ \A i, j \in 1..Len(s) : s[i].at < s[j].at <=> i < j
         /\ \A i, j \in 1..Len(s) : s[i] = s[j] => i = j
<1>1. Len(s) \in Nat /\ \A i \in 1..Len(s) : s[i] \in Logs
  BY DEF Histories
<1>2. \A i \in 1..Len(s) : s[i].at \in Nat
  BY <1>1, LogsTyped
<1>3. ASSUME NEW i \in 1..Len(s), NEW j \in 1..Len(s) PROVE s[i].at < s[j].at <=> i < j
  <2>1. i < j \/ i = j \/ j < i
    BY <1>1
  <2>. QED  BY <1>2, <2>1 DEF Sorted
<1>4. ASSUME NEW i \in 1..Len(s), NEW j \in 1..Len(s), s[i] = s[j] PROVE i = j
  <2>1. ~(s[i].at < s[j].at) /\ ~(s[j].at < s[i].at)
    BY <1>2, <1>4
  <2>. QED  BY <1>1, <1>3, <2>1
<1>. QED  BY <1>1, <1>2, <1>3, <1>4

(* The first k logs of a history are k logs. *)
LEMMA PrefixCount ==
  ASSUME NEW s \in Histories, Sorted(s), NEW k \in 0..Len(s)
  PROVE  IsFiniteSet({s[j] : j \in 1..k}) /\ Cardinality({s[j] : j \in 1..k}) = k
<1>0. PICK m \in Nat : m = Len(s)
  BY SortedDistinct
<1> DEFINE P(n) == {s[j] : j \in 1..n}
           T == {n \in 0..m : IsFiniteSet(P(n)) /\ Cardinality(P(n)) = n}
<1>1. 0 \in T /\ T \in SUBSET (0..m)
  <2>1. P(0) = {}
    OBVIOUS
  <2>. QED  BY <2>1, FS_EmptySet
<1>2. ASSUME NEW n \in T, n < m PROVE n + 1 \in T
  <2>1. n \in Nat /\ n + 1 \in 1..m /\ n + 1 \in 0..m /\ \A j \in 1..n : j \in 1..m /\ j # n + 1
    BY <1>2
  <2>2. s[n + 1] \notin P(n)
    BY <1>0, <2>1, SortedDistinct
  <2>3. P(n + 1) = P(n) \cup {s[n + 1]}
    <3>1. 1..(n + 1) = (1..n) \cup {n + 1}
      BY <2>1
    <3>. QED  BY <3>1
  <2>4. IsFiniteSet(P(n)) /\ Cardinality(P(n)) = n
    OBVIOUS
  <2> HIDE DEF P
  <2>5. IsFiniteSet(P(n + 1)) /\ Cardinality(P(n + 1)) = n + 1
    <3>1. PICK Q, x : Q = P(n) /\ x = s[n + 1]
      OBVIOUS
    <3>2. IsFiniteSet(Q) /\ Cardinality(Q) = n /\ x \notin Q /\ P(n + 1) = Q \cup {x}
      BY <2>2, <2>3, <2>4, <3>1
    <3>3. IsFiniteSet(Q \cup {x}) /\ Cardinality(Q \cup {x}) = n + 1
      BY <3>2, FS_AddElement
    <3>. QED  BY <3>2, <3>3
  <2>. QED  BY <2>1, <2>5
<1>3. T = 0..m
  <2> HIDE DEF T
  <2>. QED  BY <1>1, <1>2, InductionUpTo
<1>. QED  BY <1>0, <1>3

(* A sorted sequence is its logs in order. *)
LEMMA InOrderIs ==
  ASSUME NEW s \in Histories, Sorted(s)
  PROVE  Oracle!InOrder(LogsOf(s)) = s
<1>0. PICK m \in Nat : m = Len(s)
  BY SortedDistinct
<1>1. PICK A : A = LogsOf(s)
  OBVIOUS
<1>2. Cardinality(A) = m
  <2>1. A = {s[j] : j \in 1..m} /\ m \in 0..Len(s)
    BY <1>0, <1>1 DEF LogsOf
  <2>. QED  BY <2>1, PrefixCount
<1>3. ASSUME NEW i \in 1..m PROVE Cardinality({l \in A : l.at < s[i].at}) = i - 1
  <2>1. i - 1 \in 0..m /\ \A j \in 1..m : j < i <=> j \in 1..(i - 1)
    BY <1>0
  <2>2. {l \in A : l.at < s[i].at} = {s[j] : j \in 1..(i - 1)}
    <3>1. \A j \in 1..m : s[j].at < s[i].at <=> j < i
      BY <1>0, SortedDistinct
    <3>2. \A j \in 1..(i - 1) : j \in 1..m
      BY <1>0
    <3>. QED  BY <1>0, <1>1, <2>1, <3>1, <3>2 DEF LogsOf
  <2>. QED  BY <1>0, <2>1, <2>2, PrefixCount
<1>4. ASSUME NEW i \in 1..m PROVE Oracle!Nth(A, i) = s[i]
  <2> DEFINE C(log) == Oracle!Cardinality({l \in A : l.at < log.at})
  <2>0. \A log : C(log) = Cardinality({l \in A : l.at < log.at})
    BY OracleCardinality
  <2>1. s[i] \in A /\ C(s[i]) = i - 1
    BY <2>0, <1>0, <1>1, <1>3 DEF LogsOf
  <2>2. ASSUME NEW log \in A, C(log) = i - 1 PROVE log = s[i]
    <3>1. PICK j \in 1..m : log = s[j]
      BY <1>0, <1>1 DEF LogsOf
    <3>2. C(s[j]) = j - 1
      BY <1>3, <2>0
    <3> HIDE DEF C
    <3>3. j - 1 = i - 1
      BY <2>2, <3>1, <3>2
    <3>4. j = i
      BY <1>0, <3>3
    <3>. QED  BY <3>1, <3>4
  <2>3. Oracle!Nth(A, i) = CHOOSE log \in A : C(log) = i - 1
    BY Zenon DEF Oracle!Nth
  <2> HIDE DEF C
  <2>. QED  BY <2>1, <2>2, <2>3
<1>5. Oracle!InOrder(A) = [i \in 1..m |-> s[i]]
  <2>1. Oracle!InOrder(A) = [i \in 1..m |-> Oracle!Nth(A, i)]
    BY <1>2, OracleCardinality DEF Oracle!InOrder
  <2>. QED  BY <1>4, <2>1
<1>. QED  BY <1>0, <1>1, <1>5 DEF Histories

(* The logs before a place are the first ones. *)
LEMMA FirstOnes ==
  ASSUME NEW h \in Histories, Sorted(h), NEW a \in Nat
  PROVE  \E b \in 0..Len(h) : {i \in 1..Len(h) : h[i].at < a} = 1..b
<1>0. PICK m \in Nat : m = Len(h)
  BY SortedDistinct
<1>1. /\ \A i \in 1..m : h[i].at \in Nat
      /\ \A i, j \in 1..m : h[i].at < h[j].at <=> i < j
  BY <1>0, SortedDistinct
<1> DEFINE Rest == {b \in 0..m : \A i \in 1..m : i > b => ~(h[i].at < a)}
<1>2. m \in Rest /\ Rest \in SUBSET Nat
  OBVIOUS
<1>3. PICK b \in Rest : \A y \in Rest : b <= y
  <2> HIDE DEF Rest
  <2>. QED  BY <1>2, LeastNumber
<1>4. ASSUME NEW i \in 1..m, i <= b PROVE h[i].at < a
  <2>1. b - 1 \in 0..m /\ b - 1 \notin Rest
    BY <1>3, <1>4
  <2>2. PICK j \in 1..m : j > b - 1 /\ h[j].at < a
    BY <2>1
  <2>3. j = b
    BY <1>3, <2>2
  <2>4. i = j \/ h[i].at < h[j].at
    BY <1>1, <1>4, <2>3
  <2>. QED  BY <1>1, <2>2, <2>4
<1>5. {i \in 1..m : h[i].at < a} = 1..b
  BY <1>3, <1>4
<1>. QED  BY <1>0, <1>3, <1>5

(* lower_bound's place keeps the history sorted. *)
LEMMA InsertSorted ==
  ASSUME NEW h \in Histories, Sorted(h), NEW l \in Logs,
         \A i \in 1..Len(h) : h[i].at # l.at
  PROVE  /\ Oracle!Insert(h, l) \in Histories /\ Sorted(Oracle!Insert(h, l))
         /\ Len(Oracle!Insert(h, l)) = Len(h) + 1
         /\ LogsOf(Oracle!Insert(h, l)) = LogsOf(h) \cup {l}
<1>0. PICK m \in Nat : m = Len(h)
  BY SortedDistinct
<1>1. /\ \A i \in 1..m : h[i].at \in Nat /\ h[i] \in Logs /\ h[i].at # l.at
      /\ \A i, j \in 1..m : i < j => h[i].at < h[j].at
      /\ l.at \in Nat
  BY <1>0, SortedDistinct, LogsTyped DEF Sorted
<1>2. PICK b \in 0..m : {i \in 1..m : h[i].at < l.at} = 1..b
  BY <1>0, <1>1, FirstOnes
<1>3. \A i \in 1..m : h[i].at < l.at <=> i <= b
  <2>1. \A i \in 1..m : i \in 1..b <=> i <= b
    BY <1>2
  <2>. QED  BY <1>2, <2>1
<1>4. PICK r : r = Oracle!Insert(h, l)
  OBVIOUS
<1>5. r = SubSeq(h, 1, b) \o <<l>> \o SubSeq(h, b + 1, m)
  <2>1. Cardinality(1..b) = b
    BY FS_Interval
  <2>2. {i \in DOMAIN h : Oracle!CanonicalBefore(h[i].at, l.at)} = 1..b
    BY <1>0, <1>2 DEF Oracle!CanonicalBefore, Histories
  <2>3. Oracle!LowerBound(h, l) = b
    BY <2>1, <2>2, OracleCardinality DEF Oracle!LowerBound
  <2>. QED  BY <1>0, <1>4, <2>3 DEF Oracle!Insert
<1>6. PICK x, y : x = SubSeq(h, 1, b) /\ y = SubSeq(h, b + 1, m)
  OBVIOUS
<1>7. x \in Seq(Logs) /\ Len(x) = b /\ \A i \in 1..b : x[i] = h[i]
  BY <1>0, <1>1, <1>6, SubSeqProperties
<1>8. y \in Seq(Logs) /\ Len(y) = m - b /\ \A i \in 1..(m - b) : y[i] = h[b + i]
  <2>1. \A i \in (b + 1)..m : h[i] \in Logs
    BY <1>1
  <2>2. /\ y \in Seq(Logs) /\ Len(y) = IF b + 1 <= m THEN m - (b + 1) + 1 ELSE 0
        /\ \A i \in 1..(m - (b + 1) + 1) : y[i] = h[(b + 1) + i - 1]
    BY <1>6, <2>1, SubSeqProperties
  <2>3. m - (b + 1) + 1 = m - b /\ \A i \in 1..(m - b) : (b + 1) + i - 1 = b + i
    OBVIOUS
  <2>4. Len(y) = m - b
    BY <2>2, <2>3
  <2>. QED  BY <2>2, <2>3, <2>4
<1>9. /\ r \in Seq(Logs) /\ Len(r) = m + 1
      /\ \A i \in 1..b : r[i] = h[i]
      /\ r[b + 1] = l
      /\ \A i \in (b + 2)..(m + 1) : r[i] = h[i - 1]
  <2>1. PICK z : z = x \o <<l>>
    OBVIOUS
  <2>2. z \in Seq(Logs) /\ Len(z) = b + 1 /\ z[b + 1] = l /\ \A i \in 1..b : z[i] = x[i]
    BY <1>7, <2>1
  <2>3. r = z \o y
    BY <1>5, <1>6, <2>1
  <2>4. /\ r \in Seq(Logs) /\ Len(r) = (b + 1) + (m - b)
        /\ \A i \in 1..(b + 1) : r[i] = z[i]
        /\ \A i \in (b + 2)..(m + 1) : r[i] = y[i - (b + 1)]
    <3>1. /\ z \o y \in Seq(Logs) /\ Len(z \o y) = Len(z) + Len(y)
          /\ \A i \in 1..(Len(z) + Len(y)) :
                (z \o y)[i] = IF i <= Len(z) THEN z[i] ELSE y[i - Len(z)]
      BY <1>8, <2>2, ConcatProperties, ZenonT(40)
    <3>. QED  BY <1>8, <2>2, <2>3, <3>1
  <2>5. \A i \in (b + 2)..(m + 1) : i - (b + 1) \in 1..(m - b) /\ b + (i - (b + 1)) = i - 1
    OBVIOUS
  <2>6. \A i \in (b + 2)..(m + 1) : r[i] = h[i - 1]
    BY <1>8, <2>4, <2>5
  <2>7. \A i \in 1..b : r[i] = h[i]
    BY <1>7, <2>2, <2>4
  <2>. QED  BY <2>2, <2>4, <2>6, <2>7
<1>10. ASSUME NEW i \in 1..(m + 1), NEW j \in 1..(m + 1), i < j PROVE r[i].at < r[j].at
  <2>1. CASE j <= b
    BY <1>1, <1>9, <1>10, <2>1
  <2>2. CASE j = b + 1
    BY <1>1, <1>3, <1>9, <1>10, <2>2
  <2>3. CASE j > b + 1
    <3>1. r[j] = h[j - 1] /\ j - 1 \in 1..m /\ j - 1 > b
      BY <1>9, <2>3
    <3>2. CASE i <= b
      BY <1>1, <1>9, <1>10, <3>1, <3>2, SMTT(30)
    <3>3. CASE i = b + 1
      <4>1. ~(h[j - 1].at < l.at) /\ h[j - 1].at # l.at /\ h[j - 1].at \in Nat
        BY <1>1, <1>3, <3>1
      <4>. QED  BY <1>1, <1>9, <3>1, <3>3, <4>1
    <3>4. CASE i > b + 1
      <4>1. r[i] = h[i - 1] /\ i - 1 \in 1..m /\ i - 1 < j - 1
        BY <1>9, <1>10, <3>4
      <4>. QED  BY <1>1, <3>1, <4>1
    <3>. QED  BY <3>2, <3>3, <3>4
  <2>. QED  BY <2>1, <2>2, <2>3
<1>11. LogsOf(r) = LogsOf(h) \cup {l}
  <2>1. ASSUME NEW i \in 1..(m + 1) PROVE r[i] \in LogsOf(h) \cup {l}
    <3>1. i \in 1..b \/ i = b + 1 \/ (i \in (b + 2)..(m + 1) /\ i - 1 \in 1..m)
      OBVIOUS
    <3>. QED  BY <1>0, <1>9, <3>1 DEF LogsOf
  <2>2. ASSUME NEW i \in 1..m PROVE h[i] \in LogsOf(r)
    <3>1. CASE i <= b
      <4>1. i \in 1..b /\ i \in 1..(m + 1)
        BY <3>1
      <4>. QED  BY <1>9, <4>1 DEF LogsOf
    <3>2. CASE i > b
      <4>1. i + 1 \in (b + 2)..(m + 1) /\ i + 1 \in 1..(m + 1) /\ (i + 1) - 1 = i
        BY <3>2
      <4>2. r[i + 1] = h[i]
        BY <1>9, <4>1
      <4>. QED  BY <1>9, <4>1, <4>2 DEF LogsOf
    <3>. QED  BY <3>1, <3>2
  <2>3. l \in LogsOf(r)
    <3>1. b + 1 \in 1..(m + 1)
      OBVIOUS
    <3>. QED  BY <1>9, <3>1 DEF LogsOf
  <2>. QED  BY <1>0, <1>9, <2>1, <2>2, <2>3 DEF LogsOf
<1>. QED  BY <1>0, <1>4, <1>9, <1>10, <1>11 DEF Histories, Sorted

(* Erasing a log keeps the others in order. *)
LEMMA RemoveSorted ==
  ASSUME NEW h \in Histories, Sorted(h), NEW k \in 1..Len(h)
  PROVE  /\ Oracle!Erase(h, k) \in Histories /\ Sorted(Oracle!Erase(h, k))
         /\ Len(Oracle!Erase(h, k)) = Len(h) - 1
         /\ LogsOf(Oracle!Erase(h, k)) = LogsOf(h) \ {h[k]}
<1>0. PICK m \in Nat : m = Len(h)
  BY SortedDistinct
<1>1. /\ \A i \in 1..m : h[i].at \in Nat /\ h[i] \in Logs
      /\ \A i, j \in 1..m : i < j => h[i].at < h[j].at
      /\ \A i, j \in 1..m : h[i] = h[j] => i = j
  BY <1>0, SortedDistinct DEF Sorted
<1>2. k \in 1..m
  BY <1>0
<1>3. PICK x, y : x = SubSeq(h, 1, k - 1) /\ y = SubSeq(h, k + 1, m)
  OBVIOUS
<1>4. x \in Seq(Logs) /\ Len(x) = k - 1 /\ \A i \in 1..(k - 1) : x[i] = h[i]
  <2>1. \A i \in 1..(k - 1) : h[i] \in Logs
    BY <1>1, <1>2
  <2>. QED  BY <1>2, <1>3, <2>1, SubSeqProperties
<1>5. y \in Seq(Logs) /\ Len(y) = m - k /\ \A i \in 1..(m - k) : y[i] = h[k + i]
  <2>1. \A i \in (k + 1)..m : h[i] \in Logs
    BY <1>1, <1>2
  <2>2. /\ y \in Seq(Logs) /\ Len(y) = IF k + 1 <= m THEN m - (k + 1) + 1 ELSE 0
        /\ \A i \in 1..(m - (k + 1) + 1) : y[i] = h[(k + 1) + i - 1]
    BY <1>2, <1>3, <2>1, SubSeqProperties
  <2>3. m - (k + 1) + 1 = m - k /\ \A i \in 1..(m - k) : (k + 1) + i - 1 = k + i
    BY <1>2
  <2>4. Len(y) = m - k
    BY <1>2, <2>2, <2>3
  <2>. QED  BY <2>2, <2>3, <2>4
<1>6. PICK r : r = Oracle!Erase(h, k)
  OBVIOUS
<1>7. r = x \o y
  BY <1>0, <1>3, <1>6 DEF Oracle!Erase
<1>8. /\ r \in Seq(Logs) /\ Len(r) = m - 1
      /\ \A i \in 1..(k - 1) : r[i] = h[i]
      /\ \A i \in k..(m - 1) : r[i] = h[i + 1]
  <2>1. /\ r \in Seq(Logs) /\ Len(r) = (k - 1) + (m - k)
        /\ \A i \in 1..(k - 1) : r[i] = x[i]
        /\ \A i \in k..(m - 1) : r[i] = y[i - (k - 1)]
    <3>1. /\ x \o y \in Seq(Logs) /\ Len(x \o y) = Len(x) + Len(y)
          /\ \A i \in 1..(Len(x) + Len(y)) :
                (x \o y)[i] = IF i <= Len(x) THEN x[i] ELSE y[i - Len(x)]
      BY <1>4, <1>5, ConcatProperties
    <3>2. /\ Len(x) = k - 1 /\ Len(y) = m - k /\ (k - 1) + (m - k) = m - 1
          /\ \A i \in k..(m - 1) : i \in 1..(m - 1) /\ ~(i <= k - 1)
          /\ \A i \in 1..(k - 1) : i \in 1..(m - 1)
      BY <1>2, <1>4, <1>5
    <3>3. r \in Seq(Logs) /\ Len(r) = (k - 1) + (m - k)
      BY <1>7, <3>1, <3>2
    <3>4. \A i \in 1..(m - 1) : r[i] = IF i <= k - 1 THEN x[i] ELSE y[i - (k - 1)]
      BY <1>7, <3>1, <3>2
    <3>5. Len(r) = m - 1
      BY <3>2, <3>3
    <3>6. ASSUME NEW i \in 1..(k - 1) PROVE r[i] = x[i]
      <4>1. i \in 1..(m - 1) /\ i <= k - 1
        BY <1>2, <3>2
      <4>. QED  BY <3>4, <4>1
    <3>7. ASSUME NEW i \in k..(m - 1) PROVE r[i] = y[i - (k - 1)]
      <4>1. i \in 1..(m - 1) /\ ~(i <= k - 1)
        BY <1>2, <3>2
      <4>. QED  BY <3>4, <4>1
    <3>. QED  BY <3>3, <3>5, <3>6, <3>7
  <2>2. \A i \in k..(m - 1) : i - (k - 1) \in 1..(m - k) /\ k + (i - (k - 1)) = i + 1
    BY <1>2
  <2>3. \A i \in k..(m - 1) : r[i] = h[i + 1]
    BY <1>5, <2>1, <2>2
  <2>4. (k - 1) + (m - k) = m - 1
    BY <1>2
  <2>. QED  BY <1>4, <2>1, <2>3, <2>4
<1>9. ASSUME NEW i \in 1..(m - 1), NEW j \in 1..(m - 1), i < j PROVE r[i].at < r[j].at
  <2>1. PICK u \in 1..m : r[i] = h[u] /\ u = IF i < k THEN i ELSE i + 1
    BY <1>2, <1>8
  <2>2. PICK v \in 1..m : r[j] = h[v] /\ v = IF j < k THEN j ELSE j + 1
    BY <1>2, <1>8
  <2>3. u < v
    BY <1>2, <1>9, <2>1, <2>2
  <2>. QED  BY <1>1, <2>1, <2>2, <2>3
<1>10. LogsOf(r) = LogsOf(h) \ {h[k]}
  <2>1. ASSUME NEW i \in 1..(m - 1) PROVE r[i] \in LogsOf(h) \ {h[k]}
    <3>1. PICK u \in 1..m : r[i] = h[u] /\ u = IF i < k THEN i ELSE i + 1
      BY <1>2, <1>8
    <3>2. u # k
      BY <1>2, <3>1
    <3>. QED  BY <1>0, <1>1, <1>2, <3>1, <3>2 DEF LogsOf
  <2>2. ASSUME NEW u \in 1..m, u # k PROVE h[u] \in LogsOf(r)
    <3>1. CASE u < k
      <4>1. u \in 1..(k - 1) /\ u \in 1..(m - 1)
        BY <1>2, <3>1
      <4>. QED  BY <1>8, <4>1 DEF LogsOf
    <3>2. CASE u > k
      <4>1. u - 1 \in k..(m - 1) /\ u - 1 \in 1..(m - 1) /\ (u - 1) + 1 = u
        BY <1>2, <3>2
      <4>2. r[u - 1] = h[u]
        BY <1>8, <4>1
      <4>. QED  BY <1>8, <4>1, <4>2 DEF LogsOf
    <3>. QED  BY <1>2, <2>2, <3>1, <3>2
  <2>3. LogsOf(r) \subseteq LogsOf(h) \ {h[k]}
    BY <1>8, <2>1 DEF LogsOf
  <2>4. LogsOf(h) \ {h[k]} \subseteq LogsOf(r)
    <3> SUFFICES ASSUME NEW e \in LogsOf(h), e # h[k] PROVE e \in LogsOf(r)
      OBVIOUS
    <3>1. PICK u \in 1..m : e = h[u]
      BY <1>0 DEF LogsOf
    <3>. QED  BY <2>2, <3>1
  <2>. QED  BY <2>3, <2>4
<1>. QED  BY <1>0, <1>6, <1>8, <1>9, <1>10 DEF Histories, Sorted

(* Two histories in order follow each other if every log of one precedes those of the
   other. *)
LEMMA ConcatSorted ==
  ASSUME NEW c \in Histories, NEW h \in Histories
  PROVE  /\ c \o h \in Histories /\ LogsOf(c \o h) = LogsOf(c) \cup LogsOf(h)
         /\ Sorted(c \o h) <=> /\ Sorted(c) /\ Sorted(h)
                               /\ \A x \in LogsOf(c), y \in LogsOf(h) : x.at < y.at
<1>1. PICK k \in Nat, m \in Nat : k = Len(c) /\ m = Len(h)
  BY DEF Histories
<1>2. PICK r : r = c \o h
  OBVIOUS
<1>3. /\ r \in Seq(Logs) /\ Len(r) = k + m
      /\ \A i \in 1..(k + m) : r[i] = IF i <= k THEN c[i] ELSE h[i - k]
  BY <1>1, <1>2, ConcatProperties DEF Histories
<1>4. \A i \in 1..k : i \in 1..(k + m) /\ r[i] = c[i]
  BY <1>3
<1>5. \A j \in 1..m : k + j \in 1..(k + m) /\ r[k + j] = h[j]
  <2>1. \A j \in 1..m : k + j \in 1..(k + m) /\ ~(k + j <= k) /\ (k + j) - k = j
    OBVIOUS
  <2>. QED  BY <1>3, <2>1
<1>6. \A i \in 1..(k + m) : i \in 1..k \/ \E j \in 1..m : i = k + j
  <2>1. \A i \in 1..(k + m) : i \in 1..k \/ (i - k \in 1..m /\ i = k + (i - k))
    OBVIOUS
  <2>. QED  BY <2>1
<1>7. LogsOf(r) = LogsOf(c) \cup LogsOf(h)
  <2>1. ASSUME NEW e \in LogsOf(r) PROVE e \in LogsOf(c) \cup LogsOf(h)
    <3>1. PICK i \in 1..(k + m) : e = r[i]
      BY <1>3 DEF LogsOf
    <3>. QED  BY <1>1, <1>4, <1>5, <1>6, <3>1 DEF LogsOf
  <2>2. ASSUME NEW e \in LogsOf(c) PROVE e \in LogsOf(r)
    BY <1>1, <1>3, <1>4 DEF LogsOf
  <2>3. ASSUME NEW e \in LogsOf(h) PROVE e \in LogsOf(r)
    BY <1>1, <1>3, <1>5 DEF LogsOf
  <2>. QED  BY <2>1, <2>2, <2>3
<1>8. ASSUME Sorted(r)
      PROVE  Sorted(c) /\ Sorted(h) /\ \A x \in LogsOf(c), y \in LogsOf(h) : x.at < y.at
  <2>1. \A i, j \in 1..(k + m) : i < j => r[i].at < r[j].at
    BY <1>3, <1>8 DEF Sorted
  <2>2. Sorted(c)
    BY <1>1, <1>4, <2>1 DEF Sorted
  <2>3. Sorted(h)
    <3> SUFFICES ASSUME NEW i \in 1..m, NEW j \in 1..m, i < j PROVE h[i].at < h[j].at
      BY <1>1 DEF Sorted
    <3>1. k + i < k + j
      OBVIOUS
    <3>. QED  BY <1>5, <2>1, <3>1
  <2>4. ASSUME NEW i \in 1..k, NEW j \in 1..m PROVE c[i].at < h[j].at
    <3>1. i < k + j
      OBVIOUS
    <3>. QED  BY <1>4, <1>5, <2>1, <3>1
  <2>. QED  BY <1>1, <2>2, <2>3, <2>4 DEF LogsOf
<1>9. ASSUME Sorted(c), Sorted(h), \A x \in LogsOf(c), y \in LogsOf(h) : x.at < y.at
      PROVE  Sorted(r)
  <2> SUFFICES ASSUME NEW i \in 1..(k + m), NEW j \in 1..(k + m), i < j PROVE r[i].at < r[j].at
    BY <1>3 DEF Sorted
  <2>1. CASE j \in 1..k
    <3>1. i \in 1..k
      BY <2>1
    <3>. QED  BY <1>1, <1>4, <1>9, <2>1, <3>1 DEF Sorted
  <2>2. ASSUME NEW v \in 1..m, j = k + v PROVE r[i].at < r[j].at
    <3>1. CASE i \in 1..k
      BY <1>1, <1>4, <1>5, <1>9, <2>2, <3>1 DEF LogsOf
    <3>2. ASSUME NEW u \in 1..m, i = k + u PROVE r[i].at < r[j].at
      <4>1. u < v
        BY <2>2, <3>2
      <4>2. h[u].at < h[v].at
        BY <1>1, <1>9, <4>1 DEF Sorted
      <4>. QED  BY <1>5, <2>2, <3>2, <4>2
    <3>. QED  BY <1>6, <3>1, <3>2
  <2>. QED  BY <1>6, <2>1, <2>2
<1>. QED  BY <1>2, <1>3, <1>7, <1>8, <1>9 DEF Histories

Strip(s) == [s EXCEPT !.timeline = <<>>]

(* A base is a state without a timeline, one for all states that differ in it only. *)
LEMMA StripTyped ==
  ASSUME NEW s \in OracleStates
  PROVE  /\ Strip(s) \in OracleStates /\ Strip(s).timeline = <<>> /\ SameButTimeline(Strip(s), s)
         /\ \A t \in OracleStates : SameButTimeline(s, t) => Strip(s) = Strip(t)
<1>1. <<>> \in Seq(Words \X Nat)
  OBVIOUS
<1>2. Strip(s) \in OracleStates
  BY <1>1 DEF Strip, OracleStates
<1>. QED  BY <1>2 DEF Strip, OracleStates, SameButTimeline

(* What is known of a key: the compacted logs c, which the base sums up, then the
   history h, are the logs that count, in order. *)
Tells(c, h, base, mark, logs) ==
    /\ Sorted(c \o h) /\ LogsOf(c \o h) = logs
    /\ base = Strip(Oracle!RebuildState(Oracle!None, c))
    /\ mark = IF c = <<>> THEN 0 ELSE c[Len(c)].at

(* The state of a key without an event. *)
LEMMA NoneTyped == Oracle!None \in OracleStates /\ Oracle!None.timeline = <<>>
<1>1. <<>> \in Seq(Words \X Nat)
  OBVIOUS
<1>. QED  BY <1>1 DEF Oracle!None, OracleStates, Words

(* compact_history: the parts of a history. *)
LEMMA Halves ==
  ASSUME NEW h \in Histories, NEW n \in 0..Len(h)
  PROVE  /\ SubSeq(h, 1, n) \in Histories /\ Len(SubSeq(h, 1, n)) = n
         /\ SubSeq(h, n + 1, Len(h)) \in Histories /\ Len(SubSeq(h, n + 1, Len(h))) = Len(h) - n
         /\ SubSeq(h, 1, n) \o SubSeq(h, n + 1, Len(h)) = h
         /\ n > 0 => SubSeq(h, 1, n)[n] = h[n]
<1>1. PICK m \in Nat : m = Len(h)
  BY DEF Histories
<1>2. h \in Seq(Logs) /\ \A i \in 1..m : h[i] \in Logs
  BY <1>1 DEF Histories
<1>3. PICK x, y : x = SubSeq(h, 1, n) /\ y = SubSeq(h, n + 1, m)
  OBVIOUS
<1>4. n \in 0..m
  BY <1>1
<1>5. x \in Seq(Logs) /\ Len(x) = n /\ \A i \in 1..n : x[i] = h[i]
  <2>1. \A i \in 1..n : h[i] \in Logs
    BY <1>2, <1>4
  <2>. QED  BY <1>3, <1>4, <2>1, SubSeqProperties
<1>6. y \in Seq(Logs) /\ Len(y) = m - n /\ \A i \in 1..(m - n) : y[i] = h[n + i]
  <2>1. \A i \in (n + 1)..m : h[i] \in Logs
    BY <1>2, <1>4
  <2>2. /\ y \in Seq(Logs) /\ Len(y) = IF n + 1 <= m THEN m - (n + 1) + 1 ELSE 0
        /\ \A i \in 1..(m - (n + 1) + 1) : y[i] = h[(n + 1) + i - 1]
    BY <1>3, <1>4, <2>1, SubSeqProperties
  <2>3. m - (n + 1) + 1 = m - n /\ \A i \in 1..(m - n) : (n + 1) + i - 1 = n + i
    BY <1>4
  <2>4. Len(y) = m - n
    BY <1>4, <2>2, <2>3
  <2>. QED  BY <2>2, <2>3, <2>4
<1>7. x \o y = h
  <2>1. /\ x \o y \in Seq(Logs) /\ Len(x \o y) = Len(x) + Len(y)
        /\ \A i \in 1..(Len(x) + Len(y)) : (x \o y)[i] = IF i <= Len(x) THEN x[i] ELSE y[i - Len(x)]
    BY <1>5, <1>6, ConcatProperties
  <2>2. Len(x \o y) = m
    BY <1>4, <1>5, <1>6, <2>1
  <2>3. ASSUME NEW i \in 1..m PROVE (x \o y)[i] = h[i]
    <3>1. CASE i <= n
      BY <1>4, <1>5, <1>6, <2>1, <3>1
    <3>2. CASE ~(i <= n)
      <4>1. i - n \in 1..(m - n) /\ n + (i - n) = i
        BY <1>4, <3>2
      <4>2. (x \o y)[i] = y[i - n]
        BY <1>4, <1>5, <1>6, <2>1, <3>2
      <4>. QED  BY <1>6, <4>1, <4>2
    <3>. QED  BY <3>1, <3>2
  <2>4. PICK z \in Seq(Logs) : z = x \o y
    BY <2>1
  <2>5. Len(z) = Len(h) /\ \A i \in 1..Len(z) : z[i] = h[i]
    BY <1>1, <2>2, <2>3, <2>4
  <2>6. z = h
    BY <1>2, <2>5, SeqEqual
  <2>. QED  BY <2>4, <2>6
<1>8. n > 0 => x[n] = h[n]
  BY <1>4, <1>5
<1>. QED  BY <1>1, <1>3, <1>5, <1>6, <1>7, <1>8 DEF Histories

(* compact_history leaves a history in order and within the limit. *)
LEMMA CompactShape ==
  ASSUME NEW h \in Histories, Sorted(h), NEW base \in OracleStates, base.timeline = <<>>,
         NEW mark \in Nat, NEW k, \A l \in LogsOf(h) : l.key = k
  PROVE  LET kept == Oracle!CompactHistory(h, base, mark) IN
         /\ kept.history \in Histories /\ kept.base \in OracleStates /\ kept.mark \in Nat
         /\ kept.base.timeline = <<>> /\ Sorted(kept.history) /\ Len(kept.history) <= Retained
         /\ \A l \in LogsOf(kept.history) : l.key = k
<1>1. PICK m \in Nat : m = Len(h)
  BY DEF Histories
<1>2. Retained \in Nat
  BY OracleAssumption
<1>3. CASE m <= Retained
  <2>1. ~(Len(h) > Retained)
    BY <1>1, <1>2, <1>3
  <2>2. Oracle!CompactHistory(h, base, mark) = [history |-> h, base |-> base, mark |-> mark]
    BY <2>1 DEF Oracle!CompactHistory
  <2>. QED  BY <1>1, <1>3, <2>2
<1>4. CASE m > Retained
  <2>1. PICK n \in 1..m : n = m - Retained
    BY <1>2, <1>4
  <2>2. PICK x, y : x = SubSeq(h, 1, n) /\ y = SubSeq(h, n + 1, m)
    OBVIOUS
  <2>3. /\ x \in Histories /\ Len(x) = n /\ y \in Histories /\ Len(y) = m - n /\ x \o y = h
        /\ x[n] = h[n]
    <3>1. n \in 0..Len(h) /\ n > 0
      BY <1>1
    <3>. QED  BY <1>1, <2>2, <3>1, Halves
  <2>4. Oracle!CompactHistory(h, base, mark)
          = [history |-> y, base |-> Strip(Oracle!RebuildState(base, x)), mark |-> x[n].at]
    <3>1. Len(h) > Retained /\ Len(h) - Retained = n /\ n # 0
      BY <1>1, <1>4, <2>1
    <3>. QED  BY <1>1, <2>2, <3>1 DEF Oracle!CompactHistory, Strip
  <2>5. Strip(Oracle!RebuildState(base, x)) \in OracleStates
          /\ Strip(Oracle!RebuildState(base, x)).timeline = <<>>
    BY <2>3, RebuildTyped, StripTyped
  <2>6. Sorted(y) /\ LogsOf(y) \subseteq LogsOf(h)
    BY <2>3, ConcatSorted
  <2>7. x[n].at \in Nat
    BY <1>1, <2>3, SortedDistinct
  <2>8. Len(y) <= Retained
    BY <1>2, <2>1, <2>3
  <2>. QED  BY <2>3, <2>4, <2>5, <2>6, <2>7, <2>8
<1>. QED  BY <1>2, <1>3, <1>4

(* compact_history moves logs into the base and changes nothing that is known of the key. *)
LEMMA CompactTells ==
  ASSUME NEW c \in Histories, NEW h \in Histories, NEW base, NEW mark, NEW logs,
         Tells(c, h, base, mark, logs)
  PROVE  LET kept == Oracle!CompactHistory(h, base, mark) IN
         \E d \in Histories : Tells(d, kept.history, kept.base, kept.mark, logs)
<1>1. PICK m \in Nat : m = Len(h)
  BY DEF Histories
<1>2. Retained \in Nat
  BY OracleAssumption
<1>3. CASE m <= Retained
  <2>1. ~(Len(h) > Retained)
    BY <1>1, <1>2, <1>3
  <2>2. Oracle!CompactHistory(h, base, mark) = [history |-> h, base |-> base, mark |-> mark]
    BY <2>1 DEF Oracle!CompactHistory
  <2>. QED  BY <2>2
<1>4. CASE m > Retained
  <2>1. PICK n \in 1..m : n = m - Retained
    BY <1>2, <1>4
  <2>2. PICK x, y : x = SubSeq(h, 1, n) /\ y = SubSeq(h, n + 1, m)
    OBVIOUS
  <2>3. /\ x \in Histories /\ Len(x) = n /\ y \in Histories /\ Len(y) = m - n /\ x \o y = h
        /\ x[n] = h[n]
    <3>1. n \in 0..Len(h) /\ n > 0
      BY <1>1
    <3>. QED  BY <1>1, <2>2, <3>1, Halves
  <2>4. Oracle!CompactHistory(h, base, mark)
          = [history |-> y, base |-> Strip(Oracle!RebuildState(base, x)), mark |-> x[n].at]
    <3>1. Len(h) > Retained /\ Len(h) - Retained = n /\ n # 0
      BY <1>1, <1>4, <2>1
    <3>. QED  BY <1>1, <2>2, <3>1 DEF Oracle!CompactHistory, Strip
  <2>5. PICK d \in Histories : d = c \o x
    BY <2>3, ConcatSorted
  <2>6. d \o y = c \o h
    <3>1. c \in Seq(Logs) /\ x \in Seq(Logs) /\ y \in Seq(Logs)
      BY <2>3 DEF Histories
    <3>2. (c \o x) \o y = c \o (x \o y)
      BY <3>1, ConcatAssociative
    <3>. QED  BY <2>3, <2>5, <3>2
  <2>7. Strip(Oracle!RebuildState(base, x)) = Strip(Oracle!RebuildState(Oracle!None, d))
    <3>1. PICK s \in OracleStates : s = Oracle!RebuildState(Oracle!None, c)
      BY NoneTyped, RebuildTyped
    <3>2. base = Strip(s)
      BY <3>1 DEF Tells
    <3>3. base \in OracleStates /\ base.timeline = <<>> /\ SameButTimeline(base, s)
      BY <3>2, StripTyped
    <3>4. Oracle!RebuildState(Oracle!None, d) = Oracle!RebuildState(s, x)
      BY <2>3, <2>5, <3>1, NoneTyped, RebuildSplit
    <3>5. SameButTimeline(Oracle!RebuildState(base, x), Oracle!RebuildState(s, x))
      BY <2>3, <3>3, RebuildApart
    <3>6. Oracle!RebuildState(base, x) \in OracleStates
            /\ Oracle!RebuildState(s, x) \in OracleStates
      BY <2>3, <3>3, RebuildTyped
    <3>. QED  BY <3>4, <3>5, <3>6, StripTyped
  <2>8. d # <<>> /\ d[Len(d)] = x[n]
    <3>1. PICK j \in Nat : j = Len(c)
      BY DEF Histories
    <3>2. Len(d) = j + n /\ d[j + n] = x[n]
      <4>1. /\ Len(c \o x) = Len(c) + Len(x)
            /\ \A i \in 1..(Len(c) + Len(x)) :
                  (c \o x)[i] = IF i <= Len(c) THEN c[i] ELSE x[i - Len(c)]
        BY <2>3, ConcatProperties DEF Histories
      <4>2. j + n \in 1..(j + n) /\ ~(j + n <= j) /\ (j + n) - j = n
        OBVIOUS
      <4>. QED  BY <2>3, <2>5, <3>1, <4>1, <4>2
    <3>3. Len(d) # 0
      BY <3>2
    <3>. QED  BY <3>2, <3>3
  <2>9. Tells(d, y, Strip(Oracle!RebuildState(base, x)), x[n].at, logs)
    BY <2>6, <2>7, <2>8 DEF Tells
  <2>. QED  BY <2>4, <2>9
<1>. QED  BY <1>2, <1>3, <1>4

(* What the property says of a key, from what is known of it. *)
LEMMA TellsFold ==
  ASSUME NEW c \in Histories, NEW h \in Histories, NEW base, NEW mark, NEW logs,
         Tells(c, h, base, mark, logs)
  PROVE  LET state == Oracle!RebuildState(base, h)
             fold == Oracle!RebuildState(Oracle!None, Oracle!InOrder(logs))
         IN /\ [state EXCEPT !.timeline = <<>>] = [fold EXCEPT !.timeline = <<>>]
            /\ state.timeline = Oracle!Newest(fold.timeline, Len(state.timeline))
<1>1. Oracle!InOrder(logs) = c \o h
  BY ConcatSorted, InOrderIs DEF Tells
<1>2. PICK s \in OracleStates : s = Oracle!RebuildState(Oracle!None, c)
  BY NoneTyped, RebuildTyped
<1>3. base = Strip(s)
  BY <1>2 DEF Tells
<1>4. base \in OracleStates /\ base.timeline = <<>> /\ SameButTimeline(base, s)
  BY <1>3, StripTyped
<1>5. PICK a \in OracleStates, b \in OracleStates :
         a = Oracle!RebuildState(base, h) /\ b = Oracle!RebuildState(s, h)
  BY <1>4, RebuildTyped
<1>6. b = Oracle!RebuildState(Oracle!None, Oracle!InOrder(logs))
  BY <1>1, <1>2, <1>5, NoneTyped, RebuildSplit
<1>7. SameButTimeline(a, b) /\ b.timeline = s.timeline \o a.timeline
  BY <1>4, <1>5, RebuildApart
<1>8. Strip(a) = Strip(b)
  BY <1>7, StripTyped
<1>9. a.timeline = Oracle!Newest(b.timeline, Len(a.timeline))
  <2>1. PICK p \in Seq(Words \X Nat), q \in Seq(Words \X Nat) : p = s.timeline /\ q = a.timeline
    BY DEF OracleStates
  <2>2. PICK j \in Nat, n \in Nat : j = Len(p) /\ n = Len(q)
    OBVIOUS
  <2>3. PICK z : z = p \o q
    OBVIOUS
  <2>4. /\ z \in Seq(Words \X Nat) /\ Len(z) = j + n
        /\ \A i \in 1..(j + n) : z[i] = IF i <= j THEN p[i] ELSE q[i - j]
    <3>1. /\ p \o q \in Seq(Words \X Nat) /\ Len(p \o q) = Len(p) + Len(q)
          /\ \A i \in 1..(Len(p) + Len(q)) :
                (p \o q)[i] = IF i <= Len(p) THEN p[i] ELSE q[i - Len(p)]
      BY ConcatProperties
    <3>. QED  BY <2>2, <2>3, <3>1
  <2>5. SubSeq(z, j + 1, j + n) = q
    <3>1. PICK w : w = SubSeq(z, j + 1, j + n)
      OBVIOUS
    <3>2. \A i \in (j + 1)..(j + n) : z[i] \in Words \X Nat
      BY <2>4
    <3>3. /\ w \in Seq(Words \X Nat)
          /\ Len(w) = IF j + 1 <= j + n THEN (j + n) - (j + 1) + 1 ELSE 0
          /\ \A i \in 1..((j + n) - (j + 1) + 1) : w[i] = z[(j + 1) + i - 1]
      BY <3>1, <3>2, SubSeqProperties
    <3>4. Len(w) = n
      BY <3>3
    <3>5. ASSUME NEW i \in 1..n PROVE w[i] = q[i]
      <4>1. i \in 1..((j + n) - (j + 1) + 1) /\ (j + 1) + i - 1 = j + i
        OBVIOUS
      <4>2. j + i \in 1..(j + n) /\ ~(j + i <= j) /\ (j + i) - j = i
        OBVIOUS
      <4>. QED  BY <2>4, <3>3, <4>1, <4>2
    <3>6. w = q
      BY <2>1, <2>2, <3>3, <3>4, <3>5, SeqEqual
    <3>. QED  BY <3>1, <3>6
  <2>6. Oracle!Newest(z, n) = SubSeq(z, j + 1, j + n)
    <3>1. (IF j + n > n THEN (j + n) - n + 1 ELSE 1) = j + 1
      OBVIOUS
    <3>. QED  BY <2>4, <3>1 DEF Oracle!Newest
  <2>. QED  BY <1>7, <2>1, <2>2, <2>3, <2>5, <2>6
<1>. QED  BY <1>5, <1>6, <1>8, <1>9 DEF Strip

(***************************************************************************)
(* The dashboard.                                                          *)
(***************************************************************************)
OracleShape ==
    /\ o_live \in SUBSET Logs
    /\ o_histories \in [Oracle!Keys -> Histories] /\ o_bases \in [Oracle!Keys -> OracleStates]
    /\ o_states \in [Oracle!Keys -> OracleStates] /\ o_through \in [Oracle!Keys -> Nat]

(* What holds of a key whatever came late. *)
KeyShape(k, history, base, state) ==
    /\ Sorted(history) /\ Len(history) <= Retained /\ \A l \in LogsOf(history) : l.key = k
    /\ base.timeline = <<>> /\ state = Oracle!RebuildState(base, history)

LiveOf(k) == {log \in o_live : log.key = k}

(* What holds of a key that nothing came late for. *)
KeyTold(k) == \E c \in Histories : Tells(c, o_histories[k], o_bases[k], o_through[k], LiveOf(k))

OracleInv ==
    /\ OracleShape
    /\ \A k \in Oracle!Keys : KeyShape(k, o_histories[k], o_bases[k], o_states[k])
    /\ \A k \in Oracle!Keys : k \notin o_late => KeyTold(k)

(* The empty dashboard. *)
LEMMA OracleInit == Oracle!InitState => OracleInv
<1> SUFFICES ASSUME Oracle!InitState PROVE OracleInv
  OBVIOUS
<1>1. <<>> \in Histories /\ Len(<<>>) = 0 /\ LogsOf(<<>>) = {} /\ Sorted(<<>>)
  BY DEF Histories, LogsOf, Sorted
<1>2. Oracle!RebuildState(Oracle!None, <<>>) = Oracle!None /\ Strip(Oracle!None) = Oracle!None
  BY NoneTyped, RebuildNothing DEF Strip, Oracle!None
<1>3. OracleShape
  BY <1>1, NoneTyped DEF OracleShape, Oracle!InitState
<1>4. ASSUME NEW k \in Oracle!Keys
      PROVE  KeyShape(k, o_histories[k], o_bases[k], o_states[k]) /\ KeyTold(k)
  <2>1. o_histories[k] = <<>> /\ o_bases[k] = Oracle!None /\ o_states[k] = Oracle!None
          /\ o_through[k] = 0 /\ LiveOf(k) = {}
    BY DEF Oracle!InitState, LiveOf
  <2>2. Retained \in Nat
    BY OracleAssumption
  <2>3. KeyShape(k, <<>>, Oracle!None, Oracle!None)
    BY <1>1, <1>2, <2>2, NoneTyped DEF KeyShape
  <2>4. <<>> \o <<>> = <<>>
    OBVIOUS
  <2>5. Tells(<<>>, <<>>, Oracle!None, 0, {})
    BY <1>1, <1>2, <2>4 DEF Tells
  <2>. QED  BY <1>1, <2>1, <2>3, <2>5 DEF KeyTold
<1>. QED  BY <1>3, <1>4 DEF OracleInv

(* A step that leaves everything but live and late alone. *)
LEMMA OracleKeeps ==
  ASSUME OracleInv, NEW log \in Logs, o_live' \in SUBSET Logs,
         UNCHANGED <<o_states, o_histories, o_bases, o_through>>,
         o_late \subseteq o_late',
         \A k \in Oracle!Keys : k \notin o_late' => LiveOf(k)' = LiveOf(k)
  PROVE  OracleInv'
<1>1. OracleShape'
  BY DEF OracleInv, OracleShape
<1>2. ASSUME NEW k \in Oracle!Keys
      PROVE  KeyShape(k, o_histories[k], o_bases[k], o_states[k])'
  BY DEF OracleInv, KeyShape
<1>3. ASSUME NEW k \in Oracle!Keys, k \notin o_late' PROVE KeyTold(k)'
  <2>1. KeyTold(k) /\ LiveOf(k)' = LiveOf(k)
    BY <1>3 DEF OracleInv
  <2>. QED  BY <2>1 DEF KeyTold
<1>4. Oracle!Keys' = Oracle!Keys
  OBVIOUS
<1>. QED  BY <1>1, <1>2, <1>3, <1>4 DEF OracleInv

(* A step that stores a key. *)
LEMMA OracleStores ==
  ASSUME OracleInv, NEW log \in Logs, o_live' \in SUBSET Logs, UNCHANGED o_late,
         NEW history \in Histories, NEW base \in OracleStates, NEW mark \in Nat,
         Oracle!Stores(log.key, history, base, mark),
         KeyShape(log.key, history, base, Oracle!RebuildState(base, history)),
         \A k \in Oracle!Keys : k # log.key => LiveOf(k)' = LiveOf(k),
         log.key \notin o_late =>
            \E c \in Histories : Tells(c, history, base, mark, LiveOf(log.key)')
  PROVE  OracleInv'
<1>0. log.key \in Oracle!Keys
  BY DEF Oracle!Keys
<1>1. Oracle!RebuildState(base, history) \in OracleStates
  BY RebuildTyped
<1>2. OracleShape'
  BY <1>0, <1>1 DEF OracleInv, OracleShape, Oracle!Stores
<1>3. ASSUME NEW k \in Oracle!Keys
      PROVE  KeyShape(k, o_histories[k], o_bases[k], o_states[k])'
  <2>1. CASE k = log.key
    <3>1. /\ o_histories'[k] = history /\ o_bases'[k] = base
          /\ o_states'[k] = Oracle!RebuildState(base, history)
      BY <1>0, <2>1 DEF OracleInv, OracleShape, Oracle!Stores
    <3>. QED  BY <2>1, <3>1
  <2>2. CASE k # log.key
    <3>1. o_histories'[k] = o_histories[k] /\ o_bases'[k] = o_bases[k] /\ o_states'[k] = o_states[k]
      BY <2>2 DEF OracleInv, OracleShape, Oracle!Stores
    <3>2. KeyShape(k, o_histories[k], o_bases[k], o_states[k])
      BY DEF OracleInv
    <3>. QED  BY <3>1, <3>2
  <2>. QED  BY <2>1, <2>2
<1>4. ASSUME NEW k \in Oracle!Keys, k \notin o_late' PROVE KeyTold(k)'
  <2>1. CASE k = log.key
    <3>1. o_histories'[k] = history /\ o_bases'[k] = base /\ o_through'[k] = mark
      BY <1>0, <2>1 DEF OracleInv, OracleShape, Oracle!Stores
    <3>. QED  BY <1>4, <2>1, <3>1 DEF KeyTold
  <2>2. CASE k # log.key
    <3>1. o_histories'[k] = o_histories[k] /\ o_bases'[k] = o_bases[k]
            /\ o_through'[k] = o_through[k]
      BY <2>2 DEF OracleInv, OracleShape, Oracle!Stores
    <3>2. KeyTold(k) /\ LiveOf(k)' = LiveOf(k)
      BY <1>4, <2>2 DEF OracleInv
    <3>. QED  BY <3>1, <3>2 DEF KeyTold
  <2>. QED  BY <2>1, <2>2
<1>5. Oracle!Keys' = Oracle!Keys
  OBVIOUS
<1>. QED  BY <1>2, <1>3, <1>4, <1>5 DEF OracleInv

(* Where a log of the key is, if it is anywhere. *)
LEMMA PlacesOf ==
  ASSUME OracleInv, NEW log \in Logs
  PROVE  /\ log.key \in Oracle!Keys /\ o_histories[log.key] \in Histories
         /\ \A i \in 1..Len(o_histories[log.key]) :
               o_histories[log.key][i] \in Logs /\ o_histories[log.key][i].key = log.key
         /\ Oracle!Places(log) =
              {i \in 1..Len(o_histories[log.key]) : o_histories[log.key][i] = log}
         /\ Oracle!Known(log) <=> log \in LogsOf(o_histories[log.key])
<1>1. log.key \in Oracle!Keys
  BY DEF Oracle!Keys
<1>2. PICK h \in Histories : h = o_histories[log.key]
  BY <1>1 DEF OracleInv, OracleShape
<1>3. \A i \in 1..Len(h) : h[i] \in Logs /\ h[i].key = log.key
  <2>1. \A l \in LogsOf(h) : l.key = log.key
    BY <1>1, <1>2 DEF OracleInv, KeyShape
  <2>. QED  BY <2>1 DEF LogsOf, Histories
<1>4. \A i \in 1..Len(h) : h[i].at = log.at <=> h[i] = log
  BY <1>3, OracleAssumption
<1>5. DOMAIN h = 1..Len(h)
  BY DEF Histories
<1>6. Oracle!Places(log) = {i \in 1..Len(h) : h[i] = log}
  BY <1>2, <1>4, <1>5 DEF Oracle!Places, Oracle!SameLog
<1>. QED  BY <1>1, <1>2, <1>3, <1>6 DEF LogsOf, Oracle!Known

(* The compacted logs are not after the boundary. *)
LEMMA BoundaryTold ==
  ASSUME NEW c \in Histories, NEW h, NEW base, NEW mark, NEW logs, Tells(c, h, base, mark, logs),
         Sorted(c)
  PROVE  /\ mark \in Nat /\ (mark = 0 => LogsOf(c) = {})
         /\ \A x \in LogsOf(c) : x.at <= mark
<1>1. PICK m \in Nat : m = Len(c)
  BY DEF Histories
<1>2. /\ \A i \in 1..m : c[i] \in Logs /\ c[i].at \in Nat /\ c[i].at > 0
      /\ \A i, j \in 1..m : i < j => c[i].at < c[j].at
  BY <1>1, LogsTyped DEF Histories, Sorted
<1>3. CASE m = 0
  <2>1. c = <<>>
    <3>1. c \in Seq(Logs) /\ Len(c) = 0
      BY <1>1, <1>3 DEF Histories
    <3>. QED  BY <3>1, EmptySeq
  <2>2. 1..Len(c) = {}
    BY <1>1, <1>3
  <2>3. LogsOf(c) = {}
    BY <2>2 DEF LogsOf
  <2>. QED  BY <2>1, <2>3 DEF Tells
<1>4. CASE m > 0
  <2>1. c # <<>> /\ m \in 1..m
    BY <1>1, <1>4
  <2>2. mark = c[m].at
    BY <1>1, <2>1 DEF Tells
  <2>3. ASSUME NEW i \in 1..m PROVE c[i].at <= c[m].at
    <3>1. CASE i = m
      BY <1>2, <3>1
    <3>2. CASE i < m
      BY <1>2, <2>1, <3>2
    <3>. QED  BY <3>1, <3>2
  <2>. QED  BY <1>1, <1>2, <2>1, <2>2, <2>3 DEF LogsOf
<1>. QED  BY <1>3, <1>4

(* ingest_event of a log. *)
LEMMA OracleIngest ==
  ASSUME OracleInv, NEW log \in Logs, Oracle!Ingest(log)
  PROVE  OracleInv'
<1> DEFINE key == log.key
<1>0. o_live' = o_live \cup {log} /\ o_live' \in SUBSET Logs
  BY DEF Oracle!Ingest, OracleInv, OracleShape
<1>1. \A k \in Oracle!Keys : k # key => LiveOf(k)' = LiveOf(k)
  BY <1>0 DEF LiveOf
<1>2. LiveOf(key)' = LiveOf(key) \cup {log}
  BY <1>0 DEF LiveOf
<1>3. CASE Oracle!Known(log) \/ Oracle!BeforeBoundary(log)
  <2>1. /\ UNCHANGED <<o_states, o_histories, o_bases, o_through>>
        /\ o_late' = IF log \in o_live THEN o_late ELSE o_late \cup {key}
    BY <1>3 DEF Oracle!Ingest
  <2>2. ASSUME NEW k \in Oracle!Keys, k \notin o_late' PROVE LiveOf(k)' = LiveOf(k)
    <3>1. CASE k = key
      <4>1. log \in o_live
        BY <2>1, <2>2, <3>1
      <4>. QED  BY <1>0, <4>1 DEF LiveOf
    <3>. QED  BY <1>1, <3>1
  <2>3. o_late \subseteq o_late'
    BY <2>1
  <2>. QED  BY <1>0, <2>1, <2>2, <2>3, OracleKeeps
<1>4. CASE ~(Oracle!Known(log) \/ Oracle!BeforeBoundary(log))
  <2>1. PICK h \in Histories : h = o_histories[key]
    BY PlacesOf
  <2>2. PICK base \in OracleStates, mark \in Nat : base = o_bases[key] /\ mark = o_through[key]
    BY PlacesOf DEF OracleInv, OracleShape
  <2>3. /\ Sorted(h) /\ \A l \in LogsOf(h) : l.key = key
        /\ base.timeline = <<>>
    BY <2>1, <2>2, PlacesOf DEF OracleInv, KeyShape
  <2>4. log \notin LogsOf(h) /\ \A i \in 1..Len(h) : h[i].at # log.at
    <3>1. log \notin LogsOf(h)
      BY <1>4, <2>1, PlacesOf
    <3>2. \A i \in 1..Len(h) : h[i] # log /\ h[i] \in Logs /\ h[i].key = log.key
      BY <2>1, <3>1, PlacesOf DEF LogsOf
    <3>. QED  BY <3>1, <3>2, OracleAssumption
  <2>5. PICK g \in Histories : g = Oracle!Insert(h, log)
    BY <2>3, <2>4, InsertSorted
  <2>6. Sorted(g) /\ LogsOf(g) = LogsOf(h) \cup {log}
    BY <2>3, <2>4, <2>5, InsertSorted
  <2>7. PICK kept : kept = Oracle!CompactHistory(g, base, mark)
    OBVIOUS
  <2>8. \A l \in LogsOf(g) : l.key = key
    BY <2>3, <2>6
  <2>9. /\ kept.history \in Histories /\ kept.base \in OracleStates /\ kept.mark \in Nat
        /\ kept.base.timeline = <<>> /\ Sorted(kept.history) /\ Len(kept.history) <= Retained
        /\ \A l \in LogsOf(kept.history) : l.key = key
    BY <2>3, <2>6, <2>7, <2>8, CompactShape
  <2>10. Oracle!Stores(key, kept.history, kept.base, kept.mark) /\ UNCHANGED o_late
    BY <1>4, <2>1, <2>2, <2>5, <2>7 DEF Oracle!Ingest
  <2>11. ASSUME key \notin o_late
         PROVE  \E c \in Histories :
                   Tells(c, kept.history, kept.base, kept.mark, LiveOf(key)')
    <3>1. PICK c \in Histories : Tells(c, h, base, mark, LiveOf(key))
      BY <2>1, <2>2, <2>11, PlacesOf DEF OracleInv, KeyTold
    <3>2. /\ Sorted(c) /\ Sorted(h) /\ LiveOf(key) = LogsOf(c) \cup LogsOf(h)
          /\ \A x \in LogsOf(c), y \in LogsOf(h) : x.at < y.at
      BY <3>1, ConcatSorted DEF Tells
    <3>3. /\ mark \in Nat /\ (mark = 0 => LogsOf(c) = {}) /\ \A x \in LogsOf(c) : x.at <= mark
      BY <3>1, <3>2, BoundaryTold
    <3>4. ~(mark > 0 /\ ~(mark < log.at))
      BY <1>4, <2>2 DEF Oracle!BeforeBoundary, Oracle!CanonicalBefore
    <3>5. \A x \in LogsOf(c) : x.at < log.at
      <4>1. log.at \in Nat /\ \A x \in LogsOf(c) : x.at \in Nat
        BY LogsTyped DEF LogsOf, Histories
      <4>. QED  BY <3>3, <3>4, <4>1
    <3>6. \A x \in LogsOf(c), y \in LogsOf(g) : x.at < y.at
      BY <2>6, <3>2, <3>5
    <3>7. Sorted(c \o g) /\ LogsOf(c \o g) = LogsOf(c) \cup LogsOf(g)
      BY <2>6, <3>2, <3>6, ConcatSorted
    <3>8. LogsOf(c \o g) = LiveOf(key)'
      BY <1>2, <2>6, <3>2, <3>7
    <3>9. Tells(c, g, base, mark, LiveOf(key)')
      BY <3>1, <3>7, <3>8 DEF Tells
    <3>10. PICK logs : logs = LiveOf(key)'
      OBVIOUS
    <3>11. Tells(c, g, base, mark, logs)
      BY <3>9, <3>10
    <3>12. \E d \in Histories : Tells(d, kept.history, kept.base, kept.mark, logs)
      BY <2>7, <3>11, CompactTells
    <3>. QED  BY <3>10, <3>12
  <2>12. KeyShape(key, kept.history, kept.base, Oracle!RebuildState(kept.base, kept.history))
    BY <2>9 DEF KeyShape
  <2>. QED  BY <1>0, <1>1, <2>9, <2>10, <2>11, <2>12, OracleStores
<1>. QED  BY <1>3, <1>4

(* ingest_event of a removed log. *)
LEMMA OracleRemoved ==
  ASSUME OracleInv, NEW log \in Logs, Oracle!Removed(log)
  PROVE  OracleInv'
<1> DEFINE key == log.key
<1>0. o_live' = o_live \ {log} /\ o_live' \in SUBSET Logs
  BY DEF Oracle!Removed, OracleInv, OracleShape
<1>1. \A k \in Oracle!Keys : k # key => LiveOf(k)' = LiveOf(k)
  BY <1>0 DEF LiveOf
<1>2. LiveOf(key)' = LiveOf(key) \ {log}
  BY <1>0 DEF LiveOf
<1>3. CASE ~Oracle!Known(log)
  <2>1. /\ UNCHANGED <<o_states, o_histories, o_bases, o_through>>
        /\ o_late' = IF log \in o_live THEN o_late \cup {key} ELSE o_late
    BY <1>3 DEF Oracle!Removed
  <2>2. ASSUME NEW k \in Oracle!Keys, k \notin o_late' PROVE LiveOf(k)' = LiveOf(k)
    <3>1. CASE k = key
      <4>1. log \notin o_live
        BY <2>1, <2>2, <3>1
      <4>. QED  BY <1>0, <4>1 DEF LiveOf
    <3>. QED  BY <1>1, <3>1
  <2>3. o_late \subseteq o_late'
    BY <2>1
  <2>. QED  BY <1>0, <2>1, <2>2, <2>3, OracleKeeps
<1>4. CASE Oracle!Known(log)
  <2>1. PICK h \in Histories : h = o_histories[key]
    BY PlacesOf
  <2>2. PICK base \in OracleStates, mark \in Nat : base = o_bases[key] /\ mark = o_through[key]
    BY PlacesOf DEF OracleInv, OracleShape
  <2>3. /\ Sorted(h) /\ \A l \in LogsOf(h) : l.key = key
        /\ base.timeline = <<>> /\ Len(h) <= Retained
    BY <2>1, <2>2, PlacesOf DEF OracleInv, KeyShape
  <2>4. PICK places : places = Oracle!Places(log)
    OBVIOUS
  <2>5. places = {i \in 1..Len(h) : h[i] = log} /\ places # {}
    BY <1>4, <2>1, <2>4, PlacesOf DEF Oracle!Known
  <2>6. PICK n : n = Oracle!Min(places)
    OBVIOUS
  <2>7. n \in 1..Len(h) /\ h[n] = log
    <3>1. places \in SUBSET Nat
      BY <2>5
    <3>2. \E x \in places : \A y \in places : x <= y
      BY <2>5, <3>1, LeastNumber
    <3>3. n \in places
      BY <2>6, <3>2 DEF Oracle!Min
    <3>. QED  BY <2>5, <3>3
  <2>8. PICK g \in Histories : g = Oracle!Erase(h, n)
    BY <2>3, <2>7, RemoveSorted
  <2>9. Sorted(g) /\ LogsOf(g) = LogsOf(h) \ {log} /\ Len(g) = Len(h) - 1
    BY <2>3, <2>7, <2>8, RemoveSorted
  <2>10. Oracle!Stores(key, g, base, mark) /\ UNCHANGED o_late
    BY <1>4, <2>1, <2>2, <2>4, <2>6, <2>8 DEF Oracle!Removed
  <2>11. KeyShape(key, g, base, Oracle!RebuildState(base, g))
    <3>1. Len(g) <= Retained
      <4>1. Len(h) \in Nat /\ Retained \in Nat
        BY OracleAssumption DEF Histories
      <4>. QED  BY <2>3, <2>9, <4>1
    <3>. QED  BY <2>3, <2>9, <3>1 DEF KeyShape
  <2>12. ASSUME key \notin o_late
         PROVE  \E c \in Histories : Tells(c, g, base, mark, LiveOf(key)')
    <3>1. PICK c \in Histories : Tells(c, h, base, mark, LiveOf(key))
      BY <2>1, <2>2, <2>12, PlacesOf DEF OracleInv, KeyTold
    <3>2. /\ Sorted(c) /\ LiveOf(key) = LogsOf(c) \cup LogsOf(h)
          /\ \A x \in LogsOf(c), y \in LogsOf(h) : x.at < y.at
      BY <3>1, ConcatSorted DEF Tells
    <3>3. log \in LogsOf(h) /\ log \notin LogsOf(c)
      <4>1. log \in LogsOf(h)
        BY <2>7 DEF LogsOf
      <4>2. log.at \in Nat
        BY LogsTyped
      <4>. QED  BY <3>2, <4>1, <4>2
    <3>4. \A x \in LogsOf(c), y \in LogsOf(g) : x.at < y.at
      BY <2>9, <3>2
    <3>5. Sorted(c \o g) /\ LogsOf(c \o g) = LogsOf(c) \cup LogsOf(g)
      BY <2>9, <3>2, <3>4, ConcatSorted
    <3>6. LogsOf(c \o g) = LiveOf(key)'
      BY <1>2, <2>9, <3>2, <3>3, <3>5
    <3>7. Tells(c, g, base, mark, LiveOf(key)')
      BY <3>1, <3>5, <3>6 DEF Tells
    <3>. QED  BY <3>7
  <2>. QED  BY <1>0, <1>1, <2>10, <2>11, <2>12, OracleStores
<1>. QED  BY <1>3, <1>4

(* Every step of the dashboard. *)
LEMMA OracleNext ==
  ASSUME OracleInv, Oracle!Next \/ UNCHANGED o_vars
  PROVE  OracleInv'
<1>1. CASE Oracle!Next
  BY <1>1, OracleIngest, OracleRemoved DEF Oracle!Next
<1>2. CASE UNCHANGED o_vars
  BY <1>2 DEF o_vars, OracleInv, OracleShape, KeyShape, KeyTold, LiveOf
<1>. QED  BY <1>1, <1>2

(* The fold of the live logs, in order, is what the base and the history say. *)
LEMMA OracleSafe == OracleInv => Oracle!ArrivalOrderIrrelevant
<1> SUFFICES ASSUME OracleInv, NEW k \in Oracle!Keys
             PROVE  LET fold == Oracle!RebuildState(Oracle!None, Oracle!Canonical(k)) IN
                    /\ k \notin o_late =>
                         /\ [o_states[k] EXCEPT !.timeline = <<>>] = [fold EXCEPT !.timeline = <<>>]
                         /\ o_states[k].timeline
                              = Oracle!Newest(fold.timeline, Len(o_states[k].timeline))
                    /\ Len(o_states[k].timeline) = Len(o_histories[k])
                    /\ Len(o_histories[k]) <= Retained
  BY DEF Oracle!ArrivalOrderIrrelevant
<1>1. PICK h \in Histories, base \in OracleStates : h = o_histories[k] /\ base = o_bases[k]
  BY DEF OracleInv, OracleShape
<1>2. o_states[k] = Oracle!RebuildState(base, h) /\ base.timeline = <<>> /\ Len(h) <= Retained
  BY <1>1 DEF OracleInv, KeyShape
<1>3. Len(Oracle!RebuildState(base, h).timeline) = Len(h)
  <2>1. SameButTimeline(base, base)
    BY DEF SameButTimeline
  <2>. QED  BY <1>2, <2>1, RebuildApart
<1>4. Oracle!Canonical(k) = Oracle!InOrder(LiveOf(k))
  BY DEF Oracle!Canonical, LiveOf
<1>5. ASSUME k \notin o_late
      PROVE  LET fold == Oracle!RebuildState(Oracle!None, Oracle!Canonical(k)) IN
             /\ [o_states[k] EXCEPT !.timeline = <<>>] = [fold EXCEPT !.timeline = <<>>]
             /\ o_states[k].timeline = Oracle!Newest(fold.timeline, Len(o_states[k].timeline))
  <2>1. PICK c \in Histories : Tells(c, h, base, o_through[k], LiveOf(k))
    BY <1>1, <1>5 DEF OracleInv, KeyTold
  <2>2. PICK mark, logs : mark = o_through[k] /\ logs = LiveOf(k)
    OBVIOUS
  <2>3. Tells(c, h, base, mark, logs)
    BY <2>1, <2>2
  <2>. QED  BY <1>2, <1>4, <2>2, <2>3, TellsFold
<1>. QED  BY <1>1, <1>2, <1>3, <1>5

-----------------------------------------------------------------------------
(* MarketFetcher: the batch. *)

FetchTypeOK ==
    /\ b_batch \in [size : Nat, workers : Nat]
    /\ b_batch.size > 0 => b_batch.workers > 0
    /\ b_next \in 1..(b_batch.size + 1)
    /\ b_workers \in [1..b_batch.workers ->
                        [at : {"unborn", "free", "busy", "gone"}, index : Nat]]
    /\ b_main \in {"starting", "joining", "failing", "returned", "threw"}
    /\ b_results \in [1..b_batch.size -> Nat]

(* The counter tells which requests were taken: each once, the others not yet. *)
TakenInOrder ==
    b_runs = [i \in 1..b_batch.size |-> IF i < b_next THEN 1 ELSE 0]

(* A worker only ends when nothing is left or the batch is cancelled, and a cancelled
   batch throws. *)
WorkersEnd ==
    /\ \A w \in 1..b_batch.workers :
          /\ b_workers[w].at = "busy" => b_workers[w].index \in 1..b_batch.size
          /\ b_workers[w].at = "gone" => b_cancelled \/ b_next > b_batch.size
          /\ b_main \in {"joining", "returned"} => b_workers[w].at # "unborn"
          /\ b_main \in {"returned", "threw"} => b_workers[w].at \in {"unborn", "gone"}
    /\ b_cancelled => b_main \in {"failing", "threw"} \/ b_failure # 0
    /\ b_main = "returned" => b_failure = 0

(* A request's result is a market of its own, or nothing. *)
OwnResults == \A i \in 1..b_batch.size : b_results[i] \in {0, i}

FetchInv == FetchTypeOK /\ TakenInOrder /\ WorkersEnd /\ OwnResults

(* The part of FetchesComplete that is about the batch; a result stays in the place of
   its request. *)
BatchComplete ==
    /\ b_main = "returned" => \A i \in Fetch!Requests : b_runs[i] = 1
    /\ \A i \in Fetch!Requests : b_runs[i] <= 1 /\ b_results[i] \in {Fetch!None, i}
    /\ b_main \in {"returned", "threw"} =>
          \A w \in Fetch!Workers : b_workers[w].at # "busy" /\ b_workers[w].at # "free"
    /\ b_main = "returned" => b_failure = Fetch!None

(* A batch not yet begun. *)
LEMMA FetchInit == ASSUME Fetch!InitState PROVE FetchInv
<1>1. PICK size \in Sizes :
         /\ b_batch = [size |-> size, workers |-> Fetch!Lesser(Clients, size)]
         /\ b_workers = [w \in 1..Fetch!Lesser(Clients, size) |-> [at |-> "unborn", index |-> 0]]
         /\ b_results = [i \in 1..size |-> 0] /\ b_runs = [i \in 1..size |-> 0]
  BY DEF Fetch!InitState, Fetch!None
<1>2. PICK n : n = Fetch!Lesser(Clients, size)
  OBVIOUS
<1>3. size \in Nat /\ n \in Nat /\ (size > 0 => n > 0)
  BY <1>2, FetchAssumption DEF Fetch!Lesser
<1>4. b_next = 1 /\ b_cancelled = FALSE /\ b_failure = 0 /\ b_main = "starting"
  BY DEF Fetch!InitState, Fetch!None
<1>5. b_batch.size = size /\ b_batch.workers = n
  BY <1>1, <1>2
<1>6. FetchTypeOK
  BY <1>1, <1>2, <1>3, <1>4, <1>5 DEF FetchTypeOK
<1>7. TakenInOrder
  <2>1. \A i \in 1..size : ~(i < 1)
    BY <1>3
  <2>. QED  BY <1>1, <1>4, <1>5, <2>1 DEF TakenInOrder
<1>8. WorkersEnd /\ OwnResults
  BY <1>1, <1>2, <1>3, <1>4, <1>5 DEF WorkersEnd, OwnResults
<1>. QED  BY <1>6, <1>7, <1>8 DEF FetchInv

(* The caller starts its workers one by one, and cancels the batch when one cannot be. *)
LEMMA FetchStart == ASSUME FetchInv, Fetch!Start PROVE FetchInv'
<1>0. /\ b_main = "starting" /\ b_batch' = b_batch /\ b_next' = b_next
      /\ b_results' = b_results /\ b_runs' = b_runs
  BY DEF Fetch!Start
<1>1. CASE /\ Fetch!Unborn = {} /\ b_main' = "joining" /\ b_workers' = b_workers
           /\ b_cancelled' = b_cancelled /\ b_failure' = b_failure
  BY <1>0, <1>1 DEF FetchInv, FetchTypeOK, TakenInOrder, WorkersEnd, OwnResults, Fetch!Unborn,
                    Fetch!Workers
<1>2. CASE /\ Fetch!Unborn # {}
           /\ b_workers' = [b_workers EXCEPT ![Fetch!Min(Fetch!Unborn)].at = "free"]
           /\ b_main' = b_main /\ b_cancelled' = b_cancelled /\ b_failure' = b_failure
  <2>1. PICK v : v = Fetch!Min(Fetch!Unborn)
    OBVIOUS
  <2>2. b_workers' = [b_workers EXCEPT ![v].at = "free"]
    BY <1>2, <2>1
  <2>3. /\ b_workers' \in [1..b_batch.workers ->
                              [at : {"unborn", "free", "busy", "gone"}, index : Nat]]
        /\ \A w \in 1..b_batch.workers :
              \/ b_workers'[w] = b_workers[w]
              \/ b_workers'[w].at = "free" /\ b_workers'[w].index = b_workers[w].index
    BY <2>2 DEF FetchInv, FetchTypeOK
  <2>. QED  BY <1>0, <1>2, <2>3 DEF FetchInv, FetchTypeOK, TakenInOrder, WorkersEnd, OwnResults
<1>3. CASE /\ b_main' = "failing" /\ b_cancelled' = TRUE /\ b_workers' = b_workers
           /\ b_failure' = b_failure
  BY <1>0, <1>3 DEF FetchInv, FetchTypeOK, TakenInOrder, WorkersEnd, OwnResults
<1>. QED  BY <1>1, <1>2, <1>3 DEF Fetch!Start

(* A worker takes the next request from the counter, or ends. *)
LEMMA FetchTake ==
  ASSUME FetchInv, NEW w \in 1..b_batch.workers, Fetch!Take(w) PROVE FetchInv'
<1>0. /\ b_workers[w].at = "free" /\ b_batch' = b_batch /\ b_main' = b_main
      /\ b_results' = b_results /\ b_cancelled' = b_cancelled /\ b_failure' = b_failure
  BY DEF Fetch!Take
<1>1. PICK n \in Nat : n = b_batch.size
  BY DEF FetchInv, FetchTypeOK
<1>2. b_main \notin {"returned", "threw"}
  BY <1>0 DEF FetchInv, WorkersEnd
<1>3. CASE /\ b_cancelled \/ b_next > b_batch.size
           /\ b_workers' = [b_workers EXCEPT ![w].at = "gone"]
           /\ b_next' = b_next /\ b_runs' = b_runs
  <2>1. /\ b_workers' \in [1..b_batch.workers ->
                              [at : {"unborn", "free", "busy", "gone"}, index : Nat]]
        /\ b_workers'[w].at = "gone"
        /\ \A v \in 1..b_batch.workers : v # w => b_workers'[v] = b_workers[v]
    BY <1>3 DEF FetchInv, FetchTypeOK
  <2>. QED  BY <1>0, <1>2, <1>3, <2>1 DEF FetchInv, FetchTypeOK, TakenInOrder, WorkersEnd,
               OwnResults
<1>4. CASE /\ ~(b_cancelled \/ b_next > b_batch.size) /\ b_next' = b_next + 1
           /\ b_workers' = [b_workers EXCEPT ![w] = [at |-> "busy", index |-> b_next]]
           /\ b_runs' = [b_runs EXCEPT ![b_next] = @ + 1]
  <2>1. PICK k \in 1..n : k = b_next
    BY <1>1, <1>4 DEF FetchInv, FetchTypeOK
  <2>2. k + 1 \in 1..(n + 1) /\ b_next' = k + 1
    BY <1>4, <2>1
  <2>3. /\ b_workers' \in [1..b_batch.workers ->
                              [at : {"unborn", "free", "busy", "gone"}, index : Nat]]
        /\ b_workers'[w].at = "busy" /\ b_workers'[w].index = k
        /\ \A v \in 1..b_batch.workers : v # w => b_workers'[v] = b_workers[v]
    <3>1. [at |-> "busy", index |-> k] \in [at : {"unborn", "free", "busy", "gone"}, index : Nat]
      OBVIOUS
    <3>. QED  BY <1>4, <2>1, <3>1 DEF FetchInv, FetchTypeOK
  <2>4. FetchTypeOK'
    BY <1>0, <1>1, <2>2, <2>3 DEF FetchInv, FetchTypeOK
  <2>5. TakenInOrder'
    <3>1. b_runs = [i \in 1..n |-> IF i < k THEN 1 ELSE 0]
      BY <1>1, <2>1 DEF FetchInv, TakenInOrder
    <3>2. b_runs' = [i \in 1..n |-> IF i < k + 1 THEN 1 ELSE 0]
      BY <1>4, <2>1, <3>1, SMTT(30)
    <3>. QED  BY <1>0, <1>1, <2>2, <3>2 DEF TakenInOrder
  <2>6. \A v \in 1..b_batch.workers : v # w => b_workers[v].at # "gone"
    BY <1>4 DEF FetchInv, WorkersEnd
  <2>7. WorkersEnd'
    BY <1>0, <1>1, <1>2, <2>1, <2>3, <2>6 DEF FetchInv, WorkersEnd
  <2>. QED  BY <1>0, <2>4, <2>5, <2>7 DEF FetchInv, OwnResults
<1>. QED  BY <1>3, <1>4 DEF Fetch!Take

(* A request is answered, or throws and cancels the batch. *)
LEMMA FetchPerform ==
  ASSUME FetchInv, NEW w \in 1..b_batch.workers, Fetch!Perform(w) PROVE FetchInv'
<1>0. /\ b_workers[w].at = "busy" /\ b_workers' = [b_workers EXCEPT ![w].at = "free"]
      /\ b_batch' = b_batch /\ b_next' = b_next /\ b_main' = b_main /\ b_runs' = b_runs
  BY DEF Fetch!Perform
<1>1. PICK n \in Nat : n = b_batch.size
  BY DEF FetchInv, FetchTypeOK
<1>2. PICK i \in 1..n : i = b_workers[w].index
  BY <1>0, <1>1 DEF FetchInv, WorkersEnd
<1>3. b_main \notin {"returned", "threw"}
  BY <1>0 DEF FetchInv, WorkersEnd
<1>4. /\ b_workers' \in [1..b_batch.workers ->
                            [at : {"unborn", "free", "busy", "gone"}, index : Nat]]
      /\ b_workers'[w].at = "free"
      /\ \A v \in 1..b_batch.workers : v # w => b_workers'[v] = b_workers[v]
  BY <1>0 DEF FetchInv, FetchTypeOK
<1>5. CASE /\ \E answer \in {"open", "closed", "failed"} :
                 b_results' = [b_results EXCEPT ![i] = Fetch!ParseGammaEvent(answer, i)]
           /\ b_cancelled' = b_cancelled /\ b_failure' = b_failure
  <2>1. PICK r \in {0, i} : b_results' = [b_results EXCEPT ![i] = r]
    BY <1>5 DEF Fetch!ParseGammaEvent, Fetch!None
  <2>2. b_results' \in [1..n -> Nat] /\ \A j \in 1..n : b_results'[j] \in {0, j}
    BY <1>1, <1>2, <2>1 DEF FetchInv, FetchTypeOK, OwnResults
  <2>3. FetchTypeOK' /\ OwnResults'
    BY <1>0, <1>1, <1>4, <2>2 DEF FetchInv, FetchTypeOK, OwnResults
  <2>4. TakenInOrder' /\ WorkersEnd'
    BY <1>0, <1>3, <1>4, <1>5 DEF FetchInv, TakenInOrder, WorkersEnd
  <2>. QED  BY <2>3, <2>4 DEF FetchInv
<1>6. CASE /\ b_failure' = (IF b_failure = Fetch!None THEN i ELSE b_failure)
           /\ b_cancelled' = TRUE /\ b_results' = b_results
  <2>1. b_failure' # 0
    BY <1>1, <1>2, <1>6 DEF Fetch!None
  <2>2. FetchTypeOK' /\ OwnResults' /\ TakenInOrder'
    BY <1>0, <1>4, <1>6 DEF FetchInv, FetchTypeOK, OwnResults, TakenInOrder
  <2>3. WorkersEnd'
    BY <1>0, <1>3, <1>4, <1>6, <2>1 DEF FetchInv, WorkersEnd
  <2>. QED  BY <2>2, <2>3 DEF FetchInv
<1>. QED  BY <1>2, <1>5, <1>6 DEF Fetch!Perform

(* The caller returns or throws once every worker has ended. *)
LEMMA FetchJoin == ASSUME FetchInv, Fetch!Join PROVE FetchInv'
<1>0. /\ b_main \in {"joining", "failing"} /\ UNCHANGED <<b_batch, b_next, b_workers, b_cancelled>>
      /\ UNCHANGED <<b_failure, b_results, b_runs>>
      /\ \A w \in 1..b_batch.workers : b_workers[w].at \in {"unborn", "gone"}
      /\ b_main' = IF b_main = "failing" \/ b_failure # 0 THEN "threw" ELSE "returned"
  BY DEF Fetch!Join, Fetch!Workers, Fetch!None
<1>1. CASE b_main' = "threw"
  BY <1>0, <1>1 DEF FetchInv, FetchTypeOK, TakenInOrder, WorkersEnd, OwnResults
<1>2. CASE b_main' = "returned"
  BY <1>0, <1>2 DEF FetchInv, FetchTypeOK, TakenInOrder, WorkersEnd, OwnResults
<1>. QED  BY <1>0, <1>1, <1>2

(* Every step of a batch. *)
LEMMA FetchNext == ASSUME FetchInv, [Fetch!Next]_(Fetch!vars) PROVE FetchInv'
<1>1. CASE \/ UNCHANGED Fetch!vars
           \/ Fetch!NextPage
  BY <1>1 DEF Fetch!NextPage, Fetch!vars, FetchInv, FetchTypeOK, TakenInOrder, WorkersEnd,
              OwnResults
<1>. QED  BY <1>1, FetchStart, FetchTake, FetchPerform, FetchJoin DEF Fetch!Next, Fetch!Workers

(* What a batch has done when it ends. *)
LEMMA FetchSafe == ASSUME FetchInv PROVE BatchComplete
<1>1. PICK n \in Nat : n = b_batch.size
  BY DEF FetchInv, FetchTypeOK
<1>2. \A i \in 1..n : b_runs[i] = (IF i < b_next THEN 1 ELSE 0)
  BY <1>1 DEF FetchInv, TakenInOrder
<1>3. ASSUME b_main = "returned", NEW i \in 1..n PROVE b_runs[i] = 1
  <2>1. b_batch.workers \in Nat /\ 1 \in 1..b_batch.workers
    BY <1>1, <1>3 DEF FetchInv, FetchTypeOK
  <2>2. b_workers[1].at = "gone" /\ ~b_cancelled
    BY <1>3, <2>1 DEF FetchInv, WorkersEnd
  <2>3. b_next > n /\ b_next \in Nat
    BY <1>1, <2>1, <2>2 DEF FetchInv, FetchTypeOK, WorkersEnd
  <2>. QED  BY <1>2, <1>3, <2>3
<1>4. \A i \in 1..n : b_runs[i] <= 1 /\ b_results[i] \in {0, i}
  BY <1>1, <1>2 DEF FetchInv, OwnResults
<1>. QED  BY <1>1, <1>3, <1>4 DEF FetchInv, WorkersEnd, BatchComplete, Fetch!Requests,
             Fetch!Workers, Fetch!None

-----------------------------------------------------------------------------
(* MarketFetcher: what a batch returns, and the walk over the pages. *)

FindNext(r, n, s) == IF r[n] = 0 THEN s ELSE Append(s, r[n])

Finding(f, m, r) ==
    /\ f \in [0..m -> Seq(Nat)] /\ f[0] = <<>>
    /\ \A n \in 1..m : f[n] = FindNext(r, n, f[n - 1])

(* The list of the markets found, request by request, exists. *)
LEMMA FindDefined ==
  ASSUME NEW m \in Nat, NEW r, \A n \in 1..m : r[n] \in Nat
  PROVE  \E f : Finding(f, m, r)
<1> DEFINE step == [n \in 1..m |-> [s \in Seq(Nat) |-> FindNext(r, n, s)]]
<1>1. step \in [1..m -> [Seq(Nat) -> Seq(Nat)]]
  <2>1. \A n \in 1..m, s \in Seq(Nat) : FindNext(r, n, s) \in Seq(Nat)
    BY DEF FindNext
  <2>. QED  BY <2>1
<1>2. PICK S : S = Seq(Nat)
  OBVIOUS
<1>3. PICK a : a = <<>>
  OBVIOUS
<1>4. a \in S /\ m \in Nat
  BY <1>2, <1>3
<1>5. PICK st \in [1..m -> [S -> S]] : st = step
  BY <1>1, <1>2
<1>6. PICK f \in [0..m -> S] : f[0] = a /\ \A n \in 1..m : f[n] = st[n][f[n - 1]]
  BY <1>4, RecursionDefined, SMTT(30)
<1>7. \A n \in 1..m : f[n - 1] \in Seq(Nat) /\ f[n] = FindNext(r, n, f[n - 1])
  <2>1. \A n \in 1..m : f[n - 1] \in Seq(Nat)
    BY <1>2, <1>6, SMTT(30)
  <2>. QED  BY <1>5, <1>6, <2>1
<1>. QED  BY <1>2, <1>3, <1>6, <1>7 DEF Finding

(* It is the only one. *)
LEMMA FindUnique ==
  ASSUME NEW m \in Nat, NEW r, NEW f, NEW g, Finding(f, m, r), g[0] = <<>>,
         \A n \in 1..m : g[n] = FindNext(r, n, g[n - 1])
  PROVE  g[m] = f[m]
<1>1. Alike(g, f, m)
  BY DEF Finding, Alike
<1>2. Agree(g, f, m)
  BY <1>1, AlikeAgree
<1>. QED  BY <1>2 DEF Agree

(* Markets is its last value. *)
LEMMA MarketsDefined ==
  ASSUME b_batch.size \in Nat, b_results \in [1..b_batch.size -> Nat]
  PROVE  \E f : Finding(f, b_batch.size, b_results) /\ Fetch!Markets = f[b_batch.size]
<1> DEFINE R(f) == f = [n \in 0..b_batch.size |->
                          IF n = 0 THEN <<>> ELSE FindNext(b_results, n, f[n - 1])]
<1>0. PICK r : r = b_results
  OBVIOUS
<1>1. PICK m \in Nat : m = b_batch.size /\ r = b_results /\ \A n \in 1..m : r[n] \in Nat
  BY <1>0
<1>2. PICK f : Finding(f, m, r)
  BY <1>1, FindDefined
<1>3. f = [n \in 0..m |-> IF n = 0 THEN <<>> ELSE FindNext(r, n, f[n - 1])]
  BY <1>2 DEF Finding
<1>4. R(f)
  BY <1>1, <1>3
<1>5. PICK g : R(g) /\ g = CHOOSE x : R(x)
  BY <1>4
<1>6. Fetch!Markets = g[m]
  <2>1. Fetch!Markets = (CHOOSE x : R(x))[b_batch.size]
    BY DEF Fetch!Markets, Fetch!None, FindNext
  <2> HIDE DEF R
  <2>. QED  BY <1>1, <1>5, <2>1
<1>7. g = [n \in 0..m |-> IF n = 0 THEN <<>> ELSE FindNext(r, n, g[n - 1])]
  BY <1>1, <1>5
<1>8. g[0] = <<>> /\ \A n \in 1..m : g[n] = FindNext(r, n, g[n - 1])
  BY <1>7
<1>9. g[m] = f[m]
  BY <1>2, <1>8, FindUnique
<1>. QED  BY <1>1, <1>2, <1>6, <1>9

Rising(s) == \A i, j \in 1..Len(s) : i < j => s[i] < s[j]

(* The markets of a batch come in the order of its requests. *)
LEMMA MarketsRise ==
  ASSUME b_batch.size \in Nat, b_results \in [1..b_batch.size -> Nat],
         \A i \in 1..b_batch.size : b_results[i] \in {0, i}
  PROVE  Fetch!Markets \in Seq(Nat) /\ Rising(Fetch!Markets)
<1>r. PICK r : r = b_results
  OBVIOUS
<1>0. PICK m \in Nat : m = b_batch.size /\ r = b_results /\ \A i \in 1..m : r[i] \in {0, i}
  BY <1>r
<1>1. PICK f : Finding(f, m, r) /\ Fetch!Markets = f[m]
  BY <1>0, MarketsDefined
<1> DEFINE Good(n) == Rising(f[n]) /\ \A i \in 1..Len(f[n]) : f[n][i] <= n
           T == {n \in 0..m : Good(n)}
<1>2. f[0] = <<>> /\ \A n \in 0..m : f[n] \in Seq(Nat)
  BY <1>1 DEF Finding
<1>3. 0 \in T /\ T \in SUBSET (0..m)
  BY <1>2 DEF Rising
<1>4. ASSUME NEW n \in T, n < m PROVE n + 1 \in T
  <2>1. n + 1 \in 1..m /\ n + 1 \in 0..m /\ (n + 1) - 1 = n /\ n \in 0..m /\ n \in Nat
    BY <1>4
  <2>2. PICK s \in Seq(Nat) : s = f[n]
    BY <1>2, <2>1
  <2>3. PICK k \in Nat : k = Len(s)
    OBVIOUS
  <2>4. /\ \A i, j \in 1..k : i < j => s[i] < s[j]
        /\ \A i \in 1..k : s[i] \in Nat /\ s[i] <= n
    BY <2>2, <2>3 DEF Rising
  <2>5. CASE r[n + 1] = 0
    <3>1. f[n + 1] = s
      BY <1>1, <2>1, <2>2, <2>5 DEF Finding, FindNext
    <3>2. \A i \in 1..k : s[i] <= n + 1
      BY <2>1, <2>4
    <3>. QED  BY <2>1, <2>3, <2>4, <3>1, <3>2 DEF Rising
  <2>6. CASE r[n + 1] = n + 1
    <3>1. PICK z : z = Append(s, n + 1)
      OBVIOUS
    <3>2. f[n + 1] = z
      <4>1. f[n + 1] = FindNext(r, n + 1, f[n])
        BY <1>1, <2>1 DEF Finding
      <4>2. r[n + 1] # 0
        BY <2>1, <2>6
      <4>. QED  BY <2>2, <2>6, <3>1, <4>1, <4>2 DEF FindNext
    <3>3. Len(z) = k + 1 /\ z[k + 1] = n + 1 /\ \A i \in 1..k : z[i] = s[i]
      BY <2>1, <2>3, <3>1
    <3>4. ASSUME NEW i \in 1..(k + 1) PROVE z[i] <= n + 1
      <4>1. CASE i \in 1..k
        <5>1. z[i] = s[i] /\ s[i] \in Nat /\ s[i] <= n
          BY <2>4, <3>3, <4>1
        <5>. QED  BY <2>1, <5>1
      <4>2. CASE i = k + 1
        BY <2>1, <3>3, <4>2
      <4>. QED  BY <4>1, <4>2
    <3>5. ASSUME NEW i \in 1..(k + 1), NEW j \in 1..(k + 1), i < j PROVE z[i] < z[j]
      <4>1. i \in 1..k
        BY <3>5
      <4>2. CASE j \in 1..k
        BY <2>4, <3>3, <3>5, <4>1, <4>2
      <4>3. CASE j = k + 1
        BY <2>1, <2>4, <3>3, <4>1, <4>3
      <4>. QED  BY <4>2, <4>3
    <3>. QED  BY <2>1, <3>2, <3>3, <3>4, <3>5 DEF Rising
  <2>. QED  BY <1>0, <2>1, <2>5, <2>6
<1> HIDE DEF T
<1>5. T = 0..m
  BY <1>3, <1>4, InductionUpTo
<1>6. m \in T
  BY <1>5
<1>. QED  BY <1>1, <1>2, <1>6 DEF T

(* The first of a sequence, as many as there may be. *)
First(s, limit) == SubSeq(s, 1, Fetch!Lesser(limit, Len(s)))

(* The first items of a list, up to the limit. *)
LEMMA FirstIs ==
  ASSUME NEW s \in Seq(Nat), NEW limit \in Nat
  PROVE  /\ First(s, limit) \in Seq(Nat) /\ Len(First(s, limit)) <= limit
         /\ Len(First(s, limit)) = Fetch!Lesser(limit, Len(s))
         /\ \A i \in 1..Fetch!Lesser(limit, Len(s)) : First(s, limit)[i] = s[i]
         /\ Len(s) <= limit => First(s, limit) = s
<1>1. PICK m \in Nat : m = Len(s)
  OBVIOUS
<1>2. PICK k \in 0..m : k = Fetch!Lesser(limit, m)
  BY DEF Fetch!Lesser
<1>3. k <= limit /\ (m <= limit => k = m)
  BY <1>2 DEF Fetch!Lesser
<1>4. PICK x : x = SubSeq(s, 1, k)
  OBVIOUS
<1>5. \A i \in 1..k : s[i] \in Nat
  BY <1>1
<1>6. x \in Seq(Nat) /\ Len(x) = k /\ \A i \in 1..k : x[i] = s[i]
  BY <1>4, <1>5, SubSeqProperties
<1>7. ASSUME m <= limit PROVE x = s
  <2>1. Len(x) = Len(s) /\ \A i \in 1..Len(x) : x[i] = s[i]
    BY <1>1, <1>3, <1>6, <1>7
  <2>. QED  BY <1>6, <2>1, SeqEqual
<1>8. x = First(s, limit)
  BY <1>1, <1>2, <1>4 DEF First
<1>. QED  BY <1>1, <1>2, <1>3, <1>6, <1>7, <1>8

(* What comes after the limit makes no difference. *)
LEMMA FirstMore ==
  ASSUME NEW s \in Seq(Nat), NEW t \in Seq(Nat), NEW limit \in Nat, limit <= Len(s)
  PROVE  First(s \o t, limit) = First(s, limit) /\ limit <= Len(s \o t)
<1>1. PICK m \in Nat, n \in Nat : m = Len(s) /\ n = Len(t)
  OBVIOUS
<1>2. PICK z \in Seq(Nat) : z = s \o t
  BY ConcatProperties
<1>3. Len(z) = m + n /\ \A i \in 1..m : z[i] = s[i]
  <2>1. /\ Len(s \o t) = Len(s) + Len(t)
        /\ \A i \in 1..(Len(s) + Len(t)) : (s \o t)[i] = IF i <= Len(s) THEN s[i] ELSE t[i - Len(s)]
    BY ConcatProperties
  <2>2. \A i \in 1..m : i \in 1..(m + n) /\ i <= m
    OBVIOUS
  <2>. QED  BY <1>1, <1>2, <2>1, <2>2
<1>4. Fetch!Lesser(limit, m) = limit /\ Fetch!Lesser(limit, m + n) = limit /\ limit <= m + n
  BY <1>1 DEF Fetch!Lesser
<1>5. PICK x \in Seq(Nat), y \in Seq(Nat) : x = First(z, limit) /\ y = First(s, limit)
  BY FirstIs
<1>6. Len(x) = limit /\ \A i \in 1..limit : x[i] = z[i]
  <2>1. /\ Len(First(z, limit)) = Fetch!Lesser(limit, Len(z))
        /\ \A i \in 1..Fetch!Lesser(limit, Len(z)) : First(z, limit)[i] = z[i]
    BY FirstIs
  <2>. QED  BY <1>3, <1>4, <1>5, <2>1
<1>7. Len(y) = limit /\ \A i \in 1..limit : y[i] = s[i]
  <2>1. /\ Len(First(s, limit)) = Fetch!Lesser(limit, Len(s))
        /\ \A i \in 1..Fetch!Lesser(limit, Len(s)) : First(s, limit)[i] = s[i]
    BY FirstIs
  <2>. QED  BY <1>1, <1>4, <1>5, <2>1
<1>8. \A i \in 1..limit : i \in 1..m
  BY <1>1
<1>9. Len(x) = Len(y) /\ \A i \in 1..Len(x) : x[i] = y[i]
  BY <1>3, <1>6, <1>7, <1>8
<1>10. x = y
  BY <1>9, SeqEqual
<1>. QED  BY <1>1, <1>2, <1>3, <1>4, <1>5, <1>10

Items == Seq(Nat)

KeepNext(found, items, limit, only, n, s) ==
    IF (only /\ ~Fetch!Valid(items[n])) \/ Len(s) = limit THEN s ELSE Append(s, items[n])
Keeping(f, m, found, items, limit, only) ==
    /\ f \in [0..m -> Items] /\ f[0] = found
    /\ \A n \in 1..m : f[n] = KeepNext(found, items, limit, only, n, f[n - 1])

(* The items kept of a page, one by one, exist. *)
LEMMA KeepingExists ==
  ASSUME NEW found \in Items, NEW items \in Items, NEW limit, NEW only
  PROVE  \E f : Keeping(f, Len(items), found, items, limit, only)
<1>0. PICK m \in Nat : m = Len(items)
  BY DEF Items
<1> DEFINE step == [n \in 1..m |-> [s \in Items |-> KeepNext(found, items, limit, only, n, s)]]
<1>1. step \in [1..m -> [Items -> Items]]
  <2>1. \A n \in 1..m, s \in Items : KeepNext(found, items, limit, only, n, s) \in Items
    BY <1>0 DEF KeepNext, Items
  <2>. QED  BY <2>1
<1>2. PICK S : S = Items
  OBVIOUS
<1>3. PICK a : a = found
  OBVIOUS
<1>4. a \in S /\ m \in Nat
  BY <1>2, <1>3 DEF Items
<1>5. PICK st \in [1..m -> [S -> S]] : st = step
  BY <1>1, <1>2
<1>6. PICK f \in [0..m -> S] : f[0] = a /\ \A n \in 1..m : f[n] = st[n][f[n - 1]]
  BY <1>4, RecursionDefined, SMTT(30)
<1>7. \A n \in 1..m : f[n - 1] \in Items /\ f[n] = KeepNext(found, items, limit, only, n, f[n - 1])
  <2>1. \A n \in 1..m : f[n - 1] \in Items
    BY <1>2, <1>6, SMTT(30)
  <2>. QED  BY <1>5, <1>6, <2>1
<1>. QED  BY <1>0, <1>2, <1>3, <1>6, <1>7 DEF Keeping

(* Keep is the last value of that recursion. *)
LEMMA KeepingIs ==
  ASSUME NEW found \in Items, NEW items \in Items, NEW limit, NEW only
  PROVE  \E f : Keeping(f, Len(items), found, items, limit, only)
    /\ Fetch!Keep(found, items, limit, only) = f[Len(items)]
<1> DEFINE R(f) == f = [n \in 0..Len(items) |->
              IF n = 0 THEN found ELSE KeepNext(found, items, limit, only, n, f[n - 1])]
<1>1. PICK m \in Nat : m = Len(items)
  BY DEF Items
<1>2. PICK f : Keeping(f, m, found, items, limit, only)
  BY <1>1, KeepingExists
<1>3. R(f)
  <2>1. f = [n \in 0..m |-> IF n = 0 THEN found ELSE KeepNext(found, items, limit, only, n,
                                                              f[n - 1])]
    BY <1>1, <1>2 DEF Keeping
  <2>. QED  BY <1>1, <2>1
<1>4. PICK g : R(g) /\ g = CHOOSE x : R(x)
  BY <1>3
<1>5. Fetch!Keep(found, items, limit, only) = g[Len(items)]
  <2>1. Fetch!Keep(found, items, limit, only) = (CHOOSE x : R(x))[Len(items)]
    BY DEF Fetch!Keep, KeepNext
  <2> HIDE DEF R
  <2>. QED  BY <1>4, <2>1
<1>6. g = [n \in 0..m |-> IF n = 0 THEN found ELSE KeepNext(found, items, limit, only, n, g[n - 1])]
  BY <1>1, <1>4
<1>7. g[0] = found /\ \A n \in 1..m : g[n] = KeepNext(found, items, limit, only, n, g[n - 1])
  BY <1>6
<1>8. \A n \in 0..m : g[n] = f[n]
  <2>1. g[0] = f[0] /\ \A n \in 1..m : g[n - 1] = f[n - 1] => g[n] = f[n]
    BY <1>2, <1>7 DEF Keeping
  <2>. QED  BY <2>1, SameRecursion
<1>9. g[Len(items)] = f[Len(items)]
  BY <1>1, <1>8
<1>. QED  BY <1>1, <1>2, <1>5, <1>9

(* The items of a page that qualify. *)
ChooseNext(items, only, n, s) ==
    IF only /\ ~Fetch!Valid(items[n]) THEN s ELSE Append(s, items[n])
Choosing(f, m, items, only) ==
    /\ f \in [0..m -> Items] /\ f[0] = <<>>
    /\ \A n \in 1..m : f[n] = ChooseNext(items, only, n, f[n - 1])

(* The items of a page that qualify, one by one, exist. *)
LEMMA ChoosingExists ==
  ASSUME NEW items \in Items, NEW only
  PROVE  \E f : Choosing(f, Len(items), items, only)
<1>0. PICK m \in Nat : m = Len(items)
  BY DEF Items
<1> DEFINE step == [n \in 1..m |-> [s \in Items |-> ChooseNext(items, only, n, s)]]
<1>1. step \in [1..m -> [Items -> Items]]
  <2>1. \A n \in 1..m, s \in Items : ChooseNext(items, only, n, s) \in Items
    BY <1>0 DEF ChooseNext, Items
  <2>. QED  BY <2>1
<1>2. PICK S : S = Items
  OBVIOUS
<1>3. PICK a : a = <<>>
  OBVIOUS
<1>4. a \in S /\ m \in Nat
  BY <1>2, <1>3 DEF Items
<1>5. PICK st \in [1..m -> [S -> S]] : st = step
  BY <1>1, <1>2
<1>6. PICK f \in [0..m -> S] : f[0] = a /\ \A n \in 1..m : f[n] = st[n][f[n - 1]]
  BY <1>4, RecursionDefined, SMTT(30)
<1>7. \A n \in 1..m : f[n - 1] \in Items /\ f[n] = ChooseNext(items, only, n, f[n - 1])
  <2>1. \A n \in 1..m : f[n - 1] \in Items
    BY <1>2, <1>6, SMTT(30)
  <2>. QED  BY <1>5, <1>6, <2>1
<1>. QED  BY <1>0, <1>2, <1>3, <1>6, <1>7 DEF Choosing

(* Qualifying is the last value of that recursion. *)
LEMMA ChoosingIs ==
  ASSUME NEW items \in Items, NEW only
  PROVE  \E f : Choosing(f, Len(items), items, only)
    /\ Fetch!Qualifying(items, only) = f[Len(items)]
<1> DEFINE R(f) == f = [n \in 0..Len(items) |->
              IF n = 0 THEN <<>> ELSE ChooseNext(items, only, n, f[n - 1])]
<1>1. PICK m \in Nat : m = Len(items)
  BY DEF Items
<1>2. PICK f : Choosing(f, m, items, only)
  BY <1>1, ChoosingExists
<1>3. R(f)
  <2>1. f = [n \in 0..m |-> IF n = 0 THEN <<>> ELSE ChooseNext(items, only, n, f[n - 1])]
    BY <1>1, <1>2 DEF Choosing
  <2>. QED  BY <1>1, <2>1
<1>4. PICK g : R(g) /\ g = CHOOSE x : R(x)
  BY <1>3
<1>5. Fetch!Qualifying(items, only) = g[Len(items)]
  <2>1. Fetch!Qualifying(items, only) = (CHOOSE x : R(x))[Len(items)]
    BY DEF Fetch!Qualifying, ChooseNext
  <2> HIDE DEF R
  <2>. QED  BY <1>4, <2>1
<1>6. g = [n \in 0..m |-> IF n = 0 THEN <<>> ELSE ChooseNext(items, only, n, g[n - 1])]
  BY <1>1, <1>4
<1>7. g[0] = <<>> /\ \A n \in 1..m : g[n] = ChooseNext(items, only, n, g[n - 1])
  BY <1>6
<1>8. \A n \in 0..m : g[n] = f[n]
  <2>1. g[0] = f[0] /\ \A n \in 1..m : g[n - 1] = f[n - 1] => g[n] = f[n]
    BY <1>2, <1>7 DEF Choosing
  <2>. QED  BY <2>1, SameRecursion
<1>9. g[Len(items)] = f[Len(items)]
  BY <1>1, <1>8
<1>. QED  BY <1>1, <1>2, <1>5, <1>9

(* What qualifies is a list of items. *)
LEMMA QualifyingTyped ==
  ASSUME NEW items \in Items, NEW only
  PROVE  Fetch!Qualifying(items, only) \in Items
<1>1. PICK m \in Nat : m = Len(items)
  BY DEF Items
<1>2. PICK f : Choosing(f, Len(items), items, only) /\ Fetch!Qualifying(items, only) = f[Len(items)]
  BY ChoosingIs
<1>3. f[m] \in Items
  BY <1>1, <1>2 DEF Choosing
<1>. QED  BY <1>1, <1>2, <1>3

(* The items that qualify of the first pages. *)
PageAnswers == [answer : {"ok", "garbled", "cursorless", "error"}, items : Items]
WalkPages == Seq(PageAnswers)

ListNext(w, n, s) == s \o Fetch!Qualifying(w.pages[n].items, w.only)
Listing(f, m, w) ==
    /\ f \in [0..m -> Items] /\ f[0] = <<>>
    /\ \A n \in 1..m : f[n] = ListNext(w, n, f[n - 1])

(* The items listed, page by page, exist. *)
LEMMA ListingExists ==
  ASSUME NEW w, w.pages \in WalkPages,
         Fetch!Readable(w.pages) \in 0..Len(w.pages)
  PROVE  \E f : Listing(f, Len(w.pages), w)
<1>0. PICK m \in Nat : m = Len(w.pages)
  BY DEF WalkPages
<1> DEFINE step == [n \in 1..m |-> [s \in Items |-> ListNext(w, n, s)]]
<1>1. step \in [1..m -> [Items -> Items]]
  <2>1. \A n \in 1..m, s \in Items : ListNext(w, n, s) \in Items
    <3>1. \A n \in 1..m : w.pages[n].items \in Items
      <4>1. PICK p \in WalkPages : p = w.pages
        OBVIOUS
      <4>2. \A n \in 1..Len(p) : p[n] \in PageAnswers
        BY ElementOfSeq DEF WalkPages
      <4>3. \A n \in 1..Len(p) : p[n].items \in Items
        BY <4>2 DEF PageAnswers
      <4>. QED  BY <1>0, <4>1, <4>3
    <3>2. \A n \in 1..m : Fetch!Qualifying(w.pages[n].items, w.only) \in Items
      BY <3>1, QualifyingTyped
    <3>. QED  BY <3>2 DEF ListNext, Items
  <2>. QED  BY <2>1
<1>2. PICK S : S = Items
  OBVIOUS
<1>3. PICK a : a = <<>>
  OBVIOUS
<1>4. a \in S /\ m \in Nat
  BY <1>2, <1>3 DEF Items
<1>5. PICK st \in [1..m -> [S -> S]] : st = step
  BY <1>1, <1>2
<1>6. PICK f \in [0..m -> S] : f[0] = a /\ \A n \in 1..m : f[n] = st[n][f[n - 1]]
  BY <1>4, RecursionDefined, SMTT(30)
<1>7. \A n \in 1..m : f[n - 1] \in Items /\ f[n] = ListNext(w, n, f[n - 1])
  <2>1. \A n \in 1..m : f[n - 1] \in Items
    BY <1>2, <1>6, SMTT(30)
  <2>. QED  BY <1>5, <1>6, <2>1
<1>. QED  BY <1>0, <1>2, <1>3, <1>6, <1>7 DEF Listing

(* They are the only ones. *)
LEMMA ListingUnique ==
  ASSUME NEW m \in Nat, NEW w, NEW f, NEW g, Listing(f, m, w), g[0] = <<>>,
         \A n \in 1..m : g[n] = ListNext(w, n, g[n - 1])
  PROVE  \A n \in 0..m : g[n] = f[n]
<1>1. Alike(g, f, m)
  BY DEF Listing, Alike
<1>2. Agree(g, f, m)
  BY <1>1, AlikeAgree
<1>. QED  BY <1>2 DEF Agree

(* Listed is their value at the last page that can be read. *)
LEMMA ListingIs ==
  ASSUME NEW w, w.pages \in WalkPages,
         Fetch!Readable(w.pages) \in 0..Len(w.pages)
  PROVE  \E f : Listing(f, Len(w.pages), w) /\ Fetch!Listed(w) = f[Fetch!Readable(w.pages)]
<1> DEFINE R(f) == f = [n \in 0..Len(w.pages) |-> IF n = 0 THEN <<>> ELSE ListNext(w, n, f[n - 1])]
<1>1. PICK m \in Nat : m = Len(w.pages)
  BY DEF WalkPages
<1>2. PICK f : Listing(f, m, w)
  BY <1>1, ListingExists
<1>3. R(f)
  <2>1. f = [n \in 0..m |-> IF n = 0 THEN <<>> ELSE ListNext(w, n, f[n - 1])]
    BY <1>1, <1>2 DEF Listing
  <2>. QED  BY <1>1, <2>1
<1>4. PICK g : R(g) /\ g = CHOOSE x : R(x)
  BY <1>3
<1>5. Fetch!Listed(w) = g[Fetch!Readable(w.pages)]
  <2>1. Fetch!Listed(w) = (CHOOSE x : R(x))[Fetch!Readable(w.pages)]
    BY DEF Fetch!Listed, ListNext
  <2> HIDE DEF R
  <2>. QED  BY <1>4, <2>1
<1>6. g = [n \in 0..m |-> IF n = 0 THEN <<>> ELSE ListNext(w, n, g[n - 1])]
  BY <1>1, <1>4
<1>7. g[0] = <<>> /\ \A n \in 1..m : g[n] = ListNext(w, n, g[n - 1])
  BY <1>6
<1>8. \A n \in 0..m : g[n] = f[n]
  BY <1>2, <1>7, ListingUnique
<1>9. g[Fetch!Readable(w.pages)] = f[Fetch!Readable(w.pages)]
  BY <1>1, <1>8
<1>. QED  BY <1>1, <1>2, <1>5, <1>9

(* Appending to the second of two lists. *)
LEMMA ConcatAppend ==
  ASSUME NEW s \in Items, NEW q \in Items, NEW x \in Nat
  PROVE  s \o Append(q, x) = Append(s \o q, x) /\ s \o q \in Items
<1>1. s \in Seq(Nat) /\ q \in Seq(Nat) /\ <<x>> \in Seq(Nat)
  BY DEF Items
<1>2. PICK z : z = s \o q /\ z \in Seq(Nat)
  BY <1>1, ConcatProperties
<1>3. Append(q, x) = q \o <<x>> /\ Append(z, x) = z \o <<x>>
  BY <1>1, <1>2, AppendIsConcat
<1>4. (s \o q) \o <<x>> = s \o (q \o <<x>>)
  BY <1>1, ConcatAssociative, SMTT(30)
<1>. QED  BY <1>2, <1>3, <1>4 DEF Items

(* One more item changes the first ones only while there is room. *)
LEMMA FirstAppend ==
  ASSUME NEW z \in Items, NEW x \in Nat, NEW limit \in Nat
  PROVE  /\ Len(First(z, limit)) = limit => First(Append(z, x), limit) = First(z, limit)
         /\ Len(First(z, limit)) # limit => First(Append(z, x), limit) = Append(First(z, limit), x)
<1>1. PICK m \in Nat : m = Len(z)
  BY DEF Items
<1>2. z \in Seq(Nat) /\ <<x>> \in Seq(Nat)
  BY DEF Items
<1>3. Len(First(z, limit)) = Fetch!Lesser(limit, m) /\ (m <= limit => First(z, limit) = z)
  BY <1>1, <1>2, FirstIs
<1>4. CASE limit <= m
  <2>1. Len(First(z, limit)) = limit
    BY <1>3, <1>4 DEF Fetch!Lesser
  <2>2. First(z \o <<x>>, limit) = First(z, limit)
    BY <1>1, <1>2, <1>4, FirstMore
  <2>3. Append(z, x) = z \o <<x>>
    BY <1>2, AppendIsConcat
  <2>. QED  BY <2>1, <2>2, <2>3
<1>5. CASE ~(limit <= m)
  <2>1. Len(First(z, limit)) # limit /\ First(z, limit) = z
    BY <1>3, <1>5 DEF Fetch!Lesser
  <2>2. PICK y : y = Append(z, x) /\ y \in Seq(Nat) /\ Len(y) = m + 1
    BY <1>1, <1>2, AppendProperties
  <2>3. Len(y) <= limit
    BY <1>5, <2>2
  <2>4. First(y, limit) = y
    BY <2>2, <2>3, FirstIs
  <2>. QED  BY <2>1, <2>2, <2>4
<1>. QED  BY <1>4, <1>5

(* A page adds to the first markets what qualifies, until there are enough. *)
LEMMA KeepFirst ==
  ASSUME NEW s \in Items, NEW items \in Items, NEW limit \in Nat, NEW only
  PROVE  Fetch!Keep(First(s, limit), items, limit, only)
            = First(s \o Fetch!Qualifying(items, only), limit)
<1>1. PICK m \in Nat : m = Len(items)
  BY DEF Items
<1>2. PICK found \in Items : found = First(s, limit)
  BY FirstIs DEF Items
<1>3. PICK k : Keeping(k, m, found, items, limit, only)
                 /\ Fetch!Keep(found, items, limit, only) = k[m]
  BY <1>1, KeepingIs
<1>4. PICK q : Choosing(q, m, items, only) /\ Fetch!Qualifying(items, only) = q[m]
  BY <1>1, ChoosingIs
<1>5. /\ k[0] = found /\ \A n \in 1..m : k[n] = KeepNext(found, items, limit, only, n, k[n - 1])
      /\ q[0] = <<>> /\ \A n \in 1..m : q[n] = ChooseNext(items, only, n, q[n - 1])
      /\ \A n \in 0..m : q[n] \in Items
  BY <1>3, <1>4 DEF Keeping, Choosing
<1> DEFINE T == {n \in 0..m : k[n] = First(s \o q[n], limit)}
<1>6. 0 \in T /\ T \in SUBSET (0..m)
  <2>1. s \o <<>> = s
    BY DEF Items
  <2>2. q[0] = <<>> /\ k[0] = First(s, limit)
    BY <1>2, <1>5
  <2>3. s \o q[0] = s
    BY <2>1, <2>2
  <2>4. k[0] = First(s \o q[0], limit)
    BY <2>2, <2>3
  <2>. QED  BY <2>4
<1>7. ASSUME NEW n \in T, n < m PROVE n + 1 \in T
  <2>1. n \in 0..m /\ n + 1 \in 0..m /\ n + 1 \in 1..m /\ (n + 1) - 1 = n
    BY <1>7
  <2>2. PICK x : x = items[n + 1]
    OBVIOUS
  <2>3. x \in Nat
    BY <1>1, <2>1, <2>2 DEF Items
  <2>4. PICK y : y = q[n] /\ y \in Items
    BY <1>5, <2>1
  <2>5. PICK z : z = s \o y
    OBVIOUS
  <2>6. z \in Items /\ s \o Append(y, x) = Append(z, x)
    BY <2>3, <2>4, <2>5, ConcatAppend, SMTT(30)
  <2>7. k[n] = First(z, limit)
    BY <2>4, <2>5
  <2>8. k[n + 1] = KeepNext(found, items, limit, only, n + 1, k[n])
          /\ q[n + 1] = ChooseNext(items, only, n + 1, y)
    BY <1>5, <2>1, <2>4
  <2>9. CASE only /\ ~Fetch!Valid(x)
    <3>1. k[n + 1] = k[n] /\ q[n + 1] = y
      BY <2>2, <2>8, <2>9 DEF KeepNext, ChooseNext
    <3>. QED  BY <2>1, <2>5, <2>7, <3>1
  <2>10. CASE ~(only /\ ~Fetch!Valid(x))
    <3>1. q[n + 1] = Append(y, x)
      BY <2>2, <2>8, <2>10 DEF ChooseNext
    <3>2. k[n + 1] = IF Len(k[n]) = limit THEN k[n] ELSE Append(k[n], x)
      BY <2>2, <2>8, <2>10 DEF KeepNext
    <3>3. k[n + 1] = First(Append(z, x), limit)
      <4>1. /\ Len(First(z, limit)) = limit => First(Append(z, x), limit) = First(z, limit)
            /\ Len(First(z, limit)) # limit
                 => First(Append(z, x), limit) = Append(First(z, limit), x)
        BY <2>3, <2>6, FirstAppend
      <4>. QED  BY <2>7, <3>2, <4>1
    <3>. QED  BY <2>1, <2>6, <3>1, <3>3
  <2>. QED  BY <2>9, <2>10
<1> HIDE DEF T
<1>8. T = 0..m
  BY <1>6, <1>7, InductionUpTo
<1>9. m \in T
  BY <1>8
<1>. QED  BY <1>2, <1>3, <1>4, <1>9 DEF T

(* A page that cannot be read adds nothing. *)
LEMMA KeepNothing ==
  ASSUME NEW found \in Items, NEW limit, NEW only
  PROVE  Fetch!Keep(found, <<>>, limit, only) = found
<1>0. <<>> \in Items
  BY DEF Items
<1>1. PICK items \in Items : items = <<>>
  BY <1>0
<1>2. Len(items) = 0
  BY <1>1
<1>3. PICK k : Keeping(k, Len(items), found, items, limit, only)
                 /\ Fetch!Keep(found, items, limit, only) = k[Len(items)]
  BY KeepingIs
<1>. QED  BY <1>1, <1>2, <1>3 DEF Keeping

(* Once there are enough, further pages make no difference. *)
LEMMA ListedEnough ==
  ASSUME NEW w, w.pages \in WalkPages, NEW m \in Nat, NEW f, Listing(f, m, w), m = Len(w.pages),
         NEW k \in 0..m, NEW limit \in Nat, limit <= Len(f[k]), NEW r \in k..m
  PROVE  First(f[r], limit) = First(f[k], limit)
<1> DEFINE T == {n \in 0..m : n >= k => /\ limit <= Len(f[n])
                                        /\ First(f[n], limit) = First(f[k], limit)}
<1>1. 0 \in T /\ T \in SUBSET (0..m)
  OBVIOUS
<1>2. ASSUME NEW n \in T, n < m PROVE n + 1 \in T
  <2>1. n \in 0..m /\ n + 1 \in 0..m /\ n + 1 \in 1..m /\ (n + 1) - 1 = n
    BY <1>2
  <2>2. CASE n + 1 = k
    BY <2>1, <2>2
  <2>3. CASE n + 1 < k
    BY <2>1, <2>3
  <2>4. CASE n >= k
    <3>1. limit <= Len(f[n]) /\ First(f[n], limit) = First(f[k], limit)
      BY <2>4
    <3>2. PICK p \in WalkPages : p = w.pages
      OBVIOUS
    <3>3. n + 1 \in 1..Len(p)
      BY <2>1, <3>2
    <3>4. p[n + 1] \in PageAnswers
      BY <3>3, ElementOfSeq DEF WalkPages
    <3>5. PICK t : t = Fetch!Qualifying(w.pages[n + 1].items, w.only)
      OBVIOUS
    <3>6. t \in Seq(Nat)
      <4>1. w.pages[n + 1].items \in Items
        BY <3>2, <3>4 DEF PageAnswers
      <4>. QED  BY <3>5, <4>1, QualifyingTyped DEF Items
    <3>7. PICK s : s = f[n] /\ s \in Seq(Nat)
      BY <2>1 DEF Listing, Items
    <3>8. f[n + 1] = s \o t
      BY <2>1, <3>5, <3>7 DEF Listing, ListNext
    <3>9. limit <= Len(s)
      BY <3>1, <3>7
    <3>10. First(s \o t, limit) = First(s, limit) /\ limit <= Len(s \o t)
      BY <3>6, <3>7, <3>9, FirstMore
    <3>. QED  BY <2>1, <3>1, <3>7, <3>8, <3>10
  <2>. QED  BY <2>1, <2>2, <2>3, <2>4
<1> HIDE DEF T
<1>3. T = 0..m
  BY <1>1, <1>2, InductionUpTo
<1>4. r \in T /\ r >= k
  BY <1>3
<1>. QED  BY <1>4 DEF T

(* How far the walk gets. *)
LEMMA ReadableIs ==
  ASSUME NEW pages \in WalkPages, NEW k \in 0..Len(pages), \A i \in 1..k : pages[i].answer = "ok"
  PROVE  /\ Fetch!Readable(pages) \in k..Len(pages)
         /\ k = Len(pages) => Fetch!Readable(pages) = k
         /\ k < Len(pages) /\ pages[k + 1].answer # "ok" =>
               Fetch!Readable(pages) = IF pages[k + 1].answer = "cursorless" THEN k + 1 ELSE k
<1>1. PICK m \in Nat : m = Len(pages)
  BY DEF WalkPages
<1>2. PICK bad : bad = {i \in 1..m : pages[i].answer # "ok"}
  OBVIOUS
<1>3. DOMAIN pages = 1..m
  BY <1>1 DEF WalkPages
<1>4. Fetch!Readable(pages)
        = IF bad = {} THEN m
          ELSE IF pages[Fetch!Min(bad)].answer = "cursorless" THEN Fetch!Min(bad)
          ELSE Fetch!Min(bad) - 1
  BY <1>1, <1>2, <1>3 DEF Fetch!Readable
<1>5. CASE bad = {}
  <2>1. k < m => pages[k + 1].answer = "ok"
    BY <1>1, <1>2, <1>5
  <2>. QED  BY <1>1, <1>4, <1>5, <2>1
<1>6. CASE bad # {}
  <2>1. PICK b : b = Fetch!Min(bad)
    OBVIOUS
  <2>2. b \in bad /\ \A y \in bad : b <= y
    <3>1. bad \in SUBSET Nat
      BY <1>2
    <3>2. \E x \in bad : \A y \in bad : x <= y
      BY <1>6, <3>1, LeastNumber
    <3>. QED  BY <2>1, <3>2 DEF Fetch!Min
  <2>3. b \in 1..m /\ b > k
    BY <1>1, <1>2, <2>2
  <2>4. k < m /\ pages[k + 1].answer # "ok" => b = k + 1
    <3>1. ASSUME k < m, pages[k + 1].answer # "ok" PROVE b = k + 1
      <4>1. k + 1 \in bad
        BY <1>1, <1>2, <3>1
      <4>. QED  BY <1>1, <2>2, <2>3, <4>1
    <3>. QED  BY <3>1
  <2>5. Fetch!Readable(pages) = IF pages[b].answer = "cursorless" THEN b ELSE b - 1
    BY <1>4, <1>6, <2>1
  <2>6. Fetch!Readable(pages) \in k..m /\ k # m
    BY <1>1, <2>3, <2>5
  <2>7. k < m /\ pages[k + 1].answer # "ok" =>
           Fetch!Readable(pages) = IF pages[k + 1].answer = "cursorless" THEN k + 1 ELSE k
    BY <1>1, <2>4, <2>5
  <2>. QED  BY <1>1, <2>6, <2>7
<1>. QED  BY <1>5, <1>6

(* What a walk keeps is a list of items. *)
LEMMA KeepTyped ==
  ASSUME NEW found \in Items, NEW items \in Items, NEW limit, NEW only
  PROVE  Fetch!Keep(found, items, limit, only) \in Items
<1>1. PICK m \in Nat : m = Len(items)
  BY DEF Items
<1>2. PICK k : Keeping(k, m, found, items, limit, only)
                 /\ Fetch!Keep(found, items, limit, only) = k[m]
  BY <1>1, KeepingIs
<1>3. k[m] \in Items
  BY <1>2 DEF Keeping
<1>. QED  BY <1>2, <1>3

(* Two listings of one walk agree. *)
LEMMA ListingSame ==
  ASSUME NEW m \in Nat, NEW w, NEW f, NEW g, Listing(f, m, w), Listing(g, m, w)
  PROVE  \A n \in 0..m : g[n] = f[n]
<1>1. g[0] = <<>> /\ \A n \in 1..m : g[n] = ListNext(w, n, g[n - 1])
  BY DEF Listing
<1>. QED  BY <1>1, ListingUnique

(* A walk that has reached a page, and one that is over. *)
Reached(w, page, found) ==
    /\ page \in 1..(Len(w.pages) + 1) /\ \A i \in 1..(page - 1) : w.pages[i].answer = "ok"
    /\ \A f : Listing(f, Len(w.pages), w) => found = First(f[page - 1], w.limit)
Finished(w, found) == found = First(Fetch!Listed(w), w.limit)

(* fetch_market_pages: what each outcome of a page leaves. *)
LEMMA WalkTurn ==
  ASSUME NEW w \in Walks, NEW page, NEW found, Reached(w, page, found)
  PROVE  /\ found \in Items /\ page \in Nat
         /\ Len(found) >= w.limit => Finished(w, found)
         /\ page > Len(w.pages) => Finished(w, found)
         /\ page <= Len(w.pages) =>
              LET got == w.pages[page]
                  kept == Fetch!Keep(found, Fetch!PageItems(got), w.limit, w.only)
              IN /\ got.answer = "error" => Finished(w, found)
                 /\ got.answer \in {"garbled", "cursorless"} => Finished(w, kept)
                 /\ got.answer \notin {"error", "garbled", "cursorless"} =>
                       Reached(w, page + 1, kept)
<1>1. w.limit \in Nat /\ w.pages \in WalkPages
  BY FetchAssumption DEF WalkPages, PageAnswers, Items
<1>0. PICK only : only = w.only
  OBVIOUS
<1>2. PICK pages \in WalkPages, limit \in Nat :
         pages = w.pages /\ limit = w.limit /\ only = w.only
  BY <1>0, <1>1
<1>3. PICK m \in Nat : m = Len(pages)
  BY DEF WalkPages
<1>4. PICK k : k = page - 1
  OBVIOUS
<1>5. k \in 0..m /\ page = k + 1 /\ \A i \in 1..k : pages[i].answer = "ok"
  BY <1>2, <1>3, <1>4 DEF Reached
<1>6. PICK r : r = Fetch!Readable(pages)
  OBVIOUS
<1>7. /\ r \in k..m /\ (k = m => r = k)
      /\ k < m /\ pages[k + 1].answer # "ok" =>
            r = IF pages[k + 1].answer = "cursorless" THEN k + 1 ELSE k
  BY <1>3, <1>5, <1>6, ReadableIs
<1>8. PICK f : Listing(f, m, w) /\ Fetch!Listed(w) = f[r]
  <2>1. Fetch!Readable(w.pages) \in 0..Len(w.pages)
    BY <1>2, <1>3, <1>5, <1>6, <1>7
  <2>. QED  BY <1>1, <1>2, <1>3, <1>6, <2>1, ListingIs
<1>9. /\ \A n \in 0..m : f[n] \in Items
      /\ \A n \in 1..m : f[n] = f[n - 1] \o Fetch!Qualifying(pages[n].items, only)
  BY <1>2, <1>8 DEF Listing, ListNext
<1>10. found = First(f[k], limit)
  BY <1>2, <1>3, <1>4, <1>8 DEF Reached
<1>11. PICK s : s = f[k] /\ s \in Items
  BY <1>5, <1>9
<1>12. /\ found \in Items /\ Len(found) = Fetch!Lesser(limit, Len(s)) /\ Len(s) \in Nat
  BY <1>10, <1>11, FirstIs DEF Items
<1>13. page \in Nat
  BY <1>5
<1>14. ASSUME Len(found) >= limit PROVE Finished(w, found)
  <2>1. limit <= Len(f[k])
    BY <1>11, <1>12, <1>14 DEF Fetch!Lesser
  <2>2. First(f[r], limit) = First(f[k], limit)
    <3>1. k \in 0..m /\ r \in k..m /\ m = Len(w.pages)
      BY <1>2, <1>3, <1>5, <1>7
    <3>. QED  BY <1>1, <1>8, <2>1, <3>1, ListedEnough
  <2>. QED  BY <1>2, <1>8, <1>10, <2>2 DEF Finished
<1>15. ASSUME page > m PROVE Finished(w, found)
  <2>1. k = m
    BY <1>5, <1>15
  <2>2. r = k
    BY <1>7, <2>1
  <2>. QED  BY <1>2, <1>8, <1>10, <2>2 DEF Finished
<1>16. ASSUME page <= m
       PROVE  LET got == pages[page]
                  kept == Fetch!Keep(found, Fetch!PageItems(got), limit, only)
              IN /\ got.answer = "error" => Finished(w, found)
                 /\ got.answer \in {"garbled", "cursorless"} => Finished(w, kept)
                 /\ got.answer \notin {"error", "garbled", "cursorless"} =>
                       Reached(w, page + 1, kept)
  <2>1. page \in 1..m /\ k < m
    BY <1>5, <1>16
  <2>2. pages[page] \in PageAnswers
    <3>1. page \in 1..Len(pages)
      BY <1>3, <2>1
    <3>. QED  BY <3>1, ElementOfSeq DEF WalkPages
  <2>3. PICK got : got = pages[page] /\ got \in PageAnswers
    BY <2>2
  <2>4. got.answer # "ok" => r = IF got.answer = "cursorless" THEN page ELSE k
    BY <1>5, <1>7, <2>1, <2>3
  <2>5. f[page] = s \o Fetch!Qualifying(got.items, only)
    <3>1. f[page] = f[page - 1] \o Fetch!Qualifying(pages[page].items, only)
      BY <1>9, <2>1
    <3>2. page - 1 = k
      BY <1>5
    <3>. QED  BY <1>11, <2>3, <3>1, <3>2
  <2>6. ASSUME got.answer = "error" PROVE Finished(w, found)
    <3>1. r = k
      BY <2>4, <2>6
    <3>. QED  BY <1>2, <1>8, <1>10, <3>1 DEF Finished
  <2>7. ASSUME got.answer = "garbled"
        PROVE  Finished(w, Fetch!Keep(found, Fetch!PageItems(got), limit, only))
    <3>1. r = k
      BY <2>4, <2>7
    <3>2. Fetch!PageItems(got) = <<>>
      BY <2>7 DEF Fetch!PageItems
    <3>3. Fetch!Keep(found, <<>>, limit, only) = found
      BY <1>12, KeepNothing
    <3>. QED  BY <1>2, <1>8, <1>10, <3>1, <3>2, <3>3 DEF Finished
  <2>8. ASSUME got.answer # "garbled"
        PROVE  Fetch!Keep(found, Fetch!PageItems(got), limit, only) = First(f[page], limit)
    <3>1. PICK items \in Items : items = got.items
      BY <2>3 DEF PageAnswers
    <3>2. Fetch!PageItems(got) = items
      BY <2>8, <3>1 DEF Fetch!PageItems
    <3>3. Fetch!Keep(First(s, limit), items, limit, only)
            = First(s \o Fetch!Qualifying(items, only), limit)
      BY <1>11, KeepFirst
    <3>. QED  BY <1>10, <1>11, <2>5, <3>1, <3>2, <3>3
  <2>9. ASSUME got.answer = "cursorless"
        PROVE  Finished(w, Fetch!Keep(found, Fetch!PageItems(got), limit, only))
    <3>1. r = page
      BY <2>4, <2>9
    <3>2. got.answer # "garbled"
      BY <2>9
    <3>. QED  BY <1>2, <1>8, <2>8, <3>1, <3>2 DEF Finished
  <2>10. ASSUME got.answer \notin {"error", "garbled", "cursorless"}
         PROVE  Reached(w, page + 1, Fetch!Keep(found, Fetch!PageItems(got), limit, only))
    <3>1. got.answer = "ok"
      BY <2>3, <2>10 DEF PageAnswers
    <3>2. page + 1 \in 1..(m + 1) /\ (page + 1) - 1 = page
      BY <2>1
    <3>3. \A i \in 1..page : pages[i].answer = "ok"
      <4>1. \A i \in 1..page : i \in 1..k \/ i = page
        BY <1>5
      <4>. QED  BY <1>5, <2>3, <3>1, <4>1
    <3>4. ASSUME NEW g, Listing(g, m, w) PROVE g[page] = f[page]
      <4>1. \A n \in 0..m : g[n] = f[n]
        BY <1>8, <3>4, ListingSame
      <4>. QED  BY <2>1, <4>1
    <3>5. Fetch!Keep(found, Fetch!PageItems(got), limit, only) = First(f[page], limit)
      BY <2>8, <2>10
    <3>. QED  BY <1>2, <1>3, <3>2, <3>3, <3>4, <3>5 DEF Reached
  <2>. QED  BY <2>3, <2>6, <2>7, <2>9, <2>10
<1>17. /\ m = Len(w.pages) /\ pages[page] = w.pages[page] /\ limit = w.limit /\ only = w.only
  BY <1>2, <1>3
<1>. QED  BY <1>12, <1>13, <1>14, <1>15, <1>16, <1>17

(* The walk: a page it has reached, or its end. *)
WalkInv ==
    /\ b_walk \in [input : Walks, page : Nat, found : Items, done : BOOLEAN]
    /\ ~b_walk.done => Reached(b_walk.input, b_walk.page, b_walk.found)
    /\ b_walk.done => Finished(b_walk.input, b_walk.found)

(* A walk before its first page. *)
LEMMA WalkInit == ASSUME Fetch!InitState PROVE WalkInv
<1>1. PICK w \in Walks : b_walk = [input |-> w, page |-> 1, found |-> <<>>, done |-> FALSE]
  BY DEF Fetch!InitState
<1>2. w.limit \in Nat /\ w.pages \in WalkPages
  BY FetchAssumption DEF WalkPages, PageAnswers, Items
<1>3. PICK m \in Nat : m = Len(w.pages)
  BY <1>2 DEF WalkPages
<1>4. ASSUME NEW f, Listing(f, Len(w.pages), w) PROVE <<>> = First(f[0], w.limit)
  <2>1. f[0] = <<>> /\ <<>> \in Seq(Nat) /\ Len(<<>>) = 0
    BY <1>4 DEF Listing
  <2>2. PICK e : e = <<>>
    OBVIOUS
  <2>3. PICK limit \in Nat : limit = w.limit
    BY <1>2
  <2>4. e \in Seq(Nat) /\ Len(e) <= limit
    BY <2>1, <2>2
  <2>5. First(e, limit) = e
    BY <2>4, FirstIs
  <2>. QED  BY <2>1, <2>2, <2>3, <2>5
<1>5. Reached(w, 1, <<>>)
  <2>1. 1 \in 1..(Len(w.pages) + 1) /\ 1 - 1 = 0 /\ 1..(1 - 1) = {}
    BY <1>3
  <2>. QED  BY <1>4, <2>1 DEF Reached
<1>6. <<>> \in Items
  BY DEF Items
<1>. QED  BY <1>1, <1>5, <1>6 DEF WalkInv

(* A page of the walk, or a step of the batch. *)
LEMMA WalkNext == ASSUME WalkInv, Fetch!NextPage \/ UNCHANGED b_walk PROVE WalkInv'
<1>1. CASE UNCHANGED b_walk
  BY <1>1 DEF WalkInv
<1>2. CASE Fetch!NextPage
  <2>0. PICK page, found : page = b_walk.page /\ found = b_walk.found
    OBVIOUS
  <2>1. PICK w \in Walks :
           /\ b_walk = [input |-> w, page |-> page, found |-> found, done |-> FALSE]
           /\ Reached(w, page, found)
    <3>1. ~b_walk.done
      BY <1>2 DEF Fetch!NextPage
    <3>2. b_walk = [input |-> b_walk.input, page |-> b_walk.page, found |-> b_walk.found,
                    done |-> FALSE] /\ b_walk.input \in Walks
      BY <3>1 DEF WalkInv
    <3>. QED  BY <2>0, <3>1, <3>2 DEF WalkInv
  <2>2. PICK kept : kept = Fetch!Keep(found, Fetch!PageItems(w.pages[page]), w.limit, w.only)
    OBVIOUS
  <2>3. b_walk' =
          IF Len(found) >= w.limit THEN [b_walk EXCEPT !.done = TRUE]
          ELSE IF page > Len(w.pages) THEN [b_walk EXCEPT !.done = TRUE]
          ELSE IF w.pages[page].answer = "error" THEN [b_walk EXCEPT !.done = TRUE]
          ELSE [b_walk EXCEPT !.found = kept, !.page = @ + 1,
                              !.done = w.pages[page].answer \in {"garbled", "cursorless"}]
    BY <1>2, <2>1, <2>2 DEF Fetch!NextPage
  <2>4. /\ found \in Items /\ page \in Nat
        /\ Len(found) >= w.limit => Finished(w, found)
        /\ page > Len(w.pages) => Finished(w, found)
        /\ page <= Len(w.pages) =>
             /\ w.pages[page].answer = "error" => Finished(w, found)
             /\ w.pages[page].answer \in {"garbled", "cursorless"} => Finished(w, kept)
             /\ w.pages[page].answer \notin {"error", "garbled", "cursorless"} =>
                   Reached(w, page + 1, kept)
    BY <2>1, <2>2, WalkTurn
  <2>5. CASE \/ Len(found) >= w.limit \/ page > Len(w.pages)
             \/ page <= Len(w.pages) /\ w.pages[page].answer = "error"
    <3>1. Finished(w, found)
      BY <2>4, <2>5
    <3>2. b_walk' = [b_walk EXCEPT !.done = TRUE]
      BY <2>3, <2>5
    <3>3. b_walk' = [input |-> w, page |-> page, found |-> found, done |-> TRUE]
      BY <2>1, <3>2
    <3>. QED  BY <2>4, <3>1, <3>3 DEF WalkInv
  <2>6. CASE /\ ~(Len(found) >= w.limit) /\ ~(page > Len(w.pages))
             /\ w.pages[page].answer # "error"
    <3>1. b_walk' = [b_walk EXCEPT !.found = kept, !.page = @ + 1,
                              !.done = w.pages[page].answer \in {"garbled", "cursorless"}]
      BY <2>3, <2>6
    <3>2. b_walk' = [input |-> w, page |-> page + 1, found |-> kept,
                     done |-> w.pages[page].answer \in {"garbled", "cursorless"}]
      BY <2>1, <3>1
    <3>3. page \in 1..Len(w.pages)
      <4>1. Len(w.pages) \in Nat
        BY FetchAssumption
      <4>2. page \in 1..(Len(w.pages) + 1)
        BY <2>1 DEF Reached
      <4>. QED  BY <2>6, <4>1, <4>2
    <3>4. page <= Len(w.pages)
      BY <3>3
    <3>5. kept \in Items
      <4>1. PICK pages \in WalkPages : pages = w.pages
        BY FetchAssumption DEF WalkPages, PageAnswers, Items
      <4>2. pages[page] \in PageAnswers
        <5>1. page \in 1..Len(pages)
          BY <3>3, <4>1
        <5>. QED  BY <5>1, ElementOfSeq DEF WalkPages
      <4>3. Fetch!PageItems(pages[page]) \in Items
        BY <4>2 DEF Fetch!PageItems, PageAnswers, Items
      <4>. QED  BY <2>2, <2>4, <4>1, <4>3, KeepTyped
    <3>6. CASE w.pages[page].answer \in {"garbled", "cursorless"}
      <4>1. (w.pages[page].answer \in {"garbled", "cursorless"}) = TRUE
        BY <3>6
      <4>2. b_walk' = [input |-> w, page |-> page + 1, found |-> kept, done |-> TRUE]
        BY <3>2, <4>1
      <4>3. Finished(w, kept)
        BY <2>4, <3>4, <3>6
      <4>. QED  BY <2>4, <3>5, <4>2, <4>3 DEF WalkInv
    <3>7. CASE w.pages[page].answer \notin {"garbled", "cursorless"}
      <4>1. Reached(w, page + 1, kept)
        BY <2>4, <2>6, <3>4, <3>7
      <4>2. (w.pages[page].answer \in {"garbled", "cursorless"}) = FALSE
        BY <3>7
      <4>3. b_walk' = [input |-> w, page |-> page + 1, found |-> kept, done |-> FALSE]
        BY <3>2, <4>2
      <4>. QED  BY <2>4, <3>5, <4>1, <4>3 DEF WalkInv
    <3>. QED  BY <3>6, <3>7
  <2>. QED
    <3>1. Len(w.pages) \in Nat /\ page \in Nat
      BY <2>4, FetchAssumption
    <3>2. page > Len(w.pages) \/ page <= Len(w.pages)
      BY <3>1
    <3>. QED  BY <2>5, <2>6, <3>2
<1>. QED  BY <1>1, <1>2

(* Every step of the fetcher. *)
LEMMA FetchAndWalk ==
  ASSUME FetchInv, WalkInv, [Fetch!Next]_(Fetch!vars)
  PROVE  FetchInv' /\ WalkInv'
<1>1. FetchInv'
  BY FetchNext
<1>2. Fetch!NextPage \/ UNCHANGED b_walk
  BY DEF Fetch!Next, Fetch!vars, Fetch!Start, Fetch!Join, Fetch!Take, Fetch!Perform
<1>. QED  BY <1>1, <1>2, WalkNext

(* What a batch and a walk have done when they end. *)
LEMMA FetchesSafe == ASSUME FetchInv, WalkInv PROVE Fetch!FetchesComplete
<1>1. BatchComplete
  BY FetchSafe
<1>2. Fetch!Markets \in Seq(Nat) /\ Rising(Fetch!Markets)
  <2>1. b_batch.size \in Nat /\ b_results \in [1..b_batch.size -> Nat]
          /\ \A i \in 1..b_batch.size : b_results[i] \in {0, i}
    BY DEF FetchInv, FetchTypeOK, OwnResults
  <2>. QED  BY <2>1, MarketsRise
<1>3. \A i, j \in DOMAIN Fetch!Markets : i < j => Fetch!Markets[i] < Fetch!Markets[j]
  <2>1. PICK s \in Seq(Nat) : s = Fetch!Markets
    BY <1>2
  <2>2. DOMAIN s = 1..Len(s)
    OBVIOUS
  <2>. QED  BY <1>2, <2>1, <2>2 DEF Rising
<1>4. b_walk.done => b_walk.found = SubSeq(Fetch!Listed(b_walk.input), 1,
                        Fetch!Lesser(b_walk.input.limit, Len(Fetch!Listed(b_walk.input))))
  BY DEF WalkInv, Finished, First
<1>. QED  BY <1>1, <1>3, <1>4 DEF Fetch!FetchesComplete, BatchComplete

-----------------------------------------------------------------------------
(* ArbRuntime. *)

ArbMarkets == [id : Nat, symbol : STRING, ends : Nat]
MarketLists == Seq(ArbMarkets)

UniteNext(destination, source, n, s) ==
    IF \E i \in DOMAIN s : s[i].id = source[n].id THEN s ELSE Append(s, source[n])
Uniting(f, m, destination, source) ==
    /\ f \in [0..m -> MarketLists] /\ f[0] = destination
    /\ \A n \in 1..m : f[n] = UniteNext(destination, source, n, f[n - 1])

(* The markets united, one by one, exist. *)
LEMMA UnitingExists ==
  ASSUME NEW destination \in MarketLists, NEW source \in MarketLists
  PROVE  \E f : Uniting(f, Len(source), destination, source)
<1>0. PICK m \in Nat : m = Len(source)
  BY DEF MarketLists
<1> DEFINE step == [n \in 1..m |-> [s \in MarketLists |-> UniteNext(destination, source, n, s)]]
<1>1. step \in [1..m -> [MarketLists -> MarketLists]]
  <2>1. \A n \in 1..m, s \in MarketLists : UniteNext(destination, source, n, s) \in MarketLists
    <3>1. \A n \in 1..m : source[n] \in ArbMarkets
      BY <1>0 DEF MarketLists
    <3>. QED  BY <3>1 DEF UniteNext, MarketLists
  <2>. QED  BY <2>1
<1>2. PICK S : S = MarketLists
  OBVIOUS
<1>3. PICK a : a = destination
  OBVIOUS
<1>4. a \in S /\ m \in Nat
  BY <1>2, <1>3
<1>5. PICK st \in [1..m -> [S -> S]] : st = step
  BY <1>1, <1>2
<1>6. PICK f \in [0..m -> S] : f[0] = a /\ \A n \in 1..m : f[n] = st[n][f[n - 1]]
  BY <1>4, RecursionDefined, SMTT(30)
<1>7. \A n \in 1..m : f[n - 1] \in MarketLists /\ f[n] = UniteNext(destination, source, n, f[n - 1])
  <2>1. \A n \in 1..m : f[n - 1] \in MarketLists
    BY <1>2, <1>6, SMTT(30)
  <2>. QED  BY <1>5, <1>6, <2>1
<1>. QED  BY <1>0, <1>2, <1>3, <1>6, <1>7 DEF Uniting

(* append_unique is the last value of that recursion. *)
LEMMA UnitingIs ==
  ASSUME NEW destination \in MarketLists, NEW source \in MarketLists
  PROVE  \E f : Uniting(f, Len(source), destination, source)
    /\ Arb!AppendUnique(destination, source) = f[Len(source)]
<1> DEFINE R(f) == f = [n \in 0..Len(source) |->
              IF n = 0 THEN destination ELSE UniteNext(destination, source, n, f[n - 1])]
<1>1. PICK m \in Nat : m = Len(source)
  BY DEF MarketLists
<1>2. PICK f : Uniting(f, m, destination, source)
  BY <1>1, UnitingExists
<1>3. R(f)
  <2>1. f = [n \in 0..m |-> IF n = 0 THEN destination ELSE UniteNext(destination, source, n,
                                                                     f[n - 1])]
    BY <1>1, <1>2 DEF Uniting
  <2>. QED  BY <1>1, <2>1
<1>4. PICK g : R(g) /\ g = CHOOSE x : R(x)
  BY <1>3
<1>5. Arb!AppendUnique(destination, source) = g[Len(source)]
  <2>1. Arb!AppendUnique(destination, source) = (CHOOSE x : R(x))[Len(source)]
    BY DEF Arb!AppendUnique, UniteNext
  <2> HIDE DEF R
  <2>. QED  BY <1>4, <2>1
<1>6. g = [n \in 0..m |-> IF n = 0 THEN destination ELSE UniteNext(destination, source, n,
                                                                   g[n - 1])]
  BY <1>1, <1>4
<1>7. g[0] = destination /\ \A n \in 1..m : g[n] = UniteNext(destination, source, n, g[n - 1])
  BY <1>6
<1>8. \A n \in 0..m : g[n] = f[n]
  <2>1. g[0] = f[0] /\ \A n \in 1..m : g[n - 1] = f[n - 1] => g[n] = f[n]
    BY <1>2, <1>7 DEF Uniting
  <2>. QED  BY <2>1, SameRecursion
<1>9. g[Len(source)] = f[Len(source)]
  BY <1>1, <1>8
<1>. QED  BY <1>1, <1>2, <1>5, <1>9

(* append_unique makes a list of markets of two. *)
LEMMA AppendUniqueTyped ==
  ASSUME NEW destination \in MarketLists, NEW source \in MarketLists
  PROVE  Arb!AppendUnique(destination, source) \in MarketLists
<1>1. PICK m \in Nat : m = Len(source)
  BY DEF MarketLists
<1>2. PICK f : Uniting(f, m, destination, source)
                 /\ Arb!AppendUnique(destination, source) = f[m]
  BY <1>1, UnitingIs
<1>3. f[m] \in MarketLists
  BY <1>2 DEF Uniting
<1>. QED  BY <1>2, <1>3

(* fetch_selected keeps markets of the listing. *)
LEMMA FetchSelectedTyped ==
  ASSUME NEW listing \in Listings
  PROVE  Arb!FetchSelected(listing) \in MarketLists
<1> DEFINE Asked(got, x) ==
             IF x \in x_options.sources THEN Arb!AppendUnique(got, listing[x]) ELSE got
           all == Asked(Asked(Asked(Asked(<<>>, "15m"), "1h"), "4h"), "neg-risk")
<1>1. \A x \in {"15m", "1h", "4h", "neg-risk"} : listing[x] \in MarketLists
  BY ArbAssumption DEF MarketLists, ArbMarkets
<1>2. ASSUME NEW got \in MarketLists, NEW x \in {"15m", "1h", "4h", "neg-risk"}
      PROVE  Asked(got, x) \in MarketLists
  BY <1>1, AppendUniqueTyped
<1>3. <<>> \in MarketLists
  BY DEF MarketLists
<1>4. all \in MarketLists
  <2> HIDE DEF Asked
  <2>1. Asked(<<>>, "15m") \in MarketLists
    BY <1>2, <1>3
  <2>2. Asked(Asked(<<>>, "15m"), "1h") \in MarketLists
    BY <1>2, <2>1
  <2>3. Asked(Asked(Asked(<<>>, "15m"), "1h"), "4h") \in MarketLists
    BY <1>2, <2>2
  <2>. QED  BY <1>2, <2>3
<1>5. Arb!FetchSelected(listing)
        = SubSeq(all, 1, IF Len(all) > MaxMarkets THEN MaxMarkets ELSE Len(all))
  BY DEF Arb!FetchSelected
<1> HIDE DEF all
<1>6. PICK s : s = all /\ s \in Seq(ArbMarkets)
  BY <1>4 DEF MarketLists
<1>7. PICK m \in Nat : m = Len(s)
  BY <1>6
<1>8. PICK n \in 0..m : n = IF m > MaxMarkets THEN MaxMarkets ELSE m
  BY ArbAssumption
<1>9. \A i \in 1..n : s[i] \in ArbMarkets
  BY <1>6, <1>7
<1>10. SubSeq(s, 1, n) \in Seq(ArbMarkets)
  BY <1>9, SubSeqProperties
<1>. QED  BY <1>5, <1>6, <1>7, <1>8, <1>10 DEF MarketLists

(* select_market: what it returns fits, and has more than two minutes left. *)
LEMMA SelectedFits ==
  ASSUME NEW listed \in MarketLists, x_now \in Nat
  PROVE  LET found == Arb!SelectMarket(listed) IN
         \/ found = Arb!NoMarket
         \/ found.ends > x_now + 2 /\ Arb!TargetSymbol \in {"", found.symbol}
<1>1. PICK m \in Nat : m = Len(listed)
  BY DEF MarketLists
<1>2. DOMAIN listed = 1..m /\ \A i \in 1..m : listed[i].ends \in Nat
  <2>1. DOMAIN listed = 1..m
    BY <1>1 DEF MarketLists
  <2>2. \A i \in 1..Len(listed) : listed[i] \in ArbMarkets
    BY ElementOfSeq DEF MarketLists
  <2>3. \A i \in 1..Len(listed) : listed[i].ends \in Nat
    BY <2>2 DEF ArbMarkets
  <2>. QED  BY <1>1, <2>1, <2>3
<1> DEFINE open == {i \in DOMAIN listed : /\ listed[i].ends > x_now + 2
                                          /\ Arb!TargetSymbol \in {"", listed[i].symbol}}
           P(i) == \A j \in open : listed[i].ends < listed[j].ends
                                   \/ (listed[i].ends = listed[j].ends /\ i <= j)
<1>3. open = {i \in 1..m : /\ listed[i].ends > x_now + 2
                           /\ Arb!TargetSymbol \in {"", listed[i].symbol}}
  BY <1>2
<1>4. Arb!SelectMarket(listed)
        = IF open = {} THEN Arb!NoMarket ELSE listed[CHOOSE i \in open : P(i)]
  BY DEF Arb!SelectMarket
<1> HIDE DEF open
<1>5. ASSUME open # {} PROVE \E i \in open : P(i)
  <2>1. PICK times : times = {listed[i].ends : i \in open}
    OBVIOUS
  <2>2. times \in SUBSET Nat /\ times # {}
    BY <1>2, <1>3, <1>5, <2>1
  <2>3. PICK t \in times : \A y \in times : t <= y
    BY <2>2, LeastNumber
  <2>4. PICK firsts : firsts = {i \in open : listed[i].ends = t}
    OBVIOUS
  <2>5. firsts \in SUBSET Nat /\ firsts # {}
    <3>1. PICK i \in open : listed[i].ends = t
      BY <2>1, <2>3
    <3>2. i \in firsts
      BY <2>4, <3>1
    <3>3. \A j \in open : j \in 1..m
      BY <1>3
    <3>4. open \in SUBSET Nat
      BY <3>3
    <3>. QED  BY <2>4, <3>2, <3>4
  <2>6. PICK i \in firsts : \A j \in firsts : i <= j
    BY <2>5, LeastNumber
  <2>7. i \in open /\ listed[i].ends = t /\ t \in Nat
    BY <2>2, <2>3, <2>4, <2>6
  <2>8. ASSUME NEW j \in open
        PROVE  listed[i].ends < listed[j].ends \/ (listed[i].ends = listed[j].ends /\ i <= j)
    <3>1. listed[j].ends \in times /\ listed[j].ends \in Nat
      BY <1>2, <1>3, <2>1
    <3>2. t <= listed[j].ends
      BY <2>3, <3>1
    <3>3. CASE listed[j].ends = t
      BY <2>4, <2>6, <2>7, <3>3
    <3>4. CASE t < listed[j].ends
      BY <2>7, <3>4
    <3>. QED  BY <2>7, <3>1, <3>2, <3>3, <3>4
  <2>. QED  BY <2>7, <2>8
<1>6. ASSUME open # {} PROVE (CHOOSE i \in open : P(i)) \in open
  <2>1. \E i \in open : P(i)
    BY <1>5, <1>6
  <2>. QED  BY <2>1
<1>7. CASE open = {}
  BY <1>4, <1>7
<1>8. CASE open # {}
  <2>1. PICK c : c = CHOOSE i \in open : P(i)
    OBVIOUS
  <2>2. c \in open
    BY <1>6, <1>8, <2>1
  <2>3. Arb!SelectMarket(listed) = listed[c]
    BY <1>4, <1>8, <2>1
  <2>4. listed[c].ends > x_now + 2 /\ Arb!TargetSymbol \in {"", listed[c].symbol}
    BY <1>3, <2>2
  <2>. QED  BY <2>3, <2>4
<1>. QED  BY <1>7, <1>8

(* Where main() is, and what it holds there. *)
Waiting == {"init", "fetch", "refetch", "select", "prepare", "subscribe"}
Served == {"loop", "refetch", "select", "prepare", "subscribe", "stop"}

ArbTypeOK ==
    /\ x_pc \in Waiting \cup {"connect", "loop", "stop", "cleanup", "exit"}
    /\ x_now \in Nat /\ x_markets \in MarketLists

(* What was chosen had more than two minutes left then, and fits. *)
WellChosen ==
    /\ x_current.ends > x_chosen + 2 /\ Arb!TargetSymbol \in {"", x_current.symbol}

ArbInv ==
    /\ ArbTypeOK
    /\ x_pc \in Waiting => x_books = {}
    /\ x_pc \in {"connect", "loop"} => x_books = {x_current.id}
    /\ \E id : x_books \subseteq {id}
    /\ x_pc = "prepare" /\ x_current # Arb!NoMarket => WellChosen
    /\ x_pc \in {"subscribe", "connect", "loop"} => WellChosen
    /\ x_global = IF x_pc \in {"init", "exit"} THEN 0 ELSE 1
    /\ x_thread = "running" => x_pc \in Served

(* main() before it has started. *)
LEMMA ArbInit == ASSUME Arb!InitState PROVE ArbInv
<1>1. <<>> \in MarketLists
  BY DEF MarketLists
<1>. QED  BY <1>1 DEF Arb!InitState, ArbInv, ArbTypeOK, Waiting, Served

(* Every step of the example. *)
LEMMA ArbNext == ASSUME ArbInv, [Arb!Next]_(Arb!vars) PROVE ArbInv'
<1>1. CASE UNCHANGED Arb!vars
  BY <1>1 DEF Arb!vars, ArbInv, ArbTypeOK, WellChosen, Arb!TargetSymbol
<1>2. CASE Arb!Begin
  BY <1>2 DEF Arb!Begin, Arb!Goto, ArbInv, ArbTypeOK, WellChosen, Waiting, Served
<1>3. CASE Arb!Fetch
  <2>1. x_markets' \in MarketLists
    BY <1>3, FetchSelectedTyped DEF Arb!Fetch
  <2>2. /\ x_pc \in {"fetch", "refetch"} /\ x_pc' \in {"select", "cleanup"}
        /\ x_pc = "refetch" => x_pc' = "select"
        /\ UNCHANGED <<x_now, x_options, x_current, x_books, x_thread, x_global, x_chosen>>
    BY <1>3 DEF Arb!Fetch, Arb!Goto
  <2>3. x_thread = "running" => x_pc = "refetch"
    BY <2>2 DEF ArbInv, Served
  <2>. QED  BY <2>1, <2>2, <2>3 DEF ArbInv, ArbTypeOK, Waiting, Served
<1>4. CASE Arb!Select
  <2>1. /\ x_pc = "select" /\ x_pc' = "prepare" /\ x_current' = Arb!SelectMarket(x_markets)
        /\ x_chosen' = x_now
        /\ UNCHANGED <<x_now, x_options, x_markets, x_books, x_thread, x_global>>
    BY <1>4 DEF Arb!Select, Arb!Goto
  <2>2. PICK found : found = Arb!SelectMarket(x_markets)
    OBVIOUS
  <2>3. found = Arb!NoMarket
          \/ (found.ends > x_now + 2 /\ Arb!TargetSymbol \in {"", found.symbol})
    BY <2>2, SelectedFits DEF ArbInv, ArbTypeOK
  <2>4. Arb!TargetSymbol' = Arb!TargetSymbol
    BY <2>1 DEF Arb!TargetSymbol
  <2>5. x_current' # Arb!NoMarket => WellChosen'
    BY <2>1, <2>2, <2>3, <2>4 DEF WellChosen
  <2>. QED  BY <2>1, <2>5 DEF ArbInv, ArbTypeOK, Waiting, Served
<1>5. CASE Arb!Prepare
  <2>1. /\ x_pc = "prepare"
        /\ UNCHANGED <<x_now, x_options, x_markets, x_current, x_books, x_thread, x_global,
                       x_chosen>>
        /\ \/ x_current # Arb!NoMarket /\ x_pc' = "subscribe"
           \/ x_thread = "running" /\ x_pc' = "stop"
           \/ x_thread # "running" /\ x_pc' = "cleanup"
    BY <1>5 DEF Arb!Prepare, Arb!Goto
  <2>2. WellChosen' = WellChosen
    BY <2>1 DEF WellChosen, Arb!TargetSymbol
  <2>. QED  BY <2>1, <2>2 DEF ArbInv, ArbTypeOK, Waiting, Served
<1>6. CASE Arb!Subscribe
  <2>1. /\ x_pc = "subscribe" /\ x_books = {} /\ x_books' = x_books \cup {x_current.id}
        /\ x_pc' = (IF x_thread = "running" THEN "loop" ELSE "connect")
        /\ UNCHANGED <<x_now, x_options, x_markets, x_current, x_thread, x_global, x_chosen>>
    BY <1>6 DEF Arb!Subscribe, Arb!Goto, ArbInv, Waiting
  <2>2. x_books' = {x_current.id}
    BY <2>1
  <2>3. WellChosen' = WellChosen
    BY <2>1 DEF WellChosen, Arb!TargetSymbol
  <2>. QED  BY <2>1, <2>2, <2>3 DEF ArbInv, ArbTypeOK, Waiting, Served
<1>7. CASE Arb!Connect
  <2>1. /\ x_pc = "connect" /\ UNCHANGED <<x_now, x_options, x_markets, x_current, x_books>>
        /\ UNCHANGED <<x_global, x_chosen>>
        /\ x_pc' = "loop" \/ (x_pc' = "cleanup" /\ UNCHANGED x_thread)
    BY <1>7 DEF Arb!Connect, Arb!Goto
  <2>2. WellChosen' = WellChosen
    BY <2>1 DEF WellChosen, Arb!TargetSymbol
  <2>. QED  BY <2>1, <2>2 DEF ArbInv, ArbTypeOK, Waiting, Served
<1>8. CASE Arb!Loop
  BY <1>8 DEF Arb!Loop, Arb!Goto, ArbInv, ArbTypeOK, Waiting, Served
<1>9. CASE Arb!Stop
  BY <1>9 DEF Arb!Stop, Arb!Goto, ArbInv, ArbTypeOK, Waiting, Served
<1>10. CASE Arb!Cleanup
  BY <1>10 DEF Arb!Cleanup, Arb!Goto, ArbInv, ArbTypeOK, Waiting, Served
<1>11. CASE Arb!Signal
  BY <1>11 DEF Arb!Signal, ArbInv, ArbTypeOK, WellChosen, Arb!TargetSymbol
<1>12. CASE Arb!Passes
  <2>1. /\ x_now' = x_now + 1
        /\ UNCHANGED <<x_pc, x_options, x_markets, x_current, x_books, x_thread, x_global,
                       x_chosen>>
    BY <1>12 DEF Arb!Passes
  <2>2. ArbTypeOK'
    BY <2>1 DEF ArbInv, ArbTypeOK
  <2>3. WellChosen' = WellChosen
    BY <2>1 DEF WellChosen, Arb!TargetSymbol
  <2>. QED  BY <2>1, <2>2, <2>3 DEF ArbInv
<1>. QED  BY <1>1, <1>2, <1>3, <1>4, <1>5, <1>6, <1>7, <1>8, <1>9, <1>10, <1>11, <1>12
             DEF Arb!Next, Arb!Main

(* What main() holds at each point. *)
LEMMA ArbSafe == ASSUME ArbInv PROVE Arb!WatchesOneMarket
<1>1. PICK id : x_books \subseteq {id}
  BY DEF ArbInv
<1>2. Arb!Cardinality(x_books) = Cardinality(x_books)
  BY DEF Arb!Cardinality, Cardinality
<1>3. Cardinality(x_books) <= 1
  <2>1. x_books = {} \/ x_books = {id}
    BY <1>1
  <2>2. Cardinality({}) = 0 /\ Cardinality({id}) = 1
    BY FS_EmptySet, FS_Singleton
  <2>. QED  BY <2>1, <2>2
<1>. QED  BY <1>2, <1>3 DEF ArbInv, ArbTypeOK, WellChosen, Arb!WatchesOneMarket, Waiting, Served

-----------------------------------------------------------------------------
(* The composition. *)

(* A step of the composition is a step of the discovery component it is about, or leaves
   that one alone. *)
LEMMA StepOfDiscovery ==
    ASSUME [Next]_allVars
    PROVE  /\ which' = which
           /\ which = "fetch" => [Fetch!Next]_(Fetch!vars)
           /\ which = "oracle" => Oracle!Next \/ UNCHANGED o_vars
           /\ which = "arb" => [Arb!Next]_(Arb!vars)
<1>1. CASE UNCHANGED allVars
  BY <1>1 DEF allVars, o_vars, b_vars, x_vars, Fetch!vars, Arb!vars
<1>2. CASE Next
  BY <1>2 DEF Next, OnlyGlobal, OnlyConn, OnlyOrders, OnlyPages, OnlyCalls, OnlyFile,
              OnlyTxs, OnlyOracle, OnlyFetch, OnlyArb, OnlyTunnel
<1>. QED  BY <1>1, <1>2

(* For every batch, page walk, set of logs, listing and command line, and for every history
   of failures, late and repeated deliveries and reorganisations: fetch_gamma_markets runs
   each request once and lists the markets in the order of the requests, and
   fetch_market_pages yields the first markets that qualify of the pages it could read; the
   dashboard's state is the fold of the live logs in the order of the chain; and the
   example watches one market, chosen in time, and leaves nothing behind. *)
THEOREM DiscoveryStaysSafe == Spec => []DiscoverySafe
<1> DEFINE I == /\ which = "fetch" => FetchInv /\ WalkInv
                /\ which = "oracle" => OracleInv
                /\ which = "arb" => ArbInv
<1>1. Init => I
  BY FetchInit, WalkInit, OracleInit, ArbInit DEF Init, InitComponents
<1>2. I /\ [Next]_allVars => I'
  BY StepOfDiscovery, FetchAndWalk, OracleNext, ArbNext
<1>3. I => DiscoverySafe
  BY FetchesSafe, OracleSafe, ArbSafe DEF DiscoverySafe
<1>. QED  BY <1>1, <1>2, <1>3, PTL DEF Spec
=============================================================================
