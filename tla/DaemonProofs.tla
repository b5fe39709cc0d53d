---------------------------- MODULE DaemonProofs ----------------------------
(***************************************************************************)
(* For any number of processes that share a data_dir, any configurations,  *)
(* transfers and bounds: Daemon is type correct, all processes agree on    *)
(* the peer ID, a running daemon stays listed as running until a daemon on *)
(* another port takes its row, its groups can be found, and what sync_jobs *)
(* says of transfers is true.                                              *)
(*                                                                         *)
(* The invariants follow the resources that processes pass on to each      *)
(* other: the row of local_identity, which is written once (IdentityInv);  *)
(* the numbers of groups and files that are counted up (GroupsInv,         *)
(* JobsInv); and the ports, which decide who may write the row of          *)
(* daemon_info (PortInv, RowInv).                                          *)
(***************************************************************************)
EXTENDS Daemon, TLAPS

JobRows == [direction : {"", "send", "receive"}, total : Nat, done : Nat,
            status : {"", "running", "completed", "failed"}]
Workers == [at : {"none", "file", "record", "failed"}, left : Nat, moved : Nat]

\* The types of the parts, for steps that change few of them.
ProcessTypes ==
    /\ pc \in [Procs -> Places] /\ cfg \in [Procs -> Configs \cup {NoConfig}]
    /\ id \in [Procs -> Procs \cup {None}] /\ identity \in Procs \cup {None}
    /\ port \in [Procs -> Ports \cup {None}] /\ groups \in [Procs -> Nat]
ClockTypes ==
    /\ row \in [pid : Procs, age : 0 .. StaleAfter] \cup {None}
    /\ beat \in [Procs -> BOOLEAN] /\ missed \in [Procs -> 0 .. MaxMissed]
JobTypes ==
    /\ job \in [Jobs -> JobRows] /\ owner \in [Jobs -> Procs \cup {None}]
    /\ work \in [Jobs -> Workers]

LEMMA Parts == TypeOK <=> ProcessTypes /\ ClockTypes /\ JobTypes /\ faults \in 0 .. MaxFaults
  BY DEF TypeOK, ProcessTypes, ClockTypes, JobTypes, JobRows, Workers

LEMMA PartsNext ==
    ProcessTypes' /\ ClockTypes' /\ JobTypes' /\ faults' \in 0 .. MaxFaults => TypeOK'
  BY DEF TypeOK, ProcessTypes, ClockTypes, JobTypes, JobRows, Workers

-----------------------------------------------------------------------------
(* What ends a process, and what a statement that may fail does *)

LEMMA GotoFrame ==
    ASSUME TypeOK, NEW p \in Procs, NEW l \in Places, Goto(p, l)
    PROVE  /\ pc' \in [Procs -> Places] /\ pc'[p] = l
           /\ \A q \in Procs \ {p} : pc'[q] = pc[q]
  BY DEF TypeOK, Goto

LEMMA GoneFrame ==
    ASSUME TypeOK, NEW p \in Procs, Gone(p)
    PROVE  /\ pc'[p] = "off" /\ cfg'[p] = NoConfig /\ groups'[p] = 0
           /\ port' = [port EXCEPT ![p] = None]
           /\ \A q \in Procs \ {p} :
                /\ pc'[q] = pc[q] /\ cfg'[q] = cfg[q] /\ id'[q] = id[q]
                /\ groups'[q] = groups[q] /\ beat'[q] = beat[q] /\ missed'[q] = missed[q]
  BY DEF TypeOK, Gone, Goto

LEMMA GoneTyped ==
    ASSUME TypeOK, NEW p \in Procs, Gone(p)
    PROVE  /\ pc' \in [Procs -> Places] /\ cfg' \in [Procs -> Configs \cup {NoConfig}]
           /\ id' \in [Procs -> Procs \cup {None}] /\ port' \in [Procs -> Ports \cup {None}]
           /\ groups' \in [Procs -> Nat] /\ beat' \in [Procs -> BOOLEAN]
           /\ missed' \in [Procs -> 0 .. MaxMissed]
           /\ owner' \in [Jobs -> Procs \cup {None}] /\ work' \in [Jobs -> Workers]
<1>. ProcessTypes /\ ClockTypes /\ JobTypes
  BY Parts
<1>1. pc' \in [Procs -> Places] /\ cfg' \in [Procs -> Configs \cup {NoConfig}]
      /\ id' \in [Procs -> Procs \cup {None}] /\ port' \in [Procs -> Ports \cup {None}]
      /\ groups' \in [Procs -> Nat]
  BY DEF ProcessTypes, Gone, Goto, Places
<1>2. missed' \in [Procs -> 0 .. MaxMissed]
  BY DaemonAssumption DEF ClockTypes, Gone
<1>3. beat' \in [Procs -> BOOLEAN]
  BY DEF ClockTypes, Gone
<1>4. owner' \in [Jobs -> Procs \cup {None}] /\ work' \in [Jobs -> Workers]
  BY DEF JobTypes, Gone, NoWork, Workers
<1>. QED
  BY <1>1, <1>2, <1>3, <1>4

-----------------------------------------------------------------------------
(* Types *)

LEMMA InitTyped == Init => TypeOK
<1>. SUFFICES ASSUME Init PROVE TypeOK
  OBVIOUS
<1>1. ProcessTypes
  BY DEF Init, ProcessTypes, Places
<1>2. row \in [pid : Procs, age : 0 .. StaleAfter] \cup {None}
      /\ missed \in [Procs -> 0 .. MaxMissed] /\ faults \in 0 .. MaxFaults
  BY DaemonAssumption DEF Init
<1>3. beat \in [Procs -> BOOLEAN]
  BY DEF Init
<1>4. JobTypes
  BY DEF Init, JobTypes, JobRows, Workers, NoJob, NoWork
<1>. QED
  BY <1>1, <1>2, <1>3, <1>4, Parts DEF ClockTypes

LEMMA StartTyped ==
    ASSUME TypeOK, NEW p \in Procs,
           \/ \E c \in Configs : Load(p, c)
           \/ Open(p) \/ SelectID(p) \/ InsertID(p) \/ ReselectID(p) \/ ApproveCmd(p)
           \/ Listen(p) \/ StartGroup(p) \/ SetDaemonInfo(p)
    PROVE  TypeOK'
<1>. ProcessTypes /\ ClockTypes /\ JobTypes /\ faults \in 0 .. MaxFaults
  BY Parts
<1>. USE DEF clockVars, jobVars
<1>1. ASSUME NEW c \in Configs, Load(p, c) PROVE TypeOK'
  BY <1>1, PartsNext DEF Load, Goto, Places, ProcessTypes, ClockTypes, JobTypes
<1>2. ASSUME Gone(p), UNCHANGED <<identity, row, job, faults>> PROVE TypeOK'
  BY <1>2, GoneTyped, PartsNext DEF ProcessTypes, ClockTypes, JobTypes
<1>3. CASE Open(p)
  <2>1. CASE Goto(p, "select") /\ UNCHANGED <<cfg, id, port, groups, beat, missed, owner, work>>
    BY <1>3, <2>1, PartsNext DEF Open, Goto, Places, ProcessTypes, ClockTypes, JobTypes
  <2>. QED
    BY <1>2, <1>3, <2>1 DEF Open
<1>4. CASE SelectID(p)
  BY <1>4, PartsNext DEF SelectID, Goto, Places, ProcessTypes, ClockTypes, JobTypes
<1>5. CASE InsertID(p)
  BY <1>5, PartsNext DEF InsertID, Goto, Places, ProcessTypes, ClockTypes, JobTypes
<1>6. CASE ReselectID(p)
  <2>1. ProcessTypes'
    BY <1>6 DEF ReselectID, Statement, Goto, Places, ProcessTypes
  <2>2. faults' \in 0 .. MaxFaults
    BY <1>6, DaemonAssumption DEF ReselectID, Statement
  <2>. QED
    BY <1>6, <2>1, <2>2, PartsNext DEF ReselectID, ClockTypes, JobTypes
<1>7. CASE ApproveCmd(p)
  BY <1>2, <1>7 DEF ApproveCmd
<1>8. CASE Listen(p)
  <2>1. cfg[p].listen \in Ports \cup {None}
    <3>1. ASSUME NEW c \in Configs PROVE c.listen \in Ports
      BY DEF Ports
    <3>2. NoConfig.listen = None
      BY DEF NoConfig
    <3>3. cfg[p] \in Configs \/ cfg[p] = NoConfig
      BY DEF ProcessTypes
    <3>. QED
      BY <3>1, <3>2, <3>3
  <2>2. port' \in [Procs -> Ports \cup {None}] /\ pc' \in [Procs -> Places]
    BY <1>8, <2>1 DEF Listen, Goto, Places, ProcessTypes
  <2>. QED
    BY <1>8, <2>2, PartsNext DEF Listen, ProcessTypes, ClockTypes, JobTypes
<1>9. CASE StartGroup(p)
  <2>1. groups' \in [Procs -> Nat]
    BY <1>9 DEF StartGroup, ProcessTypes
  <2>2. pc' \in [Procs -> Places]
    BY <1>9 DEF StartGroup, Goto, Places, ProcessTypes
  <2>. QED
    BY <1>9, <2>1, <2>2, PartsNext DEF StartGroup, ProcessTypes, ClockTypes, JobTypes
<1>10. CASE SetDaemonInfo(p)
  <2>1. ProcessTypes'
    BY <1>10 DEF SetDaemonInfo, Goto, Places, ProcessTypes
  <2>2. row' \in [pid : Procs, age : 0 .. StaleAfter] \cup {None} /\ faults' \in 0 .. MaxFaults
    BY <1>10, DaemonAssumption DEF SetDaemonInfo, Statement, ClockTypes
  <2>3. beat' \in [Procs -> BOOLEAN] /\ missed' \in [Procs -> 0 .. MaxMissed]
    BY <1>10 DEF SetDaemonInfo, ClockTypes
  <2>. QED
    BY <1>10, <2>1, <2>2, <2>3, PartsNext DEF SetDaemonInfo, ClockTypes, JobTypes
<1>. QED
  BY <1>1, <1>3, <1>4, <1>5, <1>6, <1>7, <1>8, <1>9, <1>10

LEMMA RunTyped ==
    ASSUME TypeOK, NEW p \in Procs,
           Heartbeat(p) \/ Signal(p) \/ Kill(p) \/ Close(p) \/ ClearDaemonInfo(p)
    PROVE  TypeOK'
<1>. ProcessTypes /\ ClockTypes /\ JobTypes /\ faults \in 0 .. MaxFaults
  BY Parts
<1>. USE DEF clockVars, jobVars, processVars
<1>1. CASE Heartbeat(p)
  <2>1. row' \in [pid : Procs, age : 0 .. StaleAfter] \cup {None}
    BY <1>1, DaemonAssumption DEF Heartbeat, ClockTypes
  <2>2. beat' \in [Procs -> BOOLEAN]
    BY <1>1 DEF Heartbeat, ClockTypes
  <2>3. missed' \in [Procs -> 0 .. MaxMissed]
    BY <1>1, DaemonAssumption DEF Heartbeat, ClockTypes
  <2>. QED
    BY <1>1, <2>1, <2>2, <2>3, PartsNext DEF Heartbeat, ProcessTypes, ClockTypes, JobTypes
<1>2. CASE Signal(p)
  BY <1>2, PartsNext DEF Signal, Goto, Places, ProcessTypes, ClockTypes, JobTypes
<1>3. CASE Kill(p)
  BY <1>3, GoneTyped, PartsNext DEF Kill, ProcessTypes, ClockTypes, JobTypes
<1>4. CASE Close(p)
  <2>1. CASE groups[p] = 0
    BY <1>4, <2>1, GoneTyped, PartsNext DEF Close, ProcessTypes, ClockTypes, JobTypes
  <2>2. CASE groups[p] # 0
    BY <1>4, <2>2, PartsNext DEF Close, Goto, Places, ProcessTypes, ClockTypes, JobTypes
  <2>. QED
    BY <2>1, <2>2
<1>5. CASE ClearDaemonInfo(p)
  <2>1. row' \in [pid : Procs, age : 0 .. StaleAfter] \cup {None} /\ faults' \in 0 .. MaxFaults
    BY <1>5, DaemonAssumption DEF ClearDaemonInfo, Statement, ClockTypes
  <2>. QED
    BY <1>5, <2>1, GoneTyped, PartsNext DEF ClearDaemonInfo, ProcessTypes, ClockTypes, JobTypes
<1>. QED
  BY <1>1, <1>2, <1>3, <1>4, <1>5

LEMMA TransferTyped ==
    ASSUME TypeOK, NEW j \in Jobs,
           \/ Transfer(j)
           \/ \E p \in Procs, d \in {"send", "receive"}, n \in Sizes, m \in Sizes :
                StartSyncJob(p, j, d, n, m)
    PROVE  TypeOK'
<1>. ProcessTypes /\ ClockTypes /\ JobTypes /\ faults \in 0 .. MaxFaults
  BY Parts
<1>. USE DEF clockVars, jobVars, processVars
<1>1. ASSUME NEW p \in Procs, NEW d \in {"send", "receive"}, NEW n \in Sizes, NEW m \in Sizes,
             StartSyncJob(p, j, d, n, m)
      PROVE  TypeOK'
  <2>1. n \in Nat /\ m \in Nat
    BY DaemonAssumption
  <2>2. JobTypes'
    BY <1>1, <2>1 DEF StartSyncJob, JobTypes, JobRows, Workers
  <2>. QED
    BY <1>1, <2>2, PartsNext DEF StartSyncJob, ProcessTypes, ClockTypes
<1>2. CASE MoveFile(j)
  <2>1. JobTypes'
    BY <1>2 DEF MoveFile, JobTypes, Workers
  <2>. QED
    BY <1>2, <2>1, PartsNext DEF MoveFile, ProcessTypes, ClockTypes
<1>3. CASE UpdateSyncJob(j)
  <2>1. JobTypes'
    <3>. DEFINE r == [job[j] EXCEPT !.done = work[j].moved]
    <3>0. r \in JobRows
      BY DEF JobTypes, JobRows, Workers
    <3>1. job' \in [Jobs -> JobRows]
      <4>1. job' = [job EXCEPT ![j] = r] \/ UNCHANGED job
        BY <1>3 DEF UpdateSyncJob, Statement
      <4>. HIDE DEF r
      <4>. QED
        BY <3>0, <4>1 DEF JobTypes
    <3>2. work' \in [Jobs -> Workers]
      BY <1>3 DEF UpdateSyncJob, JobTypes, Workers
    <3>. QED
      BY <1>3, <3>1, <3>2 DEF UpdateSyncJob, JobTypes
  <2>2. faults' \in 0 .. MaxFaults
    BY <1>3, DaemonAssumption DEF UpdateSyncJob, Statement
  <2>. QED
    BY <1>3, <2>1, <2>2, PartsNext DEF UpdateSyncJob, ProcessTypes, ClockTypes
<1>4. CASE FinishSyncJob(j)
  <2>0. PICK status \in {"completed", "failed"} :
            Statement(job' = [job EXCEPT ![j].status = status], UNCHANGED job)
    BY <1>4 DEF FinishSyncJob
  <2>1. JobTypes'
    <3>. DEFINE r == [job[j] EXCEPT !.status = status]
    <3>0. r \in JobRows
      BY DEF JobTypes, JobRows
    <3>1. job' \in [Jobs -> JobRows]
      <4>1. job' = [job EXCEPT ![j] = r] \/ UNCHANGED job
        BY <2>0 DEF Statement
      <4>. HIDE DEF r
      <4>. QED
        BY <3>0, <4>1 DEF JobTypes
    <3>2. work' \in [Jobs -> Workers]
      BY <1>4 DEF FinishSyncJob, NoWork, JobTypes, Workers
    <3>. QED
      BY <1>4, <3>1, <3>2 DEF FinishSyncJob, JobTypes
  <2>2. faults' \in 0 .. MaxFaults
    BY <1>4, DaemonAssumption DEF FinishSyncJob, Statement
  <2>. QED
    BY <1>4, <2>1, <2>2, PartsNext DEF FinishSyncJob, ProcessTypes, ClockTypes
<1>. QED
  BY <1>1, <1>2, <1>3, <1>4 DEF Transfer

LEMMA TickTyped == ASSUME TypeOK, Tick PROVE TypeOK'
<1>. ProcessTypes /\ ClockTypes /\ JobTypes /\ faults \in 0 .. MaxFaults
  BY Parts
<1>1. row' \in [pid : Procs, age : 0 .. StaleAfter] \cup {None}
  BY DaemonAssumption DEF Tick, ClockTypes
<1>2. beat' \in [Procs -> BOOLEAN]
  BY DEF Tick
<1>. QED
  BY <1>1, <1>2, PartsNext DEF Tick, processVars, jobVars, ProcessTypes, ClockTypes, JobTypes

LEMMA NextTyped == TypeOK /\ [Next]_vars => TypeOK'
<1>. SUFFICES ASSUME TypeOK, [Next]_vars PROVE TypeOK'
  OBVIOUS
<1>1. CASE UNCHANGED vars
  BY <1>1 DEF vars, processVars, clockVars, jobVars, TypeOK
<1>. QED
  BY <1>1, StartTyped, RunTyped, TransferTyped, TickTyped DEF Next, Main

(***************************************************************************)
(* The tables local_identity, daemon_info and sync_jobs, and every process *)
(* that uses them, stay well typed.                                        *)
(***************************************************************************)
THEOREM TypeCorrect == Spec => []TypeOK
  BY InitTyped, NextTyped, PTL DEF Spec

LEMMA FaultsNat == TypeOK => faults \in Nat
  BY Parts, DaemonAssumption

\* A statement that has failed is not forgotten.
LEMMA FaultsGrow == TypeOK /\ [Next]_vars /\ faults' = 0 => faults = 0
<1>. SUFFICES ASSUME TypeOK, [Next]_vars PROVE faults' = faults \/ faults' = faults + 1
  BY FaultsNat
<1>. USE DEF Statement
<1>1. ASSUME NEW p \in Procs, NEW c \in Configs, Load(p, c) PROVE faults' = faults
  BY <1>1 DEF Load
<1>2. ASSUME NEW p \in Procs, Main(p) PROVE faults' = faults \/ faults' = faults + 1
  <2>1. CASE Open(p) \/ SelectID(p) \/ InsertID(p) \/ Listen(p) \/ StartGroup(p) \/ Close(p)
    BY <2>1 DEF Open, SelectID, InsertID, Listen, StartGroup, Close
  <2>2. CASE ReselectID(p) \/ SetDaemonInfo(p) \/ ClearDaemonInfo(p)
    BY <2>2 DEF ReselectID, SetDaemonInfo, ClearDaemonInfo
  <2>. QED
    BY <1>2, <2>1, <2>2 DEF Main
<1>3. ASSUME NEW p \in Procs, ApproveCmd(p) \/ Heartbeat(p) \/ Signal(p) \/ Kill(p)
      PROVE  faults' = faults
  BY <1>3 DEF ApproveCmd, Heartbeat, Signal, Kill
<1>4. ASSUME NEW p \in Procs, NEW j \in Jobs, NEW d \in {"send", "receive"}, NEW n \in Sizes,
             NEW m \in Sizes, StartSyncJob(p, j, d, n, m)
      PROVE  faults' = faults
  BY <1>4 DEF StartSyncJob
<1>5. ASSUME NEW j \in Jobs, Transfer(j) PROVE faults' = faults \/ faults' = faults + 1
  BY <1>5 DEF Transfer, MoveFile, UpdateSyncJob, FinishSyncJob
<1>6. CASE Tick \/ UNCHANGED vars
  BY <1>6 DEF Tick, vars
<1>. QED
  BY <1>1, <1>2, <1>3, <1>4, <1>5, <1>6 DEF Next

-----------------------------------------------------------------------------
(* One identity *)

\* GetOrCreatePeerID has returned.
Named == {"ready", "starting", "running", "closing", "clearing"}

IdentityInv ==
    \A p \in Procs :
        /\ pc[p] = "insert" => id[p] = p
        /\ pc[p] \in Named \cup {"reselect"} => identity # None
        /\ faults = 0 /\ pc[p] \in Named => id[p] = identity

\* A step in which nobody learns an ID.
LEMMA NobodyNamed ==
    ASSUME IdentityInv, identity' = identity, faults' = 0 => faults = 0,
           \A q \in Procs :
               \/ pc'[q] \notin Named \cup {"insert", "reselect"}
               \/ id'[q] = id[q] /\ (pc'[q] = pc[q] \/ (pc[q] \in Named /\ pc'[q] \in Named))
    PROVE  IdentityInv'
  BY DEF IdentityInv, Named

LEMMA NextKeepsIdentity == TypeOK /\ IdentityInv /\ [Next]_vars => IdentityInv'
<1>. SUFFICES ASSUME TypeOK, IdentityInv, [Next]_vars PROVE IdentityInv'
  OBVIOUS
<1>0. faults' = 0 => faults = 0
  BY FaultsGrow
<1>. USE DEF clockVars, jobVars, processVars
<1>1. ASSUME NEW p \in Procs, Gone(p), identity' = identity PROVE IdentityInv'
  BY <1>0, <1>1, GoneFrame, NobodyNamed DEF Named
<1>2. ASSUME NEW p \in Procs, NEW l \in Places, Goto(p, l), UNCHANGED <<id, identity>>,
             l \in Named => pc[p] \in Named, l \notin {"insert", "reselect"}
      PROVE  IdentityInv'
  BY <1>0, <1>2, GotoFrame, NobodyNamed
<1>3. ASSUME NEW p \in Procs, NEW c \in Configs, Load(p, c) PROVE IdentityInv'
  BY <1>2, <1>3 DEF Load, Named, Places
<1>4. ASSUME NEW p \in Procs, Open(p) PROVE IdentityInv'
  BY <1>1, <1>2, <1>4 DEF Open, Named, Places
<1>5. ASSUME NEW p \in Procs, SelectID(p) PROVE IdentityInv'
  <2>1. /\ pc'[p] \in {"ready", "insert"} /\ identity' = identity
        /\ \A q \in Procs \ {p} : pc'[q] = pc[q] /\ id'[q] = id[q]
        /\ pc'[p] = "ready" => identity # None /\ id'[p] = identity
        /\ pc'[p] = "insert" => id'[p] = p
    BY <1>5 DEF SelectID, Goto, TypeOK
  <2>. QED
    BY <1>0, <2>1 DEF IdentityInv, Named
<1>6. ASSUME NEW p \in Procs, InsertID(p) PROVE IdentityInv'
  <2>1. /\ pc[p] = "insert" /\ pc'[p] = "reselect" /\ id' = id
        /\ \A q \in Procs \ {p} : pc'[q] = pc[q]
        /\ identity' = IF identity = None THEN id[p] ELSE identity
    BY <1>6 DEF InsertID, Goto, TypeOK
  <2>2. id[p] = p /\ p # None
    BY <2>1, DaemonAssumption DEF IdentityInv
  <2>. QED
    BY <1>0, <2>1, <2>2 DEF IdentityInv, Named
<1>7. ASSUME NEW p \in Procs, ReselectID(p) PROVE IdentityInv'
  <2>1. /\ pc[p] = "reselect" /\ pc'[p] = "ready" /\ identity' = identity
        /\ \A q \in Procs \ {p} : pc'[q] = pc[q] /\ id'[q] = id[q]
        /\ id'[p] = identity \/ faults' = faults + 1
    BY <1>7 DEF ReselectID, Statement, Goto, TypeOK
  <2>2. faults' = faults + 1 => faults' # 0
    BY FaultsNat
  <2>. QED
    BY <1>0, <2>1, <2>2 DEF IdentityInv, Named
<1>8. ASSUME NEW p \in Procs, Listen(p) \/ StartGroup(p) \/ SetDaemonInfo(p) \/ Signal(p)
      PROVE  IdentityInv'
  <2>1. UNCHANGED <<id, identity>> /\ pc[p] \in Named
    BY <1>8 DEF Listen, StartGroup, SetDaemonInfo, Signal, Running, Named
  <2>2. (\E l \in Named : Goto(p, l)) \/ pc' = pc
    BY <1>8 DEF Listen, StartGroup, SetDaemonInfo, Signal, Named
  <2>3. CASE pc' = pc
    BY <1>0, <2>1, <2>3, NobodyNamed
  <2>. QED
    BY <1>2, <2>1, <2>2, <2>3 DEF Named, Places
<1>9. ASSUME NEW p \in Procs, ApproveCmd(p) \/ Kill(p) \/ ClearDaemonInfo(p) PROVE IdentityInv'
  BY <1>1, <1>9 DEF ApproveCmd, Kill, ClearDaemonInfo
<1>10. ASSUME NEW p \in Procs, Close(p) PROVE IdentityInv'
  BY <1>1, <1>2, <1>10 DEF Close, Named, Places
<1>11. ASSUME UNCHANGED <<pc, id, identity>> PROVE IdentityInv'
  BY <1>0, <1>11, NobodyNamed
<1>12. ASSUME NEW p \in Procs, Heartbeat(p) PROVE UNCHANGED <<pc, id, identity>>
  BY <1>12 DEF Heartbeat
<1>13. ASSUME NEW p \in Procs, NEW j \in Jobs, NEW d \in {"send", "receive"}, NEW n \in Sizes,
              NEW m \in Sizes, StartSyncJob(p, j, d, n, m)
       PROVE  UNCHANGED <<pc, id, identity>>
  BY <1>13 DEF StartSyncJob
<1>14. ASSUME NEW j \in Jobs, Transfer(j) PROVE UNCHANGED <<pc, id, identity>>
  BY <1>14 DEF Transfer, MoveFile, UpdateSyncJob, FinishSyncJob
<1>15. ASSUME Tick \/ UNCHANGED vars PROVE UNCHANGED <<pc, id, identity>>
  BY <1>15 DEF Tick, vars
<1>. QED
  BY <1>3, <1>4, <1>5, <1>6, <1>7, <1>8, <1>9, <1>10, <1>11, <1>12, <1>13, <1>14, <1>15
     DEF Next, Main

(***************************************************************************)
(* However many processes are the first on a data_dir, and whichever of    *)
(* them inserts its ID first (GetOrCreatePeerID), all that get through use *)
(* the one ID that local_identity keeps.                                   *)
(***************************************************************************)
THEOREM IdentityIsShared == Spec => []OneIdentity
<1>1. Init => IdentityInv
  BY DEF Init, IdentityInv, Named
<1>2. TypeOK /\ IdentityInv => OneIdentity
  BY DEF OneIdentity, IdentityInv, TypeOK, Alive, Places, Named
<1>. QED
  BY <1>1, <1>2, NextKeepsIdentity, TypeCorrect, PTL DEF Spec

-----------------------------------------------------------------------------
(* The groups of a daemon *)

\* A process goes by a configuration that Validate has accepted, and runs when
\* all its groups are started.
GroupsInv ==
    \A p \in Procs :
        /\ pc[p] # "off" => cfg[p] \in Configs /\ Validate(cfg[p])
        /\ pc[p] = "running" => groups[p] = Len(cfg[p].syncs)

\* A step of p after which p is not newly running.
LEMMA GroupsUntouched ==
    ASSUME GroupsInv, NEW p \in Procs,
           \A q \in Procs \ {p} : pc'[q] = pc[q] /\ cfg'[q] = cfg[q] /\ groups'[q] = groups[q],
           pc'[p] # "off" => pc[p] # "off" /\ cfg'[p] = cfg[p],
           pc'[p] = "running" => pc[p] = "running" /\ groups'[p] = groups[p]
    PROVE  GroupsInv'
  BY DEF GroupsInv

LEMMA NextKeepsGroups == TypeOK /\ GroupsInv /\ [Next]_vars => GroupsInv'
<1>. SUFFICES ASSUME TypeOK, GroupsInv, [Next]_vars PROVE GroupsInv'
  OBVIOUS
<1>. USE DEF clockVars, jobVars, processVars
<1>1. ASSUME NEW p \in Procs, Gone(p) PROVE GroupsInv'
  BY <1>1, GoneFrame, GroupsUntouched
<1>2. ASSUME NEW p \in Procs, pc[p] # "off", NEW l \in Places \ {"off", "running"}, Goto(p, l),
             UNCHANGED <<cfg, groups>>
      PROVE  GroupsInv'
  BY <1>2, GotoFrame, GroupsUntouched
<1>3. ASSUME NEW p \in Procs, NEW c \in Configs, Load(p, c) PROVE GroupsInv'
  <2>1. CASE Validate(c)
    <3>1. pc'[p] = "read" /\ \A q \in Procs \ {p} : pc'[q] = pc[q]
      BY <1>3, <2>1 DEF Load, Goto, TypeOK
    <3>2. cfg'[p] = c /\ \A q \in Procs \ {p} : cfg'[q] = cfg[q]
      BY <1>3, <2>1 DEF Load, TypeOK
    <3>. QED
      BY <1>3, <2>1, <3>1, <3>2 DEF GroupsInv, Load
  <2>2. CASE ~Validate(c)
    <3>1. pc'[p] = "off" /\ \A q \in Procs \ {p} : pc'[q] = pc[q] /\ cfg'[q] = cfg[q]
      BY <1>3, <2>2 DEF Load, Goto, TypeOK
    <3>. QED
      BY <1>3, <3>1, GroupsUntouched DEF Load
  <2>. QED
    BY <2>1, <2>2
<1>4. ASSUME NEW p \in Procs, Open(p) PROVE GroupsInv'
  BY <1>1, <1>2, <1>4 DEF Open, Places
<1>5. ASSUME NEW p \in Procs,
             SelectID(p) \/ InsertID(p) \/ ReselectID(p) \/ Listen(p) \/ Signal(p)
      PROVE  GroupsInv'
  BY <1>2, <1>5 DEF SelectID, InsertID, ReselectID, Listen, Signal, Running, Places
<1>6. ASSUME NEW p \in Procs, StartGroup(p) PROVE GroupsInv'
  <2>1. /\ pc[p] = "starting" /\ pc'[p] \in {"starting", "closing"} /\ cfg' = cfg
        /\ \A q \in Procs \ {p} : pc'[q] = pc[q] /\ groups'[q] = groups[q]
    BY <1>6 DEF StartGroup, Goto, TypeOK
  <2>. QED
    BY <2>1, GroupsUntouched
<1>7. ASSUME NEW p \in Procs, SetDaemonInfo(p) PROVE GroupsInv'
  <2>1. /\ pc[p] = "starting" /\ groups[p] = Len(cfg[p].syncs)
        /\ pc'[p] = "running" /\ \A q \in Procs \ {p} : pc'[q] = pc[q]
    BY <1>7 DEF SetDaemonInfo, Goto, TypeOK
  <2>2. cfg' = cfg /\ groups' = groups
    BY <1>7 DEF SetDaemonInfo
  <2>. QED
    BY <2>1, <2>2 DEF GroupsInv
<1>8. ASSUME NEW p \in Procs, Close(p) PROVE GroupsInv'
  BY <1>1, <1>2, <1>8 DEF Close, Places
<1>9. ASSUME NEW p \in Procs, ApproveCmd(p) \/ Kill(p) \/ ClearDaemonInfo(p) PROVE GroupsInv'
  BY <1>1, <1>9 DEF ApproveCmd, Kill, ClearDaemonInfo
<1>10. ASSUME UNCHANGED processVars PROVE GroupsInv'
  BY <1>10 DEF GroupsInv
<1>11. ASSUME NEW p \in Procs, Heartbeat(p) PROVE UNCHANGED processVars
  BY <1>11 DEF Heartbeat
<1>12. ASSUME NEW p \in Procs, NEW j \in Jobs, NEW d \in {"send", "receive"}, NEW n \in Sizes,
              NEW m \in Sizes, StartSyncJob(p, j, d, n, m)
       PROVE  UNCHANGED processVars
  BY <1>12 DEF StartSyncJob
<1>13. ASSUME NEW j \in Jobs, Transfer(j) PROVE UNCHANGED processVars
  BY <1>13 DEF Transfer, MoveFile, UpdateSyncJob, FinishSyncJob
<1>14. ASSUME Tick \/ UNCHANGED vars PROVE UNCHANGED processVars
  BY <1>14 DEF Tick, vars
<1>. QED
  BY <1>3, <1>4, <1>5, <1>6, <1>7, <1>8, <1>9, <1>10, <1>11, <1>12, <1>13, <1>14 DEF Next, Main

LEMMA GroupsInvariance == Spec => []GroupsInv
<1>1. Init => GroupsInv
  BY DEF Init, GroupsInv
<1>. QED
  BY <1>1, NextKeepsGroups, TypeCorrect, PTL DEF Spec

(***************************************************************************)
(* A running daemon's every group is what FindGroup returns for its name,  *)
(* for any configuration that Validate accepts.                            *)
(***************************************************************************)
THEOREM GroupsAreFound == Spec => []GroupsReachable
<1>1. GroupsInv => GroupsReachable
  <2>. SUFFICES ASSUME GroupsInv, NEW p \in Procs, pc[p] = "running", NEW i \in DOMAIN cfg[p].syncs
                PROVE  FindGroup(p, cfg[p].syncs[i].name) = {i}
    BY DEF GroupsReachable, Running
  <2>1. cfg[p] \in Configs /\ NamesDiffer(cfg[p]) /\ groups[p] = Len(cfg[p].syncs)
    BY DEF GroupsInv, Validate
  <2>2. DOMAIN cfg[p].syncs = 1 .. groups[p] /\ groups[p] \in Nat
    BY <2>1, ConfigsAssumption
  <2>3. \A k \in 1 .. groups[p] : cfg[p].syncs[k].name = cfg[p].syncs[i].name => k = i
    BY <2>1, <2>2 DEF NamesDiffer
  <2>4. \A k \in (i + 1) .. groups[p] : k \in 1 .. groups[p] /\ k # i
    BY <2>2
  <2>. QED
    BY <2>2, <2>3, <2>4 DEF FindGroup
<1>. QED
  BY <1>1, GroupsInvariance, PTL

-----------------------------------------------------------------------------
(* The ports and the row of daemon_info *)

\* App.Start has not been called.
NotStarted == {"off", "read", "select", "insert", "reselect", "ready"}

\* Who has started groups listens, until Close.
Listening(p) == pc[p] \in {"starting", "running"} \/ (pc[p] = "closing" /\ groups[p] # 0)

\* No two daemons listen on one port, and whoever is about to write or to clear
\* the row has started groups.
PortInv ==
    \A p \in Procs :
        /\ pc[p] \in NotStarted => groups[p] = 0
        /\ Listening(p) => port[p] # None
        /\ pc[p] = "clearing" => port[p] = None /\ groups[p] # 0
        /\ \A q \in Procs \ {p} : port[p] # None => port[q] # port[p]

\* A running daemon's row is no older than its last heartbeat that succeeded.
RowInv ==
    faults = 0 =>
        \A p \in Procs : pc[p] = "running" /\ row # None /\ row.pid = p =>
            row.age <= missed[p] + 1 /\ (beat[p] => row.age <= missed[p])

LEMMA NextKeepsPort == TypeOK /\ GroupsInv /\ PortInv /\ [Next]_vars => PortInv'
<1>. SUFFICES ASSUME TypeOK, GroupsInv, PortInv, [Next]_vars PROVE PortInv'
  OBVIOUS
<1>. USE DEF clockVars, jobVars, processVars
<1>0. port \in [Procs -> Ports \cup {None}]
  BY Parts DEF ProcessTypes
<1>1. ASSUME NEW p \in Procs, Gone(p) PROVE PortInv'
  BY <1>0, <1>1, GoneFrame DEF PortInv, NotStarted, Listening
<1>2. ASSUME NEW p \in Procs, pc[p] \in NotStarted, NEW l \in NotStarted, Goto(p, l),
             UNCHANGED <<port, groups>>
      PROVE  PortInv'
  BY <1>2, GotoFrame DEF PortInv, NotStarted, Places, Listening
<1>3. ASSUME NEW p \in Procs, NEW c \in Configs, Load(p, c) PROVE PortInv'
  BY <1>2, <1>3 DEF Load, NotStarted
<1>4. ASSUME NEW p \in Procs, Open(p) PROVE PortInv'
  BY <1>1, <1>2, <1>4 DEF Open, NotStarted
<1>5. ASSUME NEW p \in Procs, SelectID(p) \/ InsertID(p) \/ ReselectID(p) PROVE PortInv'
  BY <1>2, <1>5 DEF SelectID, InsertID, ReselectID, NotStarted
<1>6. ASSUME NEW p \in Procs, Listen(p) PROVE PortInv'
  <2>1. pc[p] = "ready" /\ groups[p] = 0 /\ groups' = groups
    BY <1>6 DEF Listen, PortInv, NotStarted
  <2>2. CASE /\ \A q \in Procs : port[q] # cfg[p].listen
             /\ port' = [port EXCEPT ![p] = cfg[p].listen] /\ Goto(p, "starting")
    <3>1. pc'[p] = "starting" /\ \A q \in Procs \ {p} : pc'[q] = pc[q]
      BY <2>2, GotoFrame DEF Places
    <3>2. cfg[p].listen # None
      BY <2>1, ConfigsAssumption DEF GroupsInv
    <3>3. port'[p] = cfg[p].listen /\ \A q \in Procs \ {p} : port'[q] = port[q]
      BY <1>0, <2>2
    <3>. QED
      BY <2>1, <2>2, <3>1, <3>2, <3>3 DEF PortInv, NotStarted, Listening
  <2>3. CASE port' = port /\ Goto(p, "closing")
    <3>1. pc'[p] = "closing" /\ \A q \in Procs \ {p} : pc'[q] = pc[q]
      BY <2>3, GotoFrame DEF Places
    <3>. QED
      BY <2>1, <2>3, <3>1 DEF PortInv, NotStarted, Listening
  <2>. QED
    BY <1>6, <2>2, <2>3 DEF Listen
<1>7. ASSUME NEW p \in Procs, StartGroup(p) \/ SetDaemonInfo(p) \/ Signal(p) PROVE PortInv'
  <2>1. /\ pc[p] \in {"starting", "running"} /\ port' = port
        /\ \A q \in Procs \ {p} : pc'[q] = pc[q] /\ groups'[q] = groups[q]
    BY <1>7 DEF StartGroup, SetDaemonInfo, Signal, Running, Goto, TypeOK
  <2>2. pc'[p] \in {"starting", "running", "closing"}
    BY <1>7 DEF StartGroup, SetDaemonInfo, Signal, Goto, TypeOK
  <2>. QED
    BY <2>1, <2>2 DEF PortInv, NotStarted, Listening
<1>8. ASSUME NEW p \in Procs, Close(p) PROVE PortInv'
  <2>1. CASE groups[p] = 0
    BY <1>1, <1>8, <2>1 DEF Close
  <2>2. CASE groups[p] # 0
    <3>1. pc[p] = "closing" /\ port' = [port EXCEPT ![p] = None] /\ groups' = groups
      BY <1>8, <2>2 DEF Close
    <3>2. pc'[p] = "clearing" /\ \A q \in Procs \ {p} : pc'[q] = pc[q]
      BY <1>8, <2>2 DEF Close, Goto, TypeOK
    <3>. QED
      BY <1>0, <2>2, <3>1, <3>2 DEF PortInv, NotStarted, Listening
  <2>. QED
    BY <2>1, <2>2
<1>9. ASSUME NEW p \in Procs, ApproveCmd(p) \/ Kill(p) \/ ClearDaemonInfo(p) PROVE PortInv'
  BY <1>1, <1>9 DEF ApproveCmd, Kill, ClearDaemonInfo
<1>10. ASSUME UNCHANGED processVars PROVE PortInv'
  BY <1>10 DEF PortInv, Listening
<1>11. ASSUME NEW p \in Procs, Heartbeat(p) PROVE UNCHANGED processVars
  BY <1>11 DEF Heartbeat
<1>12. ASSUME NEW p \in Procs, NEW j \in Jobs, NEW d \in {"send", "receive"}, NEW n \in Sizes,
              NEW m \in Sizes, StartSyncJob(p, j, d, n, m)
       PROVE  UNCHANGED processVars
  BY <1>12 DEF StartSyncJob
<1>13. ASSUME NEW j \in Jobs, Transfer(j) PROVE UNCHANGED processVars
  BY <1>13 DEF Transfer, MoveFile, UpdateSyncJob, FinishSyncJob
<1>14. ASSUME Tick \/ UNCHANGED vars PROVE UNCHANGED processVars
  BY <1>14 DEF Tick, vars
<1>. QED
  BY <1>3, <1>4, <1>5, <1>6, <1>7, <1>8, <1>9, <1>10, <1>11, <1>12, <1>13, <1>14 DEF Next, Main

LEMMA RowIsNotNone ==
    ASSUME NEW p \in Procs, NEW n \in 0 .. StaleAfter PROVE [pid |-> p, age |-> n] # None
  BY DaemonAssumption

\* A step that writes neither the row nor a daemon's heartbeats.
LEMMA RowUntouched ==
    ASSUME RowInv, faults' = 0 => faults = 0, row' = row,
           \A q \in Procs : pc'[q] = "running" =>
               pc[q] = "running" /\ beat'[q] = beat[q] /\ missed'[q] = missed[q]
    PROVE  RowInv'
  BY DEF RowInv

LEMMA NextKeepsRow == TypeOK /\ RowInv /\ [Next]_vars => RowInv'
<1>. SUFFICES ASSUME TypeOK, RowInv, [Next]_vars PROVE RowInv'
  OBVIOUS
<1>0. faults' = 0 => faults = 0
  BY FaultsGrow
<1>. USE DEF clockVars, jobVars, processVars
<1>1. ASSUME NEW p \in Procs, Gone(p), row' = row PROVE RowInv'
  BY <1>0, <1>1, GoneFrame, RowUntouched
<1>2. ASSUME NEW p \in Procs, NEW l \in Places \ {"running"}, Goto(p, l),
             UNCHANGED <<row, beat, missed>>
      PROVE  RowInv'
  BY <1>0, <1>2, GotoFrame, RowUntouched
<1>3. ASSUME UNCHANGED <<pc, row, beat, missed>> PROVE RowInv'
  BY <1>0, <1>3, RowUntouched
<1>4. ASSUME NEW p \in Procs, NEW c \in Configs, Load(p, c) PROVE RowInv'
  BY <1>2, <1>4 DEF Load, Places
<1>5. ASSUME NEW p \in Procs, Open(p) \/ Close(p) PROVE RowInv'
  BY <1>1, <1>2, <1>5 DEF Open, Close, Places
<1>6. ASSUME NEW p \in Procs,
             SelectID(p) \/ InsertID(p) \/ ReselectID(p) \/ Listen(p) \/ Signal(p)
      PROVE  RowInv'
  BY <1>2, <1>6 DEF SelectID, InsertID, ReselectID, Listen, Signal, Places
<1>7. ASSUME NEW p \in Procs, StartGroup(p) PROVE RowInv'
  BY <1>2, <1>3, <1>7 DEF StartGroup, Places
<1>8. ASSUME NEW p \in Procs, ApproveCmd(p) \/ Kill(p) PROVE RowInv'
  BY <1>1, <1>8 DEF ApproveCmd, Kill
<1>9. ASSUME NEW p \in Procs, SetDaemonInfo(p) PROVE RowInv'
  <2>. SUFFICES ASSUME faults' = 0, NEW q \in Procs, row'.pid = q
                PROVE  row'.age <= missed'[q] + 1 /\ (beat'[q] => row'.age <= missed'[q])
    BY DEF RowInv
  <2>1. row' = [pid |-> p, age |-> 0] /\ missed' = missed
    BY <1>9, FaultsNat DEF SetDaemonInfo, Statement
  <2>2. missed[q] \in 0 .. MaxMissed
    BY Parts DEF ClockTypes
  <2>3. row'.age = 0
    BY <2>1
  <2>. QED
    BY <2>1, <2>2, <2>3, DaemonAssumption
<1>10. ASSUME NEW p \in Procs, Heartbeat(p) PROVE RowInv'
  <2>. SUFFICES ASSUME faults' = 0, NEW q \in Procs, pc'[q] = "running", row' # None, row'.pid = q
                PROVE  row'.age <= missed'[q] + 1 /\ (beat'[q] => row'.age <= missed'[q])
    BY DEF RowInv
  <2>1. pc' = pc /\ row # None /\ \A o \in Procs \ {p} : beat'[o] = beat[o]
    BY <1>10 DEF Heartbeat, TypeOK
  <2>2. row \in [pid : Procs, age : 0 .. StaleAfter] /\ missed \in [Procs -> 0 .. MaxMissed]
    BY <2>1, Parts DEF ClockTypes
  <2>3. CASE row' = [row EXCEPT !.age = 0] /\ missed' = [missed EXCEPT ![p] = 0]
    <3>1. row'.age = 0
      BY <2>2, <2>3
    <3>2. missed'[q] \in 0 .. MaxMissed
      BY <2>2, <2>3, DaemonAssumption
    <3>. QED
      BY <3>1, <3>2, DaemonAssumption
  <2>4. CASE row' = row /\ missed' = [missed EXCEPT ![p] = @ + 1]
    <3>1. row.age <= missed[q] + 1 /\ (beat[q] => row.age <= missed[q])
      BY <1>0, <2>1, <2>4 DEF RowInv
    <3>2. CASE q = p
      <4>1. missed'[q] = missed[q] + 1
        BY <2>2, <2>4, <3>2
      <4>. QED
        BY <2>2, <2>4, <3>1, <4>1, DaemonAssumption
    <3>3. CASE q # p
      BY <2>1, <2>2, <2>4, <3>1, <3>3
    <3>. QED
      BY <3>2, <3>3
  <2>. QED
    BY <1>10, <2>1, <2>3, <2>4 DEF Heartbeat
<1>11. ASSUME Tick PROVE RowInv'
  <2>. SUFFICES ASSUME faults' = 0, NEW q \in Procs, pc'[q] = "running", row'.pid = q
                PROVE  row'.age <= missed'[q] + 1 /\ (beat'[q] => row'.age <= missed'[q])
    BY DEF RowInv
  <2>1. pc[q] = "running" /\ beat[q] /\ missed' = missed /\ beat'[q] = FALSE /\ row # None
    BY <1>11 DEF Tick, Running
  <2>2. row \in [pid : Procs, age : 0 .. StaleAfter] /\ missed \in [Procs -> 0 .. MaxMissed]
    BY <2>1, Parts DEF ClockTypes
  <2>3. row' = [pid |-> row.pid, age |-> row.age + 1]
    BY <1>11, <2>2 DEF Tick
  <2>4. row.pid = q /\ row'.age = row.age + 1
    BY <2>3
  <2>5. row.age <= missed[q]
    BY <1>0, <2>1, <2>4 DEF RowInv
  <2>. QED
    BY <2>1, <2>2, <2>4, <2>5, DaemonAssumption
<1>12. ASSUME NEW p \in Procs, ClearDaemonInfo(p) PROVE RowInv'
  <2>1. row' = None \/ row' = row
    BY <1>12 DEF ClearDaemonInfo, Statement
  <2>2. CASE row' = None
    BY <2>2 DEF RowInv
  <2>. QED
    BY <1>1, <1>12, <2>1, <2>2 DEF ClearDaemonInfo
<1>13. ASSUME NEW p \in Procs, NEW j \in Jobs, NEW d \in {"send", "receive"}, NEW n \in Sizes,
              NEW m \in Sizes, StartSyncJob(p, j, d, n, m)
       PROVE  RowInv'
  BY <1>3, <1>13 DEF StartSyncJob
<1>14. ASSUME NEW j \in Jobs, Transfer(j) PROVE RowInv'
  BY <1>3, <1>14 DEF Transfer, MoveFile, UpdateSyncJob, FinishSyncJob
<1>15. CASE UNCHANGED vars
  BY <1>3, <1>15 DEF vars
<1>. QED
  BY <1>4, <1>5, <1>6, <1>7, <1>8, <1>9, <1>10, <1>11, <1>12, <1>13, <1>14, <1>15 DEF Next, Main

\* A row of a running daemon is fresh.
RowIsFresh ==
    faults = 0 => \A p \in Running : row # None /\ row.pid = p => Reported(p)

LEMMA Freshness == TypeOK /\ RowInv => RowIsFresh
<1>. SUFFICES ASSUME TypeOK, RowInv, faults = 0, NEW p \in Procs, pc[p] = "running",
                     row # None, row.pid = p
              PROVE  Reported(p)
  BY DEF RowIsFresh, Running
<1>1. row.age <= missed[p] + 1
  BY DEF RowInv
<1>2. row \in [pid : Procs, age : 0 .. StaleAfter] /\ missed[p] \in 0 .. MaxMissed
  BY Parts DEF ClockTypes
<1>3. row.age < StaleAfter
  BY <1>1, <1>2, DaemonAssumption
<1>. QED
  BY <1>3 DEF Reported, Status

\* Who takes the row of a daemon that is running.
LEMMA RowIsTaken ==
    ASSUME TypeOK, GroupsInv, PortInv, [Next]_vars, faults' = 0, NEW p \in Procs,
           pc'[p] = "running", pc[p] = "running" => row # None /\ row.pid = p
    PROVE  \/ row' # None /\ row'.pid = p
           \/ \E q \in Procs \ {p} : Elsewhere(q, p)
<1>. DEFINE Kept == row' # None /\ row'.pid = p
            Taken == \E q \in Procs \ {p} : Elsewhere(q, p)
<1>. SUFFICES Kept \/ Taken
  OBVIOUS
<1>. USE DEF clockVars, jobVars, processVars
<1>1. ASSUME row' = row, pc[p] = "running" PROVE Kept
  BY <1>1
<1>2. ASSUME NEW q \in Procs, SetDaemonInfo(q) PROVE Kept \/ Taken
  <2>1. row' = [pid |-> q, age |-> 0]
    BY <1>2, FaultsNat DEF SetDaemonInfo, Statement
  <2>2. CASE q = p
    BY <2>1, <2>2, RowIsNotNone, DaemonAssumption
  <2>3. CASE q # p
    <3>1. /\ pc[q] = "starting" /\ pc'[q] = "running" /\ pc[p] = "running"
          /\ groups[q] = Len(cfg[q].syncs)
      BY <1>2, <2>3 DEF SetDaemonInfo, Goto, TypeOK
    <3>2. groups[q] > 0
      <4>1. cfg[q] \in Configs /\ cfg[q].syncs # <<>>
        BY <3>1 DEF GroupsInv, Validate
      <4>. QED
        BY <3>1, <4>1, ConfigsAssumption
    <3>3. port[q] # port[p]
      BY <2>3, <3>1 DEF PortInv, Listening
    <3>. QED
      BY <2>3, <3>1, <3>2, <3>3 DEF Elsewhere
  <2>. QED
    BY <2>2, <2>3
<1>3. ASSUME NEW q \in Procs, ClearDaemonInfo(q) PROVE Kept \/ Taken
  <2>1. pc[q] = "clearing" /\ pc'[q] = "off" /\ pc[p] = "running" /\ q # p
    BY <1>3, GoneFrame DEF ClearDaemonInfo
  <2>2. groups[q] > 0
    <3>1. groups[q] # 0
      BY <2>1 DEF PortInv
    <3>2. groups[q] \in Nat
      BY Parts DEF ProcessTypes
    <3>. QED
      BY <3>1, <3>2
  <2>3. port[q] # port[p]
    BY <2>1 DEF PortInv, Listening
  <2>. QED
    BY <2>1, <2>2, <2>3 DEF Elsewhere
<1>4. ASSUME NEW q \in Procs, Heartbeat(q) PROVE Kept
  <2>1. pc' = pc
    BY <1>4 DEF Heartbeat
  <2>2. row \in [pid : Procs, age : 0 .. StaleAfter] /\ row.pid = p /\ row # None
    BY <2>1, Parts DEF ClockTypes
  <2>3. CASE row' = [row EXCEPT !.age = 0]
    <3>1. row' = [pid |-> p, age |-> 0]
      BY <2>2, <2>3
    <3>. QED
      BY <3>1, RowIsNotNone, DaemonAssumption
  <2>. QED
    BY <1>4, <2>2, <2>3 DEF Heartbeat
<1>5. ASSUME Tick PROVE Kept
  <2>1. pc' = pc
    BY <1>5 DEF Tick
  <2>2. row \in [pid : Procs, age : 0 .. StaleAfter] /\ row.pid = p /\ row.age < StaleAfter
    BY <1>5, <2>1, Parts DEF ClockTypes, Tick
  <2>3. row' = [pid |-> p, age |-> row.age + 1]
    BY <1>5, <2>2 DEF Tick
  <2>4. row.age + 1 \in 0 .. StaleAfter
    BY <2>2, DaemonAssumption
  <2>. QED
    BY <2>3, <2>4, RowIsNotNone
<1>6. ASSUME NEW q \in Procs, NEW c \in Configs, Load(q, c) PROVE Kept
  BY <1>1, <1>6 DEF Load, Goto, TypeOK
<1>7. ASSUME NEW q \in Procs,
             \/ Open(q) \/ SelectID(q) \/ InsertID(q) \/ ReselectID(q) \/ Listen(q)
             \/ StartGroup(q) \/ Close(q) \/ ApproveCmd(q) \/ Signal(q) \/ Kill(q)
      PROVE  Kept
  <2>1. row' = row
    BY <1>7 DEF Open, SelectID, InsertID, ReselectID, Listen, StartGroup, Close, ApproveCmd,
                Signal, Kill
  <2>2. pc'[q] # "running" \/ pc' = pc
    BY <1>7 DEF Open, SelectID, InsertID, ReselectID, Listen, StartGroup, Close, ApproveCmd,
                Signal, Kill, Gone, Goto, TypeOK
  <2>3. \A o \in Procs \ {q} : pc'[o] = pc[o]
    BY <1>7 DEF Open, SelectID, InsertID, ReselectID, Listen, StartGroup, Close, ApproveCmd,
                Signal, Kill, Gone, Goto, TypeOK
  <2>. QED
    BY <1>1, <2>1, <2>2, <2>3
<1>8. ASSUME NEW q \in Procs, NEW j \in Jobs, NEW d \in {"send", "receive"}, NEW n \in Sizes,
             NEW m \in Sizes, StartSyncJob(q, j, d, n, m)
      PROVE  Kept
  BY <1>1, <1>8 DEF StartSyncJob
<1>9. ASSUME NEW j \in Jobs, Transfer(j) PROVE Kept
  BY <1>1, <1>9 DEF Transfer, MoveFile, UpdateSyncJob, FinishSyncJob
<1>10. CASE UNCHANGED vars
  BY <1>1, <1>10 DEF vars
<1>. HIDE DEF Kept, Taken
<1>. QED
  BY <1>2, <1>3, <1>4, <1>5, <1>6, <1>7, <1>8, <1>9, <1>10 DEF Next, Main

(***************************************************************************)
(* sps status says that a daemon runs, under its own PID, until a daemon   *)
(* with groups, on another port or without one any more, writes or clears  *)
(* the row: no start that fails to listen, no sps approve, and no heartbeat *)
(* that fails (up to MaxMissed in a row) has that effect, for any number   *)
(* of processes, ports and configurations.                                 *)
(***************************************************************************)
THEOREM RunningIsReported == Spec => LiveIsListed
<1>1. Init => PortInv /\ RowInv
  BY DEF Init, PortInv, RowInv, NotStarted, Listening
<1>2. TypeOK /\ GroupsInv /\ PortInv /\ RowIsFresh' /\ [Next]_vars =>
        [faults' = 0 =>
           \A p \in Running' : (p \in Running => Reported(p)) =>
               Reported(p)' \/ \E q \in Procs \ {p} : Elsewhere(q, p)]_vars
  <2>. SUFFICES ASSUME TypeOK, GroupsInv, PortInv, RowIsFresh', [Next]_vars, faults' = 0,
                       NEW p \in Procs, pc'[p] = "running", pc[p] = "running" => Reported(p)
                PROVE  Reported(p)' \/ \E q \in Procs \ {p} : Elsewhere(q, p)
    BY DEF Running
  <2>1. pc[p] = "running" => row # None /\ row.pid = p
    BY DEF Reported
  <2>2. \/ row' # None /\ row'.pid = p
        \/ \E q \in Procs \ {p} : Elsewhere(q, p)
    BY <2>1, RowIsTaken
  <2>3. ASSUME row' # None, row'.pid = p PROVE Reported(p)'
    BY <2>3 DEF RowIsFresh, Running
  <2>. QED
    BY <2>2, <2>3
<1>. QED
  BY <1>1, <1>2, Freshness, NextKeepsPort, NextKeepsRow, GroupsInvariance, TypeCorrect, PTL
     DEF Spec, LiveIsListed

-----------------------------------------------------------------------------
(* The rows of sync_jobs *)

\* A transfer's row is running while its goroutine is at work, and follows the
\* files that it counts, as long as no statement has failed.
JobInv(j) ==
    /\ work[j].at # "none" => job[j].status = "running"
    /\ job[j].direction = "receive" /\ work[j].at \in {"file", "record"} =>
         work[j].moved + work[j].left = job[j].total
    /\ faults = 0 =>
        /\ job[j].status = "running" /\ owner[j] # None => work[j].at # "none"
        /\ job[j].direction = "receive" /\ work[j].at = "file" => job[j].done = work[j].moved
        /\ job[j].direction = "receive" /\ job[j].status = "completed" =>
             job[j].done = job[j].total
JobsInv == \A j \in Jobs : JobInv(j)

LEMMA JobUntouched ==
    ASSUME NEW j \in Jobs, JobInv(j), faults' = 0 => faults = 0,
           job'[j] = job[j], owner'[j] = owner[j], work'[j] = work[j]
    PROVE  JobInv(j)'
  BY DEF JobInv

\* What only changes the transfers of j.
LEMMA OtherJobs ==
    ASSUME NEW j \in Jobs, JobsInv, faults' = 0 => faults = 0, JobInv(j)',
           \A k \in Jobs \ {j} :
               job'[k] = job[k] /\ owner'[k] = owner[k] /\ work'[k] = work[k]
    PROVE  JobsInv'
<1>1. \A k \in Jobs \ {j} : JobInv(k)'
  BY JobUntouched DEF JobsInv
<1>. QED
  BY <1>1 DEF JobsInv

LEMMA StartKeepsJobs ==
    ASSUME TypeOK, JobsInv, NEW p \in Procs, NEW j \in Jobs, NEW d \in {"send", "receive"},
           NEW n \in Sizes, NEW m \in Sizes, StartSyncJob(p, j, d, n, m)
    PROVE  JobsInv'
<1>. JobTypes
  BY Parts
<1>1. /\ job'[j] = [direction |-> d, total |-> m, done |-> 0, status |-> "running"]
      /\ work'[j] = [at |-> "file", left |-> n, moved |-> 0]
      /\ d = "receive" => m = n
  BY DEF StartSyncJob, JobTypes
<1>2. faults' = faults /\ \A k \in Jobs \ {j} :
         job'[k] = job[k] /\ owner'[k] = owner[k] /\ work'[k] = work[k]
  BY DEF StartSyncJob, JobTypes
<1>3. JobInv(j)'
  BY <1>1, DaemonAssumption DEF JobInv
<1>. QED
  BY <1>2, <1>3, OtherJobs

LEMMA MoveKeepsJobs ==
    ASSUME TypeOK, JobsInv, NEW j \in Jobs, MoveFile(j)
    PROVE  JobsInv'
<1>. JobTypes
  BY Parts
<1>1. /\ job[j] \in JobRows /\ work[j] \in Workers /\ JobInv(j)
      /\ work[j].at = "file" /\ work[j].left > 0
      /\ job' = job /\ owner' = owner /\ faults' = faults
  BY DEF MoveFile, JobTypes, jobVars, JobsInv
<1>2. work'[j] \in
        {[at |-> "record", left |-> work[j].left - 1, moved |-> work[j].moved + 1],
         [at |-> "failed", left |-> work[j].left, moved |-> work[j].moved]}
      \/ /\ job[j].direction = "send"
         /\ work'[j] = [at |-> "file", left |-> work[j].left - 1, moved |-> work[j].moved]
  BY <1>1 DEF MoveFile, JobTypes, Workers
<1>3. \A k \in Jobs \ {j} : work'[k] = work[k]
  BY DEF MoveFile, JobTypes
<1>4. JobInv(j)'
  <2>1. CASE work'[j] = [at |-> "record", left |-> work[j].left - 1, moved |-> work[j].moved + 1]
    <3>1. /\ work'[j].at = "record" /\ work'[j].left = work[j].left - 1
          /\ work'[j].moved = work[j].moved + 1
      BY <2>1
    <3>2. work[j].left \in Nat /\ work[j].moved \in Nat
      BY <1>1 DEF Workers
    <3>3. work'[j].moved + work'[j].left = work[j].moved + work[j].left
      BY <3>1, <3>2
    <3>. QED
      BY <1>1, <3>1, <3>3 DEF JobInv
  <2>2. CASE work'[j] = [at |-> "failed", left |-> work[j].left, moved |-> work[j].moved]
    <3>1. work'[j].at = "failed"
      BY <2>2
    <3>. QED
      BY <1>1, <3>1 DEF JobInv
  <2>3. CASE /\ job[j].direction = "send"
             /\ work'[j] = [at |-> "file", left |-> work[j].left - 1, moved |-> work[j].moved]
    <3>1. work'[j].at = "file"
      BY <2>3
    <3>. QED
      BY <1>1, <2>3, <3>1 DEF JobInv
  <2>. QED
    BY <1>2, <2>1, <2>2, <2>3
<1>. QED
  BY <1>1, <1>3, <1>4, OtherJobs

LEMMA UpdateKeepsJobs ==
    ASSUME TypeOK, JobsInv, NEW j \in Jobs, UpdateSyncJob(j)
    PROVE  JobsInv'
<1>. JobTypes
  BY Parts
<1>1. /\ job[j] \in JobRows /\ work[j] \in Workers /\ JobInv(j)
      /\ work[j].at = "record" /\ owner' = owner
  BY DEF UpdateSyncJob, JobTypes, JobsInv
<1>2. work'[j] = [at |-> "file", left |-> work[j].left, moved |-> work[j].moved]
      /\ \A k \in Jobs \ {j} : work'[k] = work[k]
  BY <1>1 DEF UpdateSyncJob, JobTypes, Workers
<1>3. \/ /\ faults' = faults
         /\ job'[j] = [direction |-> job[j].direction, total |-> job[j].total,
                       done |-> work[j].moved, status |-> job[j].status]
      \/ job'[j] = job[j] /\ faults' # 0
  <2>1. CASE job' = [job EXCEPT ![j].done = work[j].moved] /\ faults' = faults
    BY <2>1 DEF JobTypes, JobRows
  <2>2. CASE faults' = faults + 1 /\ job' = job
    BY <2>2, FaultsNat
  <2>. QED
    BY <2>1, <2>2 DEF UpdateSyncJob, Statement
<1>4. \A k \in Jobs \ {j} : job'[k] = job[k]
  BY DEF UpdateSyncJob, Statement, JobTypes
<1>5. faults' = 0 => faults = 0
  BY FaultsNat DEF UpdateSyncJob, Statement
<1>6. JobInv(j)'
  BY <1>1, <1>2, <1>3 DEF JobInv
<1>. QED
  BY <1>1, <1>2, <1>4, <1>5, <1>6, OtherJobs

LEMMA FinishKeepsJobs ==
    ASSUME TypeOK, JobsInv, NEW j \in Jobs, FinishSyncJob(j)
    PROVE  JobsInv'
<1>. JobTypes
  BY Parts
<1>1. /\ job[j] \in JobRows /\ work[j] \in Workers /\ JobInv(j) /\ owner' = owner
      /\ work[j].at = "failed" \/ (work[j].at = "file" /\ work[j].left = 0)
  BY DEF FinishSyncJob, JobTypes, JobsInv
<1>2. work'[j] = NoWork /\ \A k \in Jobs \ {j} : work'[k] = work[k]
  BY DEF FinishSyncJob, JobTypes
<1>3. PICK status \in {"failed", "completed"} :
        /\ status = "completed" => work[j].at = "file" /\ work[j].left = 0
        /\ Statement(job' = [job EXCEPT ![j].status = status], UNCHANGED job)
  BY <1>1 DEF FinishSyncJob
<1>4. \/ /\ faults' = faults
         /\ job'[j] = [direction |-> job[j].direction, total |-> job[j].total,
                       done |-> job[j].done, status |-> status]
      \/ job'[j] = job[j] /\ faults' # 0
  <2>1. CASE job' = [job EXCEPT ![j].status = status] /\ faults' = faults
    BY <2>1 DEF JobTypes, JobRows
  <2>2. CASE faults' = faults + 1 /\ job' = job
    BY <2>2, FaultsNat
  <2>. QED
    BY <1>3, <2>1, <2>2 DEF Statement
<1>5. \A k \in Jobs \ {j} : job'[k] = job[k]
  BY <1>3 DEF Statement, JobTypes
<1>6. faults' = 0 => faults = 0
  BY <1>3, FaultsNat DEF Statement
<1>7. JobInv(j)'
  <2>1. work'[j].at = "none"
    BY <1>2 DEF NoWork
  <2>2. CASE faults' # 0
    BY <2>1, <2>2 DEF JobInv
  <2>3. CASE /\ faults' = faults
             /\ job'[j] = [direction |-> job[j].direction, total |-> job[j].total,
                           done |-> job[j].done, status |-> status]
    <3>1. /\ job'[j].direction = job[j].direction /\ job'[j].total = job[j].total
          /\ job'[j].done = job[j].done /\ job'[j].status = status
      BY <2>3
    <3>2. ASSUME faults = 0, job[j].direction = "receive", status = "completed"
          PROVE  job[j].done = job[j].total
      <4>1. work[j].moved + 0 = job[j].total /\ job[j].done = work[j].moved
        BY <1>1, <1>3, <3>2 DEF JobInv
      <4>. QED
        BY <1>1, <4>1 DEF Workers
    <3>. QED
      BY <1>3, <2>1, <2>3, <3>1, <3>2 DEF JobInv
  <2>. QED
    BY <1>4, <2>2, <2>3
<1>. QED
  BY <1>1, <1>2, <1>5, <1>6, <1>7, OtherJobs

LEMMA NextKeepsJobs == TypeOK /\ JobsInv /\ [Next]_vars => JobsInv'
<1>. SUFFICES ASSUME TypeOK, JobsInv, [Next]_vars PROVE JobsInv'
  OBVIOUS
<1>0. faults' = 0 => faults = 0
  BY FaultsGrow
<1>. USE DEF clockVars, jobVars, processVars
<1>1. ASSUME NEW p \in Procs, Gone(p), job' = job PROVE JobsInv'
  <2>. SUFFICES ASSUME NEW j \in Jobs PROVE JobInv(j)'
    BY DEF JobsInv
  <2>1. CASE owner[j] = p
    <3>1. work'[j] = NoWork /\ owner'[j] = None
      BY <1>1, <2>1 DEF Gone
    <3>. QED
      BY <1>0, <1>1, <3>1 DEF JobsInv, JobInv, NoWork
  <2>2. CASE owner[j] # p
    <3>1. work'[j] = work[j] /\ owner'[j] = owner[j]
      BY <1>1, <2>2 DEF Gone
    <3>. QED
      BY <1>0, <1>1, <3>1, JobUntouched DEF JobsInv
  <2>. QED
    BY <2>1, <2>2
<1>2. ASSUME UNCHANGED jobVars PROVE JobsInv'
  BY <1>0, <1>2, JobUntouched DEF JobsInv
<1>3. ASSUME NEW p \in Procs, NEW c \in Configs, Load(p, c) PROVE JobsInv'
  BY <1>2, <1>3 DEF Load
<1>4. ASSUME NEW p \in Procs, Open(p) \/ Close(p) PROVE JobsInv'
  BY <1>1, <1>2, <1>4 DEF Open, Close
<1>5. ASSUME NEW p \in Procs, SelectID(p) \/ InsertID(p) \/ ReselectID(p) \/ Listen(p)
      PROVE  JobsInv'
  BY <1>2, <1>5 DEF SelectID, InsertID, ReselectID, Listen
<1>6. ASSUME NEW p \in Procs, StartGroup(p) \/ SetDaemonInfo(p) \/ Signal(p) \/ Heartbeat(p)
      PROVE  JobsInv'
  BY <1>2, <1>6 DEF StartGroup, SetDaemonInfo, Signal, Heartbeat
<1>7. ASSUME NEW p \in Procs, ApproveCmd(p) \/ Kill(p) \/ ClearDaemonInfo(p) PROVE JobsInv'
  BY <1>1, <1>7 DEF ApproveCmd, Kill, ClearDaemonInfo
<1>8. ASSUME NEW p \in Procs, NEW j \in Jobs, NEW d \in {"send", "receive"}, NEW n \in Sizes,
             NEW m \in Sizes, StartSyncJob(p, j, d, n, m)
      PROVE  JobsInv'
  BY <1>8, StartKeepsJobs
<1>9. ASSUME NEW j \in Jobs, Transfer(j) PROVE JobsInv'
  BY <1>9, MoveKeepsJobs, UpdateKeepsJobs, FinishKeepsJobs DEF Transfer
<1>10. ASSUME Tick \/ UNCHANGED vars PROVE JobsInv'
  BY <1>2, <1>10 DEF Tick, vars
<1>. QED
  BY <1>3, <1>4, <1>5, <1>6, <1>7, <1>8, <1>9, <1>10 DEF Next, Main

LEMMA JobsHold == Spec => []JobsInv
<1>1. Init => JobsInv
  <2>. SUFFICES ASSUME Init, NEW j \in Jobs PROVE JobInv(j)
    BY DEF JobsInv
  <2>1. work[j].at = "none" /\ job[j].status = ""
    BY DEF Init, NoJob, NoWork
  <2>. QED
    BY <2>1 DEF JobInv
<1>. QED
  BY <1>1, NextKeepsJobs, TypeCorrect, PTL DEF Spec

(***************************************************************************)
(* A transfer that sps status lists as active, of a process that lives,    *)
(* has a goroutine at work on it, whatever ended before it and how.        *)
(***************************************************************************)
THEOREM ActiveAreAtWork == Spec => []ActiveIsAtWork
<1>1. JobsInv => ActiveIsAtWork
  BY DEF JobsInv, JobInv, ActiveIsAtWork
<1>. QED
  BY <1>1, JobsHold, PTL

(***************************************************************************)
(* A receive is reported as completed only with every file of it received, *)
(* for transfers of any size.                                              *)
(***************************************************************************)
THEOREM CompletedAreComplete == Spec => []CompletedIsComplete
<1>1. JobsInv => CompletedIsComplete
  BY DEF JobsInv, JobInv, CompletedIsComplete
<1>. QED
  BY <1>1, JobsHold, PTL
=============================================================================
