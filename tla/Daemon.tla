------------------------------- MODULE Daemon -------------------------------
(***************************************************************************)
(* The processes that share one data_dir, and what `sps status' sees of    *)
(* them: `sps run' from reading its configuration to its exit, killed or   *)
(* stopped at any moment and started again, several at the same time       *)
(* (cmd/sps/main.go, internal/app/app.go); the tables local_identity,      *)
(* daemon_info and sync_jobs (internal/state/state.go, activity.go); and   *)
(* the report (internal/app/status.go).                                    *)
(*                                                                         *)
(* Every statement on the database is one action, because another process  *)
(* may execute its own in between.  Statements whose errors the code       *)
(* ignores may fail.  Time passes in units of 30 s, the heartbeat's period.*)
(***************************************************************************)
EXTENDS ConfigRules, FiniteSets

CONSTANTS
    Procs,       \* processes that may run at the same time; each starts again and again
    Configs,     \* what config.toml may hold when a process reads it
    Jobs,        \* rows of sync_jobs
    Sizes,       \* how many files a transfer may have
    None,
    StaleAfter,  \* 2 min, in units of 30 s
    MaxMissed,   \* bound: consecutive heartbeats that fail
    MaxFaults    \* bound: other statements that fail

ASSUME DaemonAssumption ==
    /\ None \notin Procs /\ None \notin [pid : Procs, age : 0 .. StaleAfter]
    /\ Sizes \subseteq Nat
    /\ StaleAfter \in Nat /\ MaxMissed \in Nat /\ MaxFaults \in Nat
    /\ MaxMissed + 1 < StaleAfter

\* The [[sync]] sections are a list, and listen names a port.
ASSUME ConfigsAssumption ==
    \A c \in Configs :
        /\ c.listen # None
        /\ c.syncs \in Seq([name : STRING, path : STRING, key : STRING,
                            direction : STRING, role : STRING, approval : STRING])

VARIABLES
    pc,        \* pc[p]: where process p is
    cfg,       \* cfg[p]: its configuration
    id,        \* id[p]: App.PeerID; an ID is named after the process that made it
    identity,  \* the row of local_identity
    port,      \* port[p]: the port on which p listens
    groups,    \* groups[p]: how many groups p has started: App.groups, App.groupBy
    row,       \* the row of daemon_info: the process, and the age of updated_at
    beat,      \* beat[p]: the heartbeat of this unit of time is done
    missed,    \* missed[p]: heartbeats that have failed since one succeeded
    job,       \* job[j]: row of sync_jobs
    owner,     \* owner[j]: the process that transfers the files of j
    work,      \* work[j]: the goroutine that transfers the files of j
    faults     \* statements that have failed

processVars == <<pc, cfg, id, port, groups>>
clockVars == <<row, beat, missed>>
jobVars == <<job, owner, work>>
vars == <<processVars, identity, clockVars, jobVars, faults>>

Ports == {c.listen : c \in Configs}
NoConfig == [listen |-> None, relay |-> "", relayKey |-> "", syncs |-> <<>>]
NoJob == [direction |-> "", total |-> 0, done |-> 0, status |-> ""]
NoWork == [at |-> "none", left |-> 0, moved |-> 0]

Places == {"off", "read", "select", "insert", "reselect", "ready", "starting",
           "running", "closing", "clearing"}
Running == {p \in Procs : pc[p] = "running"}
Alive == {p \in Procs : pc[p] # "off"}

TypeOK ==
    /\ pc \in [Procs -> Places] /\ cfg \in [Procs -> Configs \cup {NoConfig}]
    /\ id \in [Procs -> Procs \cup {None}] /\ identity \in Procs \cup {None}
    /\ port \in [Procs -> Ports \cup {None}] /\ groups \in [Procs -> Nat]
    /\ row \in [pid : Procs, age : 0 .. StaleAfter] \cup {None}
    /\ beat \in [Procs -> BOOLEAN] /\ missed \in [Procs -> 0 .. MaxMissed]
    /\ job \in [Jobs -> [direction : {"", "send", "receive"}, total : Nat, done : Nat,
                         status : {"", "running", "completed", "failed"}]]
    /\ owner \in [Jobs -> Procs \cup {None}]
    /\ work \in [Jobs -> [at : {"none", "file", "record", "failed"}, left : Nat, moved : Nat]]
    /\ faults \in 0 .. MaxFaults

Goto(p, l) == pc' = [pc EXCEPT ![p] = l]

\* A statement whose error is ignored: it does what it says, or nothing.
Statement(done, skipped) ==
    \/ done /\ UNCHANGED faults
    \/ faults < MaxFaults /\ faults' = faults + 1 /\ skipped

\* The process ends, and its goroutines and its socket with it.
Gone(p) ==
    /\ Goto(p, "off")
    /\ cfg' = [cfg EXCEPT ![p] = NoConfig] /\ id' = [id EXCEPT ![p] = None]
    /\ port' = [port EXCEPT ![p] = None]
    /\ groups' = [groups EXCEPT ![p] = 0]
    /\ beat' = [beat EXCEPT ![p] = FALSE] /\ missed' = [missed EXCEPT ![p] = 0]
    /\ work' = [j \in Jobs |-> IF owner[j] = p THEN NoWork ELSE work[j]]
    /\ owner' = [j \in Jobs |-> IF owner[j] = p THEN None ELSE owner[j]]

-----------------------------------------------------------------------------
(* Start *)

\* sps run, or sps approve: config.Load.  A file that Validate refuses is fatal.
Load(p, c) ==
    /\ pc[p] = "off"
    /\ Goto(p, IF Validate(c) THEN "read" ELSE "off")
    /\ cfg' = [cfg EXCEPT ![p] = IF Validate(c) THEN c ELSE NoConfig]
    /\ UNCHANGED <<id, port, groups, identity, clockVars, jobVars, faults>>

\* state.Open, which creates the tables, or fails.
Open(p) ==
    /\ pc[p] = "read"
    /\ \/ Goto(p, "select") /\ UNCHANGED <<cfg, id, port, groups, beat, missed, owner, work>>
       \/ Gone(p)
    /\ UNCHANGED <<identity, row, job, faults>>

\* GetOrCreatePeerID, first statement.
SelectID(p) ==
    /\ pc[p] = "select"
    /\ IF identity # None
       THEN Goto(p, "ready") /\ id' = [id EXCEPT ![p] = identity]
       ELSE Goto(p, "insert") /\ id' = [id EXCEPT ![p] = p]
    /\ UNCHANGED <<cfg, port, groups, identity, clockVars, jobVars, faults>>

\* INSERT ... ON CONFLICT DO NOTHING
InsertID(p) ==
    /\ pc[p] = "insert"
    /\ identity' = IF identity = None THEN id[p] ELSE identity
    /\ Goto(p, "reselect")
    /\ UNCHANGED <<cfg, id, port, groups, clockVars, jobVars, faults>>

\* Mutant: what was inserted is not read back.
KeepID(p) ==
    /\ pc[p] = "reselect"
    /\ Goto(p, "ready")
    /\ UNCHANGED <<cfg, id, port, groups, identity, clockVars, jobVars, faults>>

\* The row is read again; if that fails, the new ID is kept.
ReselectID(p) ==
    /\ pc[p] = "reselect"
    /\ Goto(p, "ready")
    /\ Statement(id' = [id EXCEPT ![p] = identity], UNCHANGED id)
    /\ UNCHANGED <<cfg, port, groups, identity, clockVars, jobVars>>

\* sps approve ends here: no group is started, so App.Approve finds none.
ApproveCmd(p) ==
    /\ pc[p] = "ready"
    /\ Gone(p)
    /\ UNCHANGED <<identity, row, job, faults>>

\* App.Start: the port of the configuration is taken, or Close is called.
Listen(p) ==
    /\ pc[p] = "ready"
    /\ IF \E q \in Procs : port[q] = cfg[p].listen
       THEN Goto(p, "closing") /\ UNCHANGED port
       ELSE port' = [port EXCEPT ![p] = cfg[p].listen] /\ Goto(p, "starting")
    /\ UNCHANGED <<cfg, id, groups, identity, clockVars, jobVars, faults>>

\* startGroup: a root that cannot be made or watched, or a walk that fails,
\* ends in Close.
StartGroup(p) ==
    /\ pc[p] = "starting" /\ groups[p] < Len(cfg[p].syncs)
    /\ \/ groups' = [groups EXCEPT ![p] = @ + 1] /\ UNCHANGED pc
       \/ Goto(p, "closing") /\ UNCHANGED groups
    /\ UNCHANGED <<cfg, id, port, identity, clockVars, jobVars, faults>>

\* SetDaemonInfo, and the heartbeat's ticker starts.
SetDaemonInfo(p) ==
    /\ pc[p] = "starting" /\ groups[p] = Len(cfg[p].syncs)
    /\ Statement(row' = [pid |-> p, age |-> 0], UNCHANGED row)
    /\ beat' = [beat EXCEPT ![p] = TRUE]
    /\ Goto(p, "running")
    /\ UNCHANGED <<cfg, id, port, groups, identity, missed, jobVars>>

-----------------------------------------------------------------------------
(* While it runs *)

\* App.FindGroup, which handleInbound asks from the moment the port is open:
\* the last group started under the name.
FindGroup(p, name) ==
    {i \in 1 .. groups[p] :
        /\ cfg[p].syncs[i].name = name
        /\ \A k \in (i + 1) .. groups[p] : cfg[p].syncs[k].name # name}

\* heartbeatLoop: TouchDaemon updates the row, if there is one.
Heartbeat(p) ==
    /\ p \in Running /\ ~beat[p]
    /\ beat' = [beat EXCEPT ![p] = TRUE]
    /\ \/ /\ row' = IF row = None THEN None ELSE [row EXCEPT !.age = 0]
          /\ missed' = [missed EXCEPT ![p] = 0]
       \/ /\ missed[p] < MaxMissed /\ missed' = [missed EXCEPT ![p] = @ + 1]
          /\ UNCHANGED row
    /\ UNCHANGED <<processVars, identity, jobVars, faults>>

\* 30 s pass, in which the ticker of every daemon ticks.
Tick ==
    /\ \A p \in Running : beat[p]
    /\ row # None /\ row.age < StaleAfter
    /\ row' = [row EXCEPT !.age = @ + 1]
    /\ beat' = [p \in Procs |-> FALSE]
    /\ UNCHANGED <<processVars, identity, missed, jobVars, faults>>

-----------------------------------------------------------------------------
(* Transfers *)

\* applyManifest needs n files, or sendFiles is asked for n of which it counts
\* those that exist; StartSyncJob.  (If it fails, the transfer has no row.)
StartSyncJob(p, j, d, n, counted) ==
    /\ pc[p] \in {"starting", "running"} /\ groups[p] > 0 /\ job[j] = NoJob
    /\ IF d = "receive" THEN counted = n ELSE counted \in 1 .. n
    /\ job' = [job EXCEPT ![j] =
         [direction |-> d, total |-> counted, done |-> 0, status |-> "running"]]
    /\ owner' = [owner EXCEPT ![j] = p]
    /\ work' = [work EXCEPT ![j] = [at |-> "file", left |-> n, moved |-> 0]]
    /\ UNCHANGED <<processVars, identity, clockVars, faults>>

\* Mutant: a file that cannot be received is passed over too.
MoveOrSkip(j) ==
    /\ work[j].at = "file" /\ work[j].left > 0
    /\ \/ work' = [work EXCEPT ![j].at = "record", ![j].left = @ - 1, ![j].moved = @ + 1]
       \/ work' = [work EXCEPT ![j].left = @ - 1]
    /\ UNCHANGED <<processVars, identity, clockVars, job, owner, faults>>

\* receiveFile or a CHUNK written; sendFiles also passes over what it cannot
\* read.  An error of the connection or, when receiving, of the disk ends it.
MoveFile(j) ==
    /\ work[j].at = "file" /\ work[j].left > 0
    /\ \/ work' = [work EXCEPT ![j].at = "record", ![j].left = @ - 1, ![j].moved = @ + 1]
       \/ job[j].direction = "send" /\ work' = [work EXCEPT ![j].left = @ - 1]
       \/ work' = [work EXCEPT ![j].at = "failed"]
    /\ UNCHANGED <<processVars, identity, clockVars, job, owner, faults>>

\* Mutant: files_done is the index of the file before the present one.
UpdateBehind(j) ==
    /\ work[j].at = "record"
    /\ work' = [work EXCEPT ![j].at = "file"]
    /\ job' = [job EXCEPT ![j].done = work[j].moved - 2]
    /\ UNCHANGED <<processVars, identity, clockVars, owner, faults>>

UpdateSyncJob(j) ==
    /\ work[j].at = "record"
    /\ work' = [work EXCEPT ![j].at = "file"]
    /\ Statement(job' = [job EXCEPT ![j].done = work[j].moved], UNCHANGED job)
    /\ UNCHANGED <<processVars, identity, clockVars, owner>>

\* Mutant: a transfer that fails just returns.
FinishCompleted(j) ==
    /\ work[j].at = "failed" \/ (work[j].at = "file" /\ work[j].left = 0)
    /\ job' = [job EXCEPT ![j].status = IF work[j].at = "failed" THEN @ ELSE "completed"]
    /\ work' = [work EXCEPT ![j] = NoWork]
    /\ UNCHANGED <<processVars, identity, clockVars, owner, faults>>

\* FinishSyncJob
FinishSyncJob(j) ==
    /\ work[j].at = "failed" \/ (work[j].at = "file" /\ work[j].left = 0)
    /\ LET status == IF work[j].at = "failed" THEN "failed" ELSE "completed"
       IN Statement(job' = [job EXCEPT ![j].status = status], UNCHANGED job)
    /\ work' = [work EXCEPT ![j] = NoWork]
    /\ UNCHANGED <<processVars, identity, clockVars, owner>>

-----------------------------------------------------------------------------
(* Stop *)

\* A signal cancels the context.
Signal(p) ==
    /\ p \in Running
    /\ Goto(p, "closing")
    /\ UNCHANGED <<cfg, id, port, groups, identity, clockVars, jobVars, faults>>

\* Mutant: Close does not ask whether there are groups.
CloseAll(p) ==
    /\ pc[p] = "closing"
    /\ Goto(p, "clearing") /\ port' = [port EXCEPT ![p] = None]
    /\ UNCHANGED <<cfg, id, groups, identity, clockVars, jobVars, faults>>

\* App.Close: the groups are stopped, which closes their connections, then the
\* listener.  A process without groups leaves daemon_info alone.
Close(p) ==
    /\ pc[p] = "closing"
    /\ IF groups[p] = 0 THEN Gone(p)
       ELSE /\ Goto(p, "clearing") /\ port' = [port EXCEPT ![p] = None]
            /\ UNCHANGED <<cfg, id, groups, beat, missed, owner, work>>
    /\ UNCHANGED <<identity, row, job, faults>>

\* ClearDaemonInfo deletes the row, whoever wrote it, and the process exits.
ClearDaemonInfo(p) ==
    /\ pc[p] = "clearing"
    /\ Statement(row' = None, UNCHANGED row)
    /\ Gone(p)
    /\ UNCHANGED <<identity, job>>

\* kill -9, or a crash: a HELLO that reads groupBy while Start writes it.
Kill(p) ==
    /\ p \in Alive
    /\ Gone(p)
    /\ UNCHANGED <<identity, row, job, faults>>

-----------------------------------------------------------------------------
(* What sps status prints *)

\* Mutant: updated_at is not looked at.
StatusByRow == IF row = None THEN "not running" ELSE "running"

Status ==
    IF row = None THEN "not running"
    ELSE IF row.age < StaleAfter THEN "running" ELSE "stale"

Init ==
    /\ pc = [p \in Procs |-> "off"] /\ cfg = [p \in Procs |-> NoConfig]
    /\ id = [p \in Procs |-> None] /\ identity = None
    /\ port = [p \in Procs |-> None]
    /\ groups = [p \in Procs |-> 0]
    /\ row = None
    /\ beat = [p \in Procs |-> FALSE] /\ missed = [p \in Procs |-> 0]
    /\ job = [j \in Jobs |-> NoJob] /\ work = [j \in Jobs |-> NoWork]
    /\ owner = [j \in Jobs |-> None]
    /\ faults = 0

\* The main goroutine takes its next step.
Main(p) ==
    \/ Open(p) \/ SelectID(p) \/ InsertID(p) \/ ReselectID(p) \/ Listen(p)
    \/ StartGroup(p) \/ SetDaemonInfo(p) \/ Close(p) \/ ClearDaemonInfo(p)

Transfer(j) == MoveFile(j) \/ UpdateSyncJob(j) \/ FinishSyncJob(j)

Next ==
    \/ \E p \in Procs, c \in Configs : Load(p, c)
    \/ \E p \in Procs : Main(p) \/ ApproveCmd(p) \/ Heartbeat(p) \/ Signal(p) \/ Kill(p)
    \/ \E p \in Procs, j \in Jobs, d \in {"send", "receive"}, n \in Sizes, m \in Sizes :
          StartSyncJob(p, j, d, n, m)
    \/ \E j \in Jobs : Transfer(j)
    \/ Tick

Spec == Init /\ [][Next]_vars

\* Time passes; the daemons may stop at any step.
FairSpec == Spec /\ WF_vars(Tick)

-----------------------------------------------------------------------------
(* Properties *)

(***************************************************************************)
(* One machine has one peer ID: every process that has come through New    *)
(* uses the ID in local_identity, also when several are the first          *)
(* (state.go: GetOrCreatePeerID).                                          *)
(***************************************************************************)
OneIdentity ==
    faults = 0 =>
        \A p \in Alive : pc[p] \notin {"read", "select", "insert", "reselect"} =>
            id[p] = identity

Reported(p) == row # None /\ row.pid = p /\ Status = "running"

\* A step of q, a daemon that has started groups and does not listen where p does.
Elsewhere(q, p) == groups[q] > 0 /\ port[q] # port[p] /\ pc'[q] # pc[q]

(***************************************************************************)
(* A daemon is reported as running, under its own PID, from its start on,  *)
(* until another daemon writes or clears the row: one that has started     *)
(* groups, and that listens on another port or has just left this one.     *)
(* sps approve, a second sps run on the same port and a start that fails   *)
(* before its first group never take the row away, nor do MaxMissed        *)
(* heartbeats that fail in a row (app.go: Start, Close, heartbeatLoop;     *)
(* status.go: StatusReport).                                               *)
(***************************************************************************)
LiveIsListed ==
    [][faults' = 0 =>
        \A p \in Running' : (p \in Running => Reported(p)) =>
            Reported(p)' \/ \E q \in Procs \ {p} : Elsewhere(q, p)]_vars

(***************************************************************************)
(* Inbound peers find every group of a running daemon: no group hides      *)
(* another one in groupBy (app.go: Start, FindGroup; config.go: Validate). *)
(***************************************************************************)
GroupsReachable ==
    \A p \in Running : \A i \in DOMAIN cfg[p].syncs :
        FindGroup(p, cfg[p].syncs[i].name) = {i}

(***************************************************************************)
(* A transfer that sps status lists as active is at work, while its        *)
(* process lives: every way out of applyManifest and sendFiles finishes    *)
(* the row (engine.go; activity.go).                                       *)
(***************************************************************************)
ActiveIsAtWork ==
    faults = 0 =>
        \A j \in Jobs : job[j].status = "running" /\ owner[j] # None =>
            work[j].at # "none"

(***************************************************************************)
(* A receive that is reported as completed has received every file that it *)
(* asked for (engine.go: applyManifest).                                   *)
(***************************************************************************)
CompletedIsComplete ==
    faults = 0 =>
        \A j \in Jobs : job[j].status = "completed" /\ job[j].direction = "receive" =>
            job[j].done = job[j].total

(***************************************************************************)
(* When the last daemon has ended, by a signal or killed, sps status does  *)
(* not go on to report one (status.go: StatusReport).                      *)
(***************************************************************************)
StoppedIsNoticed == (Alive = {}) ~> (Status # "running" \/ Alive # {})
=============================================================================
