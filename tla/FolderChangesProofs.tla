------------------------ MODULE FolderChangesProofs ------------------------
(***************************************************************************)
(* For any folders, any number of goroutines and any bounds: FolderChanges *)
(* is type correct, no wake-up is lost in the approval queue, whoever was  *)
(* listed stays so, nothing passes Wait without its approval, and timers,  *)
(* queue and goroutines implement ChangeFeed.                              *)
(*                                                                         *)
(* Two invariants carry this.  TimersInv: a timer in the watcher's map is  *)
(* about the folder it is mapped to, and has not called OnFolderChanged    *)
(* yet.  ChannelsInv: a channel is in exactly the state that the position  *)
(* of its goroutine allows (in the map of waiters, taken by an Approve, or *)
(* closed), and only the last two are for approved folders.                *)
(***************************************************************************)
EXTENDS FolderChanges, TLAPS

\* Watcher.pending
TimersInv ==
    \A f \in Folders : pending[f] # None =>
        folder[pending[f]] = f /\ pc[pending[f]] \in {"armed", "fired"}

\* Queue.approved, Queue.waiters and the channels.
InWait == {k \in Procs : pc[k] \in {"queued", "blocked", "unlisted"}}

WaitersInv == \A k \in waiters : k \in InWait /\ folder[k] \notin approved

TakenInv ==
    \A j \in Procs : \A k \in taken[j] :
        /\ pc[j] = "approve" /\ k \in InWait /\ folder[k] = folder[j]
        /\ k \notin woken /\ \A i \in Procs \ {j} : k \notin taken[i]

WokenInv == \A k \in woken : k \in InWait /\ folder[k] \in approved

\* Queue.Approve has marked the folder before it does anything else.
ApprovedInv ==
    \A k \in Procs : pc[k] \in {"approve", "remove"} => folder[k] \in approved

ChannelsInv ==
    /\ WaitersInv /\ TakenInv /\ WokenInv /\ ApprovedInv
    /\ NoLostWakeup /\ WaitingIsListed /\ ReleasedIsApproved

-----------------------------------------------------------------------------
(* Types *)

LEMMA UseTyped ==
    ASSUME TypeOK, NEW what \in {"changes", "approvals", "breaks"}, NEW max \in Nat,
           Use(what, max)
    PROVE  used' \in [{"changes", "approvals", "breaks"} -> Nat]
  BY DEF TypeOK, Use

LEMMA StartTyped ==
    ASSUME TypeOK, NEW k \in Procs, NEW f \in Folders, NEW l \in Steps, Start(k, f, l)
    PROVE  pc' \in [Procs -> Steps] /\ folder' \in [Procs -> Folders]
  BY DEF TypeOK, Start, Goto

LEMMA EndTyped ==
    ASSUME TypeOK, NEW K \in SUBSET Procs, End(K)
    PROVE  /\ pc' \in [Procs -> Steps] /\ folder' \in [Procs -> Folders]
           /\ manifest' \in [Procs -> [Folders -> Nat]]
  BY FolderChangesAssumption DEF TypeOK, End, NoListing, Steps

LEMMA ScanTyped ==
    ASSUME TypeOK, NEW S \in SUBSET Folders
    PROVE  Recorded(S) \in [Folders -> Nat] /\ Listing(S) \in [Folders -> Nat]
  BY DEF TypeOK, Recorded, Listing

LEMMA ScopeTyped == ASSUME NEW f \in Folders PROVE Scope(f) \in SUBSET Folders
  BY DEF Scope

LEMMA InitTyped == Init => TypeOK
<1>. SUFFICES ASSUME Init PROVE TypeOK
  OBVIOUS
<1>1. closed \in BOOLEAN /\ connected \in BOOLEAN
  BY DEF Init
<1>2. pc \in [Procs -> Steps] /\ folder \in [Procs -> Folders]
      /\ manifest \in [Procs -> [Folders -> Nat]]
  BY FolderChangesAssumption DEF Init, NoListing, Steps
<1>. QED
  BY <1>1, <1>2 DEF Init, TypeOK

LEMMA NextTyped == TypeOK /\ [Next]_vars => TypeOK'
<1>. SUFFICES ASSUME TypeOK, [Next]_vars PROVE TypeOK'
  OBVIOUS
<1>. USE FolderChangesAssumption DEF queueVars, watchVars
<1>1. ASSUME NEW f \in Edited, Change(f) PROVE TypeOK'
  BY <1>1, UseTyped DEF TypeOK, Change
<1>2. ASSUME NEW f \in Folders, Schedule(f) PROVE TypeOK'
  <2>1. CASE Running(f)
    BY <1>2, <2>1 DEF TypeOK, Schedule
  <2>2. CASE ~Running(f)
    <3>. PICK k \in Procs : Start(k, f, "armed") /\ pending' = [pending EXCEPT ![f] = k]
      BY <1>2, <2>2 DEF Schedule
    <3>. pc' \in [Procs -> Steps] /\ folder' \in [Procs -> Folders]
      BY StartTyped DEF Steps
    <3>. QED
      BY <1>2 DEF TypeOK, Schedule
  <2>. QED
    BY <2>1, <2>2
<1>3. ASSUME NEW k \in Procs, Expire(k) PROVE TypeOK'
  BY <1>3 DEF TypeOK, Expire, Goto, Steps
<1>4. ASSUME NEW k \in Procs, Report(k) PROVE TypeOK'
  BY <1>4 DEF TypeOK, Report, Goto, Steps
<1>5. ASSUME NEW k \in Procs, Wait(k) PROVE TypeOK'
  BY <1>5 DEF TypeOK, Wait, Goto, Steps
<1>6. ASSUME NEW k \in Procs, AddPending(k) PROVE TypeOK'
  BY <1>6 DEF TypeOK, AddPending, Goto, Steps
<1>7. ASSUME NEW k \in Procs, Released(k) PROVE TypeOK'
  BY <1>7 DEF TypeOK, Released, Goto, Steps
<1>8. ASSUME NEW k \in Procs, CloseChannels(k) PROVE TypeOK'
  BY <1>8 DEF TypeOK, CloseChannels, Goto, Steps
<1>9. ASSUME NEW k \in Procs, RemovePending(k) PROVE TypeOK'
  <2>1. CASE rows' = [rows EXCEPT ![folder[k]] = 0] /\ Goto(k, "cleared")
             /\ UNCHANGED <<folder, manifest>>
    BY <1>9, <2>1 DEF TypeOK, RemovePending, Goto, Steps
  <2>2. CASE UNCHANGED rows /\ End({k})
    BY <1>9, <2>2, EndTyped DEF TypeOK, RemovePending
  <2>. QED
    BY <1>9, <2>1, <2>2 DEF RemovePending
<1>10. ASSUME NEW k \in Procs, BroadcastFolder(k) PROVE TypeOK'
  <2>. DEFINE S == Scope(folder[k])
  <2>1. S \in SUBSET Folders
    BY ScopeTyped DEF TypeOK
  <2>2. Recorded(S) \in [Folders -> Nat] /\ Listing(S) \in [Folders -> Nat]
    BY <2>1, ScanTyped
  <2>3. CASE connected
    BY <1>10, <2>2, <2>3 DEF TypeOK, BroadcastFolder, Goto, Steps
  <2>4. CASE ~connected
    BY <1>10, <2>2, <2>4, EndTyped DEF TypeOK, BroadcastFolder
  <2>. QED
    BY <2>3, <2>4
<1>11. ASSUME NEW k \in Procs, SendManifest(k) PROVE TypeOK'
  <2>1. told' \in [Folders -> Nat]
    BY <1>11 DEF TypeOK, SendManifest
  <2>. QED
    BY <1>11, <2>1, EndTyped DEF TypeOK, SendManifest
<1>12. ASSUME NEW k \in Procs, CatchUp(k) PROVE TypeOK'
  <2>. DEFINE stale == {f \in Folders : store[f] # tree[f]}
  <2>1. Recorded(stale) \in [Folders -> Nat] /\ Listing(stale) \in [Folders -> Nat]
    BY ScanTyped
  <2>2. pc' \in [Procs -> Steps] /\ folder' \in [Procs -> Folders]
    BY <1>12, StartTyped DEF CatchUp, Steps
  <2>. QED
    BY <1>12, <2>1, <2>2 DEF TypeOK, CatchUp
<1>13. ASSUME NEW k \in Procs, PeerConnects(k) PROVE TypeOK'
  <2>1. pc' \in [Procs -> Steps] /\ folder' \in [Procs -> Folders]
    BY <1>13, StartTyped DEF PeerConnects, Steps
  <2>. QED
    BY <1>13, <2>1 DEF TypeOK, PeerConnects
<1>14. ASSUME NEW k \in Procs, NEW f \in Folders, Approve(k, f) PROVE TypeOK'
  <2>1. pc' \in [Procs -> Steps] /\ folder' \in [Procs -> Folders]
    BY <1>14, StartTyped DEF Approve, Steps
  <2>2. used' \in [{"changes", "approvals", "breaks"} -> Nat]
    BY <1>14, UseTyped DEF Approve
  <2>. QED
    BY <1>14, <2>1, <2>2 DEF TypeOK, Approve, Waiting
<1>15. CASE PeerGone
  BY <1>15, EndTyped, UseTyped DEF TypeOK, PeerGone, Sending
<1>16. CASE StopGroup
  BY <1>16, EndTyped DEF TypeOK, StopGroup, Sending
<1>17. CASE Restart
  BY <1>17, EndTyped, UseTyped DEF TypeOK, Restart
<1>18. CASE UNCHANGED vars
  BY <1>18 DEF TypeOK, vars
<1>. QED
  BY <1>1, <1>2, <1>3, <1>4, <1>5, <1>6, <1>7, <1>8, <1>9, <1>10, <1>11, <1>12, <1>13, <1>14,
     <1>15, <1>16, <1>17, <1>18 DEF Next, Step

(***************************************************************************)
(* The watcher's map, the approval queue, its rows and every goroutine of  *)
(* the group stay well typed, whatever the bounds.                         *)
(***************************************************************************)
THEOREM TypeCorrect == Spec => []TypeOK
  BY InitTyped, NextTyped, PTL DEF Spec

-----------------------------------------------------------------------------
(* What a step does to the goroutines *)

LEMMA GotoFrame ==
    ASSUME TypeOK, NEW k \in Procs, NEW l \in Steps, Goto(k, l), folder' = folder
    PROVE  /\ pc'[k] = l /\ folder'[k] = folder[k]
           /\ \A j \in Procs \ {k} : pc'[j] = pc[j] /\ folder'[j] = folder[j]
  BY DEF TypeOK, Goto

LEMMA StartFrame ==
    ASSUME TypeOK, NEW k \in Procs, NEW f \in Folders, NEW l \in Steps, Start(k, f, l)
    PROVE  /\ pc[k] = "free" /\ pc'[k] = l /\ folder'[k] = f
           /\ \A j \in Procs \ {k} : pc'[j] = pc[j] /\ folder'[j] = folder[j]
  BY DEF TypeOK, Start, Spare, Goto

LEMMA EndFrame ==
    ASSUME NEW K \in SUBSET Procs, End(K)
    PROVE  /\ \A j \in K : pc'[j] = "free"
           /\ \A j \in Procs \ K : pc'[j] = pc[j] /\ folder'[j] = folder[j]
  BY DEF End

-----------------------------------------------------------------------------
(* The watcher's timers *)

\* The timers that have not called OnFolderChanged are left as they are.
LEMMA OtherGoroutine ==
    ASSUME TypeOK, TimersInv, pending' = pending,
           \A j \in Procs : pc[j] \in {"armed", "fired"} =>
               pc'[j] \in {"armed", "fired"} /\ folder'[j] = folder[j]
    PROVE  TimersInv'
<1>. SUFFICES ASSUME NEW g \in Folders, pending[g] # None
              PROVE  folder'[pending[g]] = g /\ pc'[pending[g]] \in {"armed", "fired"}
  BY DEF TimersInv
<1>1. pending[g] \in Procs
  BY DEF TypeOK
<1>. QED
  BY <1>1 DEF TimersInv

LEMMA NextKeepsTimers == TypeOK /\ TimersInv /\ [Next]_vars => TimersInv'
<1>. SUFFICES ASSUME TypeOK, TimersInv, [Next]_vars PROVE TimersInv'
  OBVIOUS
<1>. USE DEF queueVars, watchVars
<1>1. ASSUME NEW f \in Edited, Change(f) PROVE TimersInv'
  BY <1>1, OtherGoroutine DEF Change
<1>2. ASSUME NEW f \in Folders, Schedule(f) PROVE TimersInv'
  <2>1. CASE Running(f)
    BY <1>2, <2>1, OtherGoroutine DEF Schedule
  <2>2. CASE ~Running(f)
    <3>1. PICK k \in Procs : Start(k, f, "armed") /\ pending' = [pending EXCEPT ![f] = k]
      BY <1>2, <2>2 DEF Schedule
    <3>2. pc[k] = "free" /\ pc'[k] = "armed" /\ folder'[k] = f
          /\ \A j \in Procs \ {k} : pc'[j] = pc[j] /\ folder'[j] = folder[j]
      BY <3>1, StartFrame DEF Steps
    <3>. SUFFICES ASSUME NEW g \in Folders, pending'[g] # None
                  PROVE  folder'[pending'[g]] = g /\ pc'[pending'[g]] \in {"armed", "fired"}
      BY DEF TimersInv
    <3>3. CASE g = f
      BY <3>1, <3>2, <3>3 DEF TypeOK
    <3>4. CASE g # f
      <4>1. pending'[g] = pending[g] /\ pending[g] \in Procs
        BY <3>1, <3>4 DEF TypeOK
      <4>. QED
        BY <3>2, <4>1 DEF TimersInv
    <3>. QED
      BY <3>3, <3>4
  <2>. QED
    BY <2>1, <2>2
<1>3. ASSUME NEW k \in Procs, Expire(k) PROVE TimersInv'
  BY <1>3, OtherGoroutine, GotoFrame DEF Expire, Steps
<1>4. ASSUME NEW k \in Procs, Report(k) PROVE TimersInv'
  <2>1. pc'[k] = "called" /\ folder'[k] = folder[k]
        /\ \A j \in Procs \ {k} : pc'[j] = pc[j] /\ folder'[j] = folder[j]
    BY <1>4, GotoFrame DEF Report, Steps
  <2>2. pending' = [pending EXCEPT ![folder[k]] = None]
    BY <1>4 DEF Report
  <2>. SUFFICES ASSUME NEW g \in Folders, pending'[g] # None
                PROVE  folder'[pending'[g]] = g /\ pc'[pending'[g]] \in {"armed", "fired"}
    BY DEF TimersInv
  <2>3. g # folder[k] /\ pending'[g] = pending[g] /\ pending[g] \in Procs
    BY <2>2 DEF TypeOK
  <2>. QED
    BY <2>1, <2>3 DEF TimersInv
<1>5. ASSUME NEW k \in Procs, Wait(k) PROVE TimersInv'
  BY <1>5, OtherGoroutine, GotoFrame DEF Wait, Steps
<1>6. ASSUME NEW k \in Procs, AddPending(k) PROVE TimersInv'
  BY <1>6, OtherGoroutine, GotoFrame DEF AddPending, Steps
<1>7. ASSUME NEW k \in Procs, Released(k) PROVE TimersInv'
  BY <1>7, OtherGoroutine, GotoFrame DEF Released, Steps
<1>8. ASSUME NEW k \in Procs, CloseChannels(k) PROVE TimersInv'
  BY <1>8, OtherGoroutine, GotoFrame DEF CloseChannels, Steps
<1>9. ASSUME NEW k \in Procs, RemovePending(k) PROVE TimersInv'
  BY <1>9, OtherGoroutine, GotoFrame, EndFrame DEF RemovePending, Steps
<1>10. ASSUME NEW k \in Procs, BroadcastFolder(k) PROVE TimersInv'
  BY <1>10, OtherGoroutine, GotoFrame, EndFrame DEF BroadcastFolder, Steps
<1>11. ASSUME NEW k \in Procs, SendManifest(k) PROVE TimersInv'
  BY <1>11, OtherGoroutine, EndFrame DEF SendManifest
<1>12. ASSUME NEW k \in Procs, CatchUp(k) PROVE TimersInv'
  BY <1>12, OtherGoroutine, StartFrame, FolderChangesAssumption DEF CatchUp, Steps
<1>13. ASSUME NEW k \in Procs, PeerConnects(k) PROVE TimersInv'
  BY <1>13, OtherGoroutine, StartFrame, FolderChangesAssumption DEF PeerConnects, Steps
<1>14. ASSUME NEW k \in Procs, NEW f \in Folders, Approve(k, f) PROVE TimersInv'
  BY <1>14, OtherGoroutine, StartFrame DEF Approve, Steps
<1>15. CASE PeerGone
  BY <1>15, OtherGoroutine, EndFrame DEF PeerGone, Sending
<1>16. CASE StopGroup
  BY <1>16 DEF StopGroup, TimersInv
<1>17. CASE Restart
  BY <1>17 DEF Restart, TimersInv
<1>18. CASE UNCHANGED vars
  BY <1>18 DEF TimersInv, vars
<1>. QED
  BY <1>1, <1>2, <1>3, <1>4, <1>5, <1>6, <1>7, <1>8, <1>9, <1>10, <1>11, <1>12, <1>13, <1>14,
     <1>15, <1>16, <1>17, <1>18 DEF Next, Step

LEMMA TimersInvariance == Spec => []TimersInv
<1>1. Init => TimersInv
  BY DEF Init, TimersInv
<1>. QED
  BY <1>1, NextKeepsTimers, TypeCorrect, PTL DEF Spec

-----------------------------------------------------------------------------
(* The approval queue *)

\* A step that leaves the queue alone, and moves nobody who is in Wait or in
\* Approve, or past Wait.
LEMMA OutsideTheQueue ==
    ASSUME TypeOK, ChannelsInv, UNCHANGED <<mode, queueVars>>,
           \A j \in Procs :
               \/ pc'[j] = pc[j] /\ folder'[j] = folder[j]
               \/ /\ pc[j] \notin {"queued", "blocked", "unlisted", "approve"}
                  /\ pc'[j] \notin {"queued", "blocked", "unlisted", "approve",
                                    "remove", "cleared"}
    PROVE  ChannelsInv'
<1>. USE DEF queueVars
<1>1. \A j \in InWait : j \in InWait' /\ folder'[j] = folder[j]
  BY DEF InWait
<1>2. waiters \in SUBSET Procs /\ woken \in SUBSET Procs /\ taken \in [Procs -> SUBSET Procs]
  BY DEF TypeOK
<1>3. WaitersInv' /\ WokenInv'
  BY <1>1, <1>2 DEF ChannelsInv, WaitersInv, WokenInv
<1>4. TakenInv'
  <2>. SUFFICES ASSUME NEW j \in Procs, NEW k \in taken[j]
                PROVE  /\ pc'[j] = "approve" /\ k \in InWait' /\ folder'[k] = folder'[j]
                       /\ k \notin woken /\ \A i \in Procs \ {j} : k \notin taken[i]
    BY DEF TakenInv
  <2>1. /\ pc[j] = "approve" /\ k \in InWait /\ folder[k] = folder[j]
        /\ k \notin woken /\ \A i \in Procs \ {j} : k \notin taken[i]
    BY DEF ChannelsInv, TakenInv
  <2>. QED
    BY <1>1, <2>1
<1>5. ApprovedInv'
  BY DEF ChannelsInv, ApprovedInv
<1>6. NoLostWakeup'
  <2>. SUFFICES ASSUME NEW k \in Procs, pc'[k] \in {"queued", "blocked", "unlisted"}
                PROVE  \/ k \in waiters /\ folder'[k] \notin approved
                       \/ k \in woken
                       \/ \E j \in Procs : pc'[j] = "approve" /\ k \in taken[j]
    BY DEF NoLostWakeup
  <2>1. pc'[k] = pc[k] /\ folder'[k] = folder[k]
    OBVIOUS
  <2>2. \A j \in Procs : pc[j] = "approve" => pc'[j] = "approve"
    OBVIOUS
  <2>. QED
    BY <2>1, <2>2 DEF ChannelsInv, NoLostWakeup
<1>7. WaitingIsListed'
  BY <1>2 DEF ChannelsInv, WaitingIsListed
<1>8. ReleasedIsApproved'
  BY DEF ChannelsInv, ReleasedIsApproved
<1>. QED
  BY <1>3, <1>4, <1>5, <1>6, <1>7, <1>8 DEF ChannelsInv

\* The goroutine enters the map of waiters in the critical section that finds
\* its folder not approved.
LEMMA WaitKeepsChannels ==
    ASSUME TypeOK, ChannelsInv, NEW k \in Procs, Wait(k)
    PROVE  ChannelsInv'
<1>. USE DEF InWait
<1>0. /\ pc[k] = "called" /\ folder' = folder /\ pc' \in [Procs -> Steps]
      /\ \A j \in Procs \ {k} : pc'[j] = pc[j]
      /\ UNCHANGED <<mode, approved, taken, woken, rows>>
  BY DEF TypeOK, Wait, Goto, Steps
<1>1. CASE /\ mode = "auto" \/ folder[k] \in approved
           /\ pc'[k] = "cleared" /\ waiters' = waiters
  <2>1. WaitersInv' /\ TakenInv' /\ WokenInv' /\ ApprovedInv'
    BY <1>0, <1>1 DEF ChannelsInv, WaitersInv, TakenInv, WokenInv, ApprovedInv, TypeOK
  <2>2. NoLostWakeup'
    BY <1>0, <1>1 DEF ChannelsInv, NoLostWakeup
  <2>3. WaitingIsListed' /\ ReleasedIsApproved'
    BY <1>0, <1>1 DEF ChannelsInv, WaitingIsListed, ReleasedIsApproved, TypeOK
  <2>. QED
    BY <2>1, <2>2, <2>3 DEF ChannelsInv
<1>2. CASE folder[k] \notin approved /\ pc'[k] = "queued" /\ waiters' = waiters \cup {k}
  <2>1. WaitersInv' /\ TakenInv' /\ WokenInv' /\ ApprovedInv'
    BY <1>0, <1>2 DEF ChannelsInv, WaitersInv, TakenInv, WokenInv, ApprovedInv, TypeOK
  <2>2. NoLostWakeup'
    BY <1>0, <1>2 DEF ChannelsInv, NoLostWakeup
  <2>3. WaitingIsListed' /\ ReleasedIsApproved'
    BY <1>0, <1>2 DEF ChannelsInv, WaitingIsListed, ReleasedIsApproved, TypeOK
  <2>. QED
    BY <2>1, <2>2, <2>3 DEF ChannelsInv
<1>. QED
  BY <1>1, <1>2 DEF Wait, Goto, TypeOK

\* From the insert of the row on, its folder is listed; if it fails, the
\* goroutine is not "blocked".
LEMMA AddPendingKeepsChannels ==
    ASSUME TypeOK, ChannelsInv, NEW k \in Procs, AddPending(k)
    PROVE  ChannelsInv'
<1>. USE DEF InWait
<1>0. /\ pc[k] = "queued" /\ pc'[k] \in {"blocked", "unlisted"} /\ folder' = folder
      /\ \A j \in Procs \ {k} : pc'[j] = pc[j]
      /\ UNCHANGED <<mode, approved, waiters, taken, woken>>
  BY DEF TypeOK, AddPending, Goto
<1>1. WaitersInv' /\ TakenInv' /\ WokenInv' /\ ApprovedInv'
  BY <1>0 DEF ChannelsInv, WaitersInv, TakenInv, WokenInv, ApprovedInv, TypeOK
<1>2. NoLostWakeup'
  BY <1>0 DEF ChannelsInv, NoLostWakeup
<1>3. WaitingIsListed'
  <2>1. /\ \/ rows'[folder[k]] = rows[folder[k]] + 1
           \/ rows'[folder[k]] = rows[folder[k]] /\ pc'[k] = "unlisted"
        /\ \A f \in Folders \ {folder[k]} : rows'[f] = rows[f]
    BY DEF TypeOK, AddPending, Goto
  <2>2. folder \in [Procs -> Folders] /\ rows \in [Folders -> Nat] /\ waiters \in SUBSET Procs
    BY DEF TypeOK
  <2>. SUFFICES ASSUME NEW j \in waiters, pc'[j] = "blocked" PROVE rows'[folder[j]] > 0
    BY <1>0 DEF WaitingIsListed
  <2>3. CASE folder[j] = folder[k]
    <3>1. CASE rows'[folder[k]] = rows[folder[k]] + 1
      BY <2>2, <2>3, <3>1
    <3>2. CASE rows'[folder[k]] = rows[folder[k]] /\ pc'[k] = "unlisted"
      <4>1. j # k /\ pc[j] = "blocked"
        BY <1>0, <2>2, <3>2
      <4>. QED
        BY <2>3, <3>2, <4>1 DEF ChannelsInv, WaitingIsListed
    <3>. QED
      BY <2>1, <3>1, <3>2
  <2>4. CASE folder[j] # folder[k]
    BY <1>0, <2>1, <2>2, <2>4 DEF ChannelsInv, WaitingIsListed
  <2>. QED
    BY <2>3, <2>4
<1>4. ReleasedIsApproved'
  BY <1>0 DEF ChannelsInv, ReleasedIsApproved
<1>. QED
  BY <1>1, <1>2, <1>3, <1>4 DEF ChannelsInv

\* A closed channel is one of an approved folder.
LEMMA ReleasedKeepsChannels ==
    ASSUME TypeOK, ChannelsInv, NEW k \in Procs, Released(k)
    PROVE  ChannelsInv'
<1>. USE DEF InWait
<1>0. /\ pc[k] \in {"blocked", "unlisted"} /\ pc'[k] = "cleared" /\ folder' = folder
      /\ k \in woken /\ woken' = woken \ {k}
      /\ \A j \in Procs \ {k} : pc'[j] = pc[j]
      /\ UNCHANGED <<mode, approved, waiters, taken, rows>>
  BY DEF TypeOK, Released, Goto
<1>1. WaitersInv' /\ TakenInv' /\ WokenInv' /\ ApprovedInv'
  BY <1>0 DEF ChannelsInv, WaitersInv, TakenInv, WokenInv, ApprovedInv, TypeOK
<1>2. NoLostWakeup'
  BY <1>0 DEF ChannelsInv, NoLostWakeup
<1>3. WaitingIsListed' /\ ReleasedIsApproved'
  BY <1>0 DEF ChannelsInv, WaitingIsListed, ReleasedIsApproved, WokenInv, TypeOK
<1>. QED
  BY <1>1, <1>2, <1>3 DEF ChannelsInv

\* The waiters of the folder leave the map in the critical section that marks
\* it approved; nobody else has their channels.
LEMMA ApproveKeepsChannels ==
    ASSUME TypeOK, ChannelsInv, NEW k \in Procs, NEW f \in Folders, Approve(k, f)
    PROVE  ChannelsInv'
<1>. USE DEF InWait
<1>0. /\ pc[k] = "free" /\ pc'[k] = "approve" /\ folder'[k] = f
      /\ \A j \in Procs \ {k} : pc'[j] = pc[j] /\ folder'[j] = folder[j]
  BY StartFrame DEF Approve, Steps
<1>1. /\ approved' = approved \cup {f} /\ waiters' = waiters \ Waiting(f)
      /\ taken'[k] = Waiting(f) /\ \A j \in Procs \ {k} : taken'[j] = taken[j]
      /\ UNCHANGED <<mode, woken, rows>>
  BY DEF Approve, TypeOK
<1>2. waiters \in SUBSET Procs /\ woken \in SUBSET Procs /\ taken \in [Procs -> SUBSET Procs]
      /\ Waiting(f) = {j \in waiters : folder[j] = f}
  BY DEF TypeOK, Waiting
<1>3. k \notin waiters /\ k \notin woken /\ \A j \in Procs : k \notin taken[j]
  BY <1>0, <1>2 DEF ChannelsInv, WaitersInv, WokenInv, TakenInv
<1>4. \A j \in Waiting(f) : j \notin woken /\ \A i \in Procs : j \notin taken[i]
  BY <1>2 DEF ChannelsInv, WaitersInv, WokenInv, TakenInv, ApprovedInv
<1>5. WaitersInv' /\ WokenInv' /\ ApprovedInv'
  BY <1>0, <1>1, <1>2, <1>3 DEF ChannelsInv, WaitersInv, WokenInv, ApprovedInv
<1>6. TakenInv'
  <2>. SUFFICES ASSUME NEW j \in Procs, NEW i \in taken'[j]
                PROVE  /\ pc'[j] = "approve" /\ i \in InWait' /\ folder'[i] = folder'[j]
                       /\ i \notin woken' /\ \A h \in Procs \ {j} : i \notin taken'[h]
    BY DEF TakenInv
  <2>1. CASE j = k
    <3>1. i \in Waiting(f) /\ i # k /\ i \in InWait /\ i \in Procs
      BY <1>1, <1>2, <1>3, <2>1 DEF ChannelsInv, WaitersInv
    <3>. QED
      BY <1>0, <1>1, <1>2, <1>4, <2>1, <3>1
  <2>2. CASE j # k
    <3>1. /\ i \in taken[j] /\ i # k /\ i \notin Waiting(f)
          /\ pc[j] = "approve" /\ i \in InWait /\ folder[i] = folder[j]
          /\ i \notin woken /\ \A h \in Procs \ {j} : i \notin taken[h]
      BY <1>1, <1>3, <1>4, <2>2 DEF ChannelsInv, TakenInv
    <3>. QED
      BY <1>0, <1>1, <2>2, <3>1
  <2>. QED
    BY <2>1, <2>2
<1>7. NoLostWakeup'
  <2>. SUFFICES ASSUME NEW i \in Procs, pc'[i] \in {"queued", "blocked", "unlisted"}
                PROVE  \/ i \in waiters' /\ folder'[i] \notin approved'
                       \/ i \in woken'
                       \/ \E j \in Procs : pc'[j] = "approve" /\ i \in taken'[j]
    BY DEF NoLostWakeup
  <2>1. i # k /\ pc'[i] = pc[i] /\ folder'[i] = folder[i]
    BY <1>0
  <2>2. CASE i \in waiters /\ folder[i] \notin approved
    BY <1>0, <1>1, <1>2, <2>1, <2>2
  <2>3. CASE i \in woken
    BY <1>1, <2>3
  <2>4. CASE \E j \in Procs : pc[j] = "approve" /\ i \in taken[j]
    BY <1>0, <1>1, <2>4
  <2>. QED
    BY <2>1, <2>2, <2>3, <2>4 DEF ChannelsInv, NoLostWakeup
<1>8. WaitingIsListed' /\ ReleasedIsApproved'
  BY <1>0, <1>1, <1>2, <1>3 DEF ChannelsInv, WaitingIsListed, ReleasedIsApproved
<1>. QED
  BY <1>5, <1>6, <1>7, <1>8 DEF ChannelsInv

\* The channels that were taken are closed.
LEMMA CloseChannelsKeepsChannels ==
    ASSUME TypeOK, ChannelsInv, NEW k \in Procs, CloseChannels(k)
    PROVE  ChannelsInv'
<1>. USE DEF InWait
<1>0. /\ pc[k] = "approve" /\ pc'[k] = "remove" /\ folder' = folder
      /\ \A j \in Procs \ {k} : pc'[j] = pc[j]
      /\ woken' = woken \cup taken[k]
      /\ taken'[k] = {} /\ \A j \in Procs \ {k} : taken'[j] = taken[j]
      /\ UNCHANGED <<mode, approved, waiters, rows>>
  BY DEF TypeOK, CloseChannels, Goto
<1>1. waiters \in SUBSET Procs /\ woken \in SUBSET Procs /\ taken \in [Procs -> SUBSET Procs]
  BY DEF TypeOK
<1>2. WaitersInv' /\ ApprovedInv'
  BY <1>0, <1>1 DEF ChannelsInv, WaitersInv, ApprovedInv
<1>3. TakenInv'
  <2>. SUFFICES ASSUME NEW j \in Procs, NEW i \in taken'[j]
                PROVE  /\ pc'[j] = "approve" /\ i \in InWait' /\ folder'[i] = folder'[j]
                       /\ i \notin woken' /\ \A h \in Procs \ {j} : i \notin taken'[h]
    BY DEF TakenInv
  <2>1. j # k /\ i \in taken[j]
    BY <1>0
  <2>2. /\ pc[j] = "approve" /\ i \in InWait /\ folder[i] = folder[j]
        /\ i \notin woken /\ \A h \in Procs \ {j} : i \notin taken[h]
    BY <2>1 DEF ChannelsInv, TakenInv
  <2>. QED
    BY <1>0, <2>1, <2>2
<1>4. WokenInv'
  BY <1>0, <1>1 DEF ChannelsInv, WokenInv, TakenInv, ApprovedInv
<1>5. NoLostWakeup'
  BY <1>0 DEF ChannelsInv, NoLostWakeup
<1>6. WaitingIsListed' /\ ReleasedIsApproved'
  BY <1>0, <1>1 DEF ChannelsInv, WaitingIsListed, ReleasedIsApproved
<1>. QED
  BY <1>2, <1>3, <1>4, <1>5, <1>6 DEF ChannelsInv

\* The rows that go are those of an approved folder, for which nobody is in
\* the map.
LEMMA RemovePendingKeepsChannels ==
    ASSUME TypeOK, ChannelsInv, NEW k \in Procs, RemovePending(k)
    PROVE  ChannelsInv'
<1>. USE DEF InWait
<1>0. pc[k] = "remove" /\ UNCHANGED <<mode, approved, waiters, taken, woken>>
  BY DEF RemovePending
<1>1. CASE /\ rows' = [rows EXCEPT ![folder[k]] = 0]
           /\ Goto(k, "cleared") /\ UNCHANGED <<folder, manifest>>
  <2>0. /\ pc'[k] = "cleared" /\ folder' = folder
        /\ \A j \in Procs \ {k} : pc'[j] = pc[j]
        /\ \A f \in Folders \ {folder[k]} : rows'[f] = rows[f]
    BY <1>1 DEF TypeOK, Goto
  <2>1. folder \in [Procs -> Folders] /\ waiters \in SUBSET Procs /\ woken \in SUBSET Procs
        /\ taken \in [Procs -> SUBSET Procs]
    BY DEF TypeOK
  <2>2. WaitersInv' /\ TakenInv' /\ WokenInv' /\ ApprovedInv'
    BY <1>0, <2>0, <2>1 DEF ChannelsInv, WaitersInv, TakenInv, WokenInv, ApprovedInv
  <2>3. NoLostWakeup'
    BY <1>0, <2>0 DEF ChannelsInv, NoLostWakeup
  <2>4. WaitingIsListed'
    <3>. SUFFICES ASSUME NEW j \in waiters, pc'[j] = "blocked" PROVE rows'[folder[j]] > 0
      BY <1>0, <2>0 DEF WaitingIsListed
    <3>1. folder[k] \in approved /\ folder[j] \notin approved
      BY <1>0 DEF ChannelsInv, ApprovedInv, WaitersInv
    <3>2. j \in Procs \ {k} /\ pc[j] = "blocked"
      BY <2>0, <2>1, <3>1
    <3>. QED
      BY <2>0, <2>1, <3>1, <3>2 DEF ChannelsInv, WaitingIsListed
  <2>5. ReleasedIsApproved'
    BY <1>0, <2>0 DEF ChannelsInv, ReleasedIsApproved, ApprovedInv
  <2>. QED
    BY <2>2, <2>3, <2>4, <2>5 DEF ChannelsInv
<1>2. CASE UNCHANGED rows /\ End({k})
  BY <1>0, <1>2, EndFrame, OutsideTheQueue DEF queueVars
<1>. QED
  BY <1>1, <1>2 DEF RemovePending

LEMMA NextKeepsChannels == TypeOK /\ ChannelsInv /\ [Next]_vars => ChannelsInv'
<1>. SUFFICES ASSUME TypeOK, ChannelsInv, [Next]_vars PROVE ChannelsInv'
  OBVIOUS
<1>1. ASSUME NEW f \in Edited, Change(f) PROVE ChannelsInv'
  BY <1>1, OutsideTheQueue DEF Change
<1>2. ASSUME NEW f \in Folders, Schedule(f) PROVE ChannelsInv'
  BY <1>2, OutsideTheQueue, StartFrame DEF Schedule, Steps
<1>3. ASSUME NEW k \in Procs, Expire(k) PROVE ChannelsInv'
  BY <1>3, OutsideTheQueue, GotoFrame DEF Expire, Steps
<1>4. ASSUME NEW k \in Procs, Report(k) PROVE ChannelsInv'
  BY <1>4, OutsideTheQueue, GotoFrame DEF Report, Steps
<1>5. ASSUME NEW k \in Procs, BroadcastFolder(k) PROVE ChannelsInv'
  BY <1>5, OutsideTheQueue, GotoFrame, EndFrame DEF BroadcastFolder, Steps
<1>6. ASSUME NEW k \in Procs, SendManifest(k) PROVE ChannelsInv'
  BY <1>6, OutsideTheQueue, EndFrame DEF SendManifest
<1>7. ASSUME NEW k \in Procs, CatchUp(k) PROVE ChannelsInv'
  BY <1>7, OutsideTheQueue, StartFrame, FolderChangesAssumption DEF CatchUp, Steps
<1>8. ASSUME NEW k \in Procs, PeerConnects(k) PROVE ChannelsInv'
  BY <1>8, OutsideTheQueue, StartFrame, FolderChangesAssumption DEF PeerConnects, Steps
<1>9. CASE PeerGone
  BY <1>9, OutsideTheQueue, EndFrame DEF PeerGone, Sending
<1>10. CASE StopGroup
  BY <1>10, OutsideTheQueue, EndFrame DEF StopGroup, Sending
<1>11. CASE Restart
  <2>1. \A j \in Procs : pc'[j] = "free" /\ taken'[j] = {}
    BY <1>11, EndFrame DEF Restart
  <2>2. waiters' = {} /\ woken' = {}
    BY <1>11 DEF Restart
  <2>. QED
    BY <2>1, <2>2 DEF ChannelsInv, WaitersInv, TakenInv, WokenInv, ApprovedInv, NoLostWakeup,
                      WaitingIsListed, ReleasedIsApproved
<1>12. CASE UNCHANGED vars
  BY <1>12, OutsideTheQueue DEF vars
<1>. QED
  BY <1>1, <1>2, <1>3, <1>4, <1>5, <1>6, <1>7, <1>8, <1>9, <1>10, <1>11, <1>12,
     WaitKeepsChannels, AddPendingKeepsChannels, ReleasedKeepsChannels, ApproveKeepsChannels,
     CloseChannelsKeepsChannels, RemovePendingKeepsChannels DEF Next, Step

LEMMA ChannelsInvariance == Spec => []ChannelsInv
<1>1. Init => ChannelsInv
  BY DEF Init, ChannelsInv, WaitersInv, TakenInv, WokenInv, ApprovedInv, NoLostWakeup,
         WaitingIsListed, ReleasedIsApproved
<1>. QED
  BY <1>1, NextKeepsChannels, TypeCorrect, PTL DEF Spec

(***************************************************************************)
(* A goroutine in Queue.Wait is never forgotten: as long as its folder is  *)
(* not approved Approve will find its channel in the map, and afterwards   *)
(* the channel is closed or in the hands of the Approve that closes it.    *)
(***************************************************************************)
THEOREM WakeupsAreKept == Spec => []NoLostWakeup
  BY ChannelsInvariance, PTL DEF ChannelsInv

(***************************************************************************)
(* A goroutine whose INSERT succeeded has a row in pending_approval until  *)
(* its folder is approved, although rows and map change in sections of     *)
(* their own: an Approve that deletes rows has emptied the map for the     *)
(* folder.  Nothing is said of one whose INSERT failed: it waits unlisted. *)
(***************************************************************************)
THEOREM WaitersStayListed == Spec => []WaitingIsListed
  BY ChannelsInvariance, PTL DEF ChannelsInv

(***************************************************************************)
(* With approval = "ask_folder", nothing leaves Queue.Wait, or is about to *)
(* be broadcast by ApproveFolder, for a folder that is not approved.       *)
(***************************************************************************)
THEOREM OnlyApprovedPass == Spec => []ReleasedIsApproved
  BY ChannelsInvariance, PTL DEF ChannelsInv

-----------------------------------------------------------------------------
(* Refinement of ChangeFeed *)

\* Nobody takes a folder in hand or lets go of one.
LEMMA SameHands ==
    ASSUME events' = events,
           \A j \in Procs : pc[j] \in BeforeScan \/ pc'[j] \in BeforeScan =>
               /\ pc[j] \in BeforeScan /\ pc'[j] \in BeforeScan
               /\ folder'[j] = folder[j]
    PROVE  InHand' = InHand
  BY DEF InHand

LEMMA FeedStutters ==
    ASSUME UNCHANGED <<tree, store, closed>>, InHand' = InHand
    PROVE  UNCHANGED Feed!vars
  BY DEF Feed!vars

\* A goroutine takes the folder f in hand.
LEMMA FeedMarks ==
    ASSUME NEW k \in Procs, NEW f \in Folders, UNCHANGED <<tree, store, closed, events>>,
           pc[k] \notin BeforeScan, pc'[k] \in BeforeScan, folder'[k] = f,
           \A j \in Procs \ {k} : pc'[j] = pc[j] /\ folder'[j] = folder[j]
    PROVE  Feed!Next
<1>1. InHand' = InHand \cup {f}
  BY DEF InHand
<1>2. Feed!Mark(f)
  BY <1>1 DEF Feed!Mark
<1>. QED
  BY <1>2 DEF Feed!Next

\* fsnotify reports a change or misses it.
LEMMA ChangeRefines ==
    ASSUME TypeOK, NEW f \in Folders, Change(f)
    PROVE  Feed!Next
<1>1. \A g \in Folders \ {f} : events'[g] = events[g]
  BY DEF Change, TypeOK
<1>2. events'[f] = events[f] \/ (events[f] \in Nat /\ events'[f] = events[f] + 1)
  BY DEF Change, TypeOK
<1>3. InHand' = InHand \/ InHand' = InHand \cup {f}
  <2>1. CASE events'[f] = events[f]
    BY <1>1, <2>1 DEF InHand, Change
  <2>2. CASE events[f] \in Nat /\ events'[f] = events[f] + 1
    <3>1. events'[f] > 0
      BY <2>2
    <3>. QED
      BY <1>1, <3>1 DEF InHand, Change
  <2>. QED
    BY <1>2, <2>1, <2>2
<1>4. Feed!Change(f)
  BY <1>3 DEF Feed!Change, Change
<1>. QED
  BY <1>4 DEF Feed!Next

\* A timer that is armed for the folder stands for the event that was read.
LEMMA ScheduleRefines ==
    ASSUME TypeOK, TimersInv, NEW f \in Folders, Schedule(f)
    PROVE  UNCHANGED Feed!vars
<1>1. events[f] > 0 /\ \A g \in Folders \ {f} : events'[g] = events[g]
  BY DEF Schedule, TypeOK
<1>2. f \in InHand
  BY <1>1 DEF InHand
<1>3. CASE Running(f)
  <2>1. pending[f] \in Procs /\ folder[pending[f]] = f /\ pc[pending[f]] \in BeforeScan
    BY <1>3 DEF Running, TimersInv, TypeOK, BeforeScan
  <2>2. UNCHANGED <<pc, folder>>
    BY <1>3 DEF Schedule
  <2>3. f \in InHand'
    BY <2>1, <2>2 DEF InHand
  <2>4. InHand' = InHand
    BY <1>1, <1>2, <2>2, <2>3 DEF InHand
  <2>. QED
    BY <2>4, FeedStutters DEF Schedule
<1>4. CASE ~Running(f)
  <2>1. PICK k \in Procs : Start(k, f, "armed")
    BY <1>4 DEF Schedule
  <2>2. pc[k] = "free" /\ pc'[k] = "armed" /\ folder'[k] = f
        /\ \A j \in Procs \ {k} : pc'[j] = pc[j] /\ folder'[j] = folder[j]
    BY <2>1, StartFrame DEF Steps
  <2>3. f \in InHand'
    BY <2>2 DEF InHand, BeforeScan
  <2>4. InHand' = InHand
    BY <1>1, <1>2, <2>2, <2>3 DEF InHand, BeforeScan
  <2>. QED
    BY <2>4, FeedStutters DEF Schedule
<1>. QED
  BY <1>3, <1>4

\* The goroutine that scans lets go of its folder only.
LEMMA BroadcastFolderRefines ==
    ASSUME TypeOK, NEW k \in Procs, BroadcastFolder(k)
    PROVE  Feed!Next
<1>. DEFINE S == Scope(folder[k])
<1>1. S \in SUBSET Folders /\ folder[k] \in S
  BY ScopeTyped DEF TypeOK, Scope
<1>2. /\ pc[k] = "cleared" /\ pc'[k] \in {"sending", "free"}
      /\ \A j \in Procs \ {k} : pc'[j] = pc[j] /\ folder'[j] = folder[j]
      /\ UNCHANGED <<tree, events, closed>>
  BY GotoFrame, EndFrame DEF BroadcastFolder, Steps, watchVars
<1>3. InHand \ S \subseteq InHand' /\ InHand' \subseteq InHand
  BY <1>1, <1>2 DEF InHand, BeforeScan
<1>4. store' = [f \in Folders |-> IF f \in S THEN tree[f] ELSE store[f]]
  BY DEF BroadcastFolder, Recorded
<1>5. Feed!Scan(S)
  BY <1>2, <1>3, <1>4 DEF Feed!Scan
<1>. QED
  BY <1>1, <1>5 DEF Feed!Next

\* CatchUp scans what has changed and lets go of nothing.
LEMMA CatchUpRefines ==
    ASSUME TypeOK, NEW k \in Procs, CatchUp(k)
    PROVE  Feed!Next
<1>. DEFINE S == {f \in Folders : store[f] # tree[f]}
<1>1. /\ pc[k] = "free" /\ pc'[k] = "sending"
      /\ \A j \in Procs \ {k} : pc'[j] = pc[j] /\ folder'[j] = folder[j]
  BY StartFrame, FolderChangesAssumption DEF CatchUp, Steps
<1>2. InHand' = InHand
  BY <1>1, SameHands DEF CatchUp, watchVars, BeforeScan
<1>3. Feed!Scan(S)
  BY <1>2 DEF Feed!Scan, CatchUp, Recorded, watchVars
<1>. QED
  BY <1>3 DEF Feed!Next

\* RemovePending is where an approved folder is taken in hand.
LEMMA RemovePendingRefines ==
    ASSUME TypeOK, NEW k \in Procs, RemovePending(k)
    PROVE  Feed!Next \/ UNCHANGED Feed!vars
<1>1. pc[k] = "remove" /\ UNCHANGED <<tree, store, closed, events>>
  BY DEF RemovePending, watchVars
<1>2. CASE Goto(k, "cleared") /\ UNCHANGED <<folder, manifest>>
  <2>1. pc'[k] = "cleared" /\ folder'[k] = folder[k]
        /\ \A j \in Procs \ {k} : pc'[j] = pc[j] /\ folder'[j] = folder[j]
    BY <1>2, GotoFrame DEF Steps
  <2>2. folder[k] \in Folders
    BY DEF TypeOK
  <2>. QED
    BY <1>1, <2>1, <2>2, FeedMarks DEF BeforeScan
<1>3. CASE End({k})
  BY <1>1, <1>3, EndFrame, SameHands, FeedStutters DEF BeforeScan
<1>. QED
  BY <1>2, <1>3 DEF RemovePending

LEMMA StepRefines ==
    ASSUME TypeOK, NEW k \in Procs, Step(k)
    PROVE  Feed!Next \/ UNCHANGED Feed!vars
<1>. USE DEF watchVars, queueVars
<1>1. CASE Expire(k)
  BY <1>1, GotoFrame, SameHands, FeedStutters DEF Expire, Steps, BeforeScan
<1>2. CASE Report(k)
  BY <1>2, GotoFrame, SameHands, FeedStutters DEF Report, Steps, BeforeScan
<1>3. CASE Wait(k)
  BY <1>3, GotoFrame, SameHands, FeedStutters DEF Wait, Steps, BeforeScan
<1>4. CASE AddPending(k)
  BY <1>4, GotoFrame, SameHands, FeedStutters DEF AddPending, Steps, BeforeScan
<1>5. CASE Released(k)
  BY <1>5, GotoFrame, SameHands, FeedStutters DEF Released, Steps, BeforeScan
<1>6. CASE CloseChannels(k)
  BY <1>6, GotoFrame, SameHands, FeedStutters DEF CloseChannels, Steps, BeforeScan
<1>7. CASE SendManifest(k)
  BY <1>7, EndFrame, SameHands, FeedStutters DEF SendManifest, BeforeScan
<1>. QED
  BY <1>1, <1>2, <1>3, <1>4, <1>5, <1>6, <1>7, RemovePendingRefines, BroadcastFolderRefines
     DEF Step

LEMMA NextRefines == TypeOK /\ TimersInv /\ [Next]_vars => [Feed!Next]_(Feed!vars)
<1>. SUFFICES ASSUME TypeOK, TimersInv, [Next]_vars
              PROVE  Feed!Next \/ UNCHANGED Feed!vars
  OBVIOUS
<1>1. ASSUME NEW k \in Procs, PeerConnects(k) PROVE Feed!Next
  BY <1>1, StartFrame, FeedMarks, FolderChangesAssumption
     DEF PeerConnects, Steps, BeforeScan, watchVars
<1>2. ASSUME NEW k \in Procs, NEW f \in Folders, Approve(k, f) PROVE UNCHANGED Feed!vars
  BY <1>2, StartFrame, SameHands, FeedStutters DEF Approve, Steps, BeforeScan, watchVars
<1>3. CASE PeerGone
  BY <1>3, EndFrame, SameHands, FeedStutters DEF PeerGone, Sending, BeforeScan, watchVars
<1>4. CASE StopGroup
  <2>1. InHand' \subseteq InHand
    BY <1>4, EndFrame DEF StopGroup, Sending, InHand, BeforeScan
  <2>2. Feed!Stop
    BY <1>4, <2>1 DEF StopGroup, Feed!Stop
  <2>. QED
    BY <2>2 DEF Feed!Next
<1>5. CASE Restart
  <2>1. InHand' = {}
    BY <1>5, EndFrame DEF Restart, InHand, BeforeScan
  <2>2. Feed!Restart
    BY <1>5, <2>1 DEF Restart, Feed!Restart
  <2>. QED
    BY <2>2 DEF Feed!Next
<1>6. CASE UNCHANGED vars
  <2>1. InHand' = InHand
    BY <1>6 DEF vars, watchVars, InHand
  <2>. QED
    BY <1>6, <2>1, FeedStutters DEF vars, watchVars
<1>. QED
  BY <1>1, <1>2, <1>3, <1>4, <1>5, <1>6, StepRefines, ScheduleRefines, ChangeRefines,
     CatchUpRefines, FolderChangesAssumption DEF Next

(***************************************************************************)
(* FolderChanges implements ChangeFeed: while the daemon watches, no race  *)
(* of timers, approvals and goroutines takes a reported change out of      *)
(* everybody's hands before its folder is scanned.                         *)
(***************************************************************************)
THEOREM FeedIsImplemented == Spec => FeedSpec
<1>1. Init => Feed!Init
  BY DEF Init, Feed!Init, InHand, BeforeScan
<1>. QED
  BY <1>1, NextRefines, TypeCorrect, TimersInvariance, PTL DEF Spec, FeedSpec, Feed!Spec

\* Whoever lets go of a folder has just recorded it, or the daemon stops.
LetGo == \A f \in InHand \ InHand' : store'[f] = tree'[f] \/ closed'

(***************************************************************************)
(* What this means for a change that the watcher has read: the step that   *)
(* takes its folder out of everybody's hands is a scan that records the    *)
(* tree as it is then, a restart, which scans everything, or Group.Stop.   *)
(***************************************************************************)
THEOREM ReportedIsRecorded == Spec => [][LetGo]_vars
<1>1. TypeOK /\ TimersInv /\ [Next]_vars => [LetGo]_vars
  <2>. SUFFICES ASSUME TypeOK, TimersInv, [Next]_vars, NEW f \in InHand \ InHand'
                PROVE  store'[f] = tree'[f] \/ closed'
    BY DEF LetGo
  <2>1. f \in Folders
    BY DEF InHand
  <2>2. Feed!Next
    BY NextRefines DEF Feed!vars
  <2>3. ASSUME NEW g \in Folders, Feed!Change(g) \/ Feed!Mark(g) PROVE FALSE
    BY <2>3 DEF Feed!Change, Feed!Mark
  <2>4. ASSUME NEW S \in SUBSET Folders, Feed!Scan(S) PROVE store'[f] = tree'[f]
    BY <2>1, <2>4 DEF Feed!Scan
  <2>5. CASE Feed!Stop
    BY <2>5 DEF Feed!Stop
  <2>6. CASE Feed!Restart
    BY <2>6 DEF Feed!Restart
  <2>. QED
    BY <2>2, <2>3, <2>4, <2>5, <2>6 DEF Feed!Next
<1>. QED
  BY <1>1, TypeCorrect, TimersInvariance, PTL DEF Spec
=============================================================================
