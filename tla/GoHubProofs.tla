---------------------------- MODULE GoHubProofs ----------------------------
(***************************************************************************)
(* What GoHub guarantees for every number of connections, rooms, shards    *)
(* and requests.                                                           *)
(***************************************************************************)
EXTENDS GoHub, TLAPS

USE RootAssumption, ShardAssumption, NoneAssumption, BoundAssumption,
    AdapterAssumption

(* Updating one entry of a table of tables keeps its type. *)
LEMMA NestedUpdate ==
    ASSUME NEW S, NEW T, NEW V, NEW f \in [S -> [T -> V]],
           NEW s \in S, NEW t, NEW v, t \in T => v \in V
    PROVE  [f EXCEPT ![s][t] = v] \in [S -> [T -> V]]
  OBVIOUS

(* room.emit marks only connections as slow. *)
LEMMA EmitType ==
    ASSUME TypeOK, NEW c, NEW r \in Rooms, NEW i \in Incs, Emit(c, r, i)
    PROVE  slow' \subseteq Conns
<1>1. members[r][i] \subseteq Conns
  BY DEF TypeOK
<1> QED
  BY <1>1 DEF Emit, TypeOK

(* joinRoom's lookup under the shard lock ends with the room that was       *)
(* mapped before, or with one that nobody refers to.                        *)
LEMMA JoinLockRoom ==
    ASSUME TypeOK, NEW c \in Conns, JoinLock(c)
    PROVE  \E i \in Incs :
              /\ live' = [live EXCEPT ![cur["main"][c]] = i]
              /\ ptr' = [ptr EXCEPT !["main"][c] = i]
              /\ live[cur["main"][c]] \in {i, None}
<1> DEFINE r == cur["main"][c]
           i == IF live[r] # None THEN live[r]
                ELSE CHOOSE j \in FreshIncs(r) : TRUE
<1>1. live' = [live EXCEPT ![r] = i] /\ ptr' = [ptr EXCEPT !["main"][c] = i]
  BY DEF JoinLock
<1>2. CASE live[r] # None
  <2>1. live[r] \in Incs
    BY <1>2 DEF TypeOK, Roles
  <2> QED
    BY <1>1, <1>2, <2>1
<1>3. CASE live[r] = None
  <2>1. FreshIncs(r) # {}
    BY <1>3 DEF JoinLock
  <2>2. (CHOOSE j \in FreshIncs(r) : TRUE) \in FreshIncs(r)
    BY <2>1, Zenon
  <2> QED
    BY <1>1, <1>3, <2>2 DEF FreshIncs
<1> QED
  BY <1>2, <1>3

-----------------------------------------------------------------------------
(* Types.  TypeOK needs PtrInv: room.emit reads the members of the room the *)
(* goroutine holds.                                                         *)

LEMMA TypeInit == Init => TypeOK /\ PtrInv
  BY DEF Init, TypeOK, Roles, MainPC, CleanPC, PtrInv, HoldsRoom

LEMMA TypeStep ==
    ASSUME TypeOK, PtrInv, [Next]_vars
    PROVE  TypeOK' /\ PtrInv'
<1> USE DEF TypeOK, PtrInv, HoldsRoom, Roles, MainPC, CleanPC, Goto, hubVars,
            threadVars, adapterVars
<1>1. ASSUME NEW c \in Conns, Accept(c) PROVE TypeOK' /\ PtrInv'
  BY <1>1 DEF Accept
<1>2. ASSUME NEW c \in Conns, NEW r \in Rooms, NEW kind \in {"join", "leave"},
             Request(c, r, kind)
      PROVE  TypeOK' /\ PtrInv'
  BY <1>2 DEF Request
<1>3. ASSUME NEW c \in Conns, ReadFails(c) PROVE TypeOK' /\ PtrInv'
  BY <1>3 DEF ReadFails, ExitAndCleanup
<1>4. ASSUME NEW c \in Conns, JoinCheck(c) PROVE TypeOK' /\ PtrInv'
  BY <1>4 DEF JoinCheck
<1>5. ASSUME NEW c \in Conns, JoinLock(c) PROVE TypeOK' /\ PtrInv'
  <2>1. PICK i \in Incs : /\ live' = [live EXCEPT ![cur["main"][c]] = i]
                          /\ ptr' = [ptr EXCEPT !["main"][c] = i]
    BY <1>5, JoinLockRoom
  <2>2. /\ lock' = [lock EXCEPT ![ShardOf[cur["main"][c]]] = c]
        /\ pc' = [pc EXCEPT !["main"][c] = "track"]
        /\ UNCHANGED <<conns, done, tracked, members, cur, op, todo, snap, slow,
                       presence, removals, requests>>
    BY <1>5 DEF JoinLock
  <2> QED
    BY <2>1, <2>2
<1>6. ASSUME NEW c \in Conns, JoinTrack(c) PROVE TypeOK' /\ PtrInv'
  BY <1>6 DEF JoinTrack
<1>7. ASSUME NEW c \in Conns, JoinRefused(c) PROVE TypeOK' /\ PtrInv'
  BY <1>7 DEF JoinRefused
<1>8. ASSUME NEW c \in Conns, JoinMember(c) PROVE TypeOK' /\ PtrInv'
  <2>1. cur["main"][c] \in Rooms /\ ptr["main"][c] \in Incs
    BY <1>8 DEF JoinMember
  <2>2. members[cur["main"][c]][ptr["main"][c]] \cup {c} \in SUBSET Conns
    BY <2>1
  <2>3. members' \in [Rooms -> [Incs -> SUBSET Conns]]
    BY <1>8, <2>1, <2>2, NestedUpdate DEF JoinMember
  <2> QED
    BY <1>8, <2>3 DEF JoinMember
<1>9. ASSUME NEW c \in Conns, JoinPresence(c) PROVE TypeOK' /\ PtrInv'
  <2>1. presence[cur["main"][c]] \cup {c} \in SUBSET Conns
    OBVIOUS
  <2>2. CASE presence' = [presence EXCEPT ![cur["main"][c]] = @ \cup {c}]
    BY <1>9, <2>1, <2>2 DEF JoinPresence
  <2>3. CASE presence' = presence
    BY <1>9, <2>3 DEF JoinPresence
  <2> QED
    BY <1>9, <2>2, <2>3 DEF JoinPresence
<1>10. ASSUME NEW c \in Conns, JoinAnnounce(c) PROVE TypeOK' /\ PtrInv'
  <2>1. cur["main"][c] \in Rooms /\ ptr["main"][c] \in Incs
    BY <1>10 DEF JoinAnnounce
  <2>2. slow' \subseteq Conns
    BY <1>10, <2>1, EmitType DEF JoinAnnounce
  <2> QED
    BY <1>10, <2>2 DEF JoinAnnounce
<1>11. ASSUME NEW c \in Conns, SnapLocal(c) PROVE TypeOK' /\ PtrInv'
  BY <1>11 DEF SnapLocal, LocalMembers
<1>12. ASSUME NEW c \in Conns, SnapCluster(c) PROVE TypeOK' /\ PtrInv'
  <2>1. snap[c] \cup presence[cur["main"][c]] \in SUBSET Conns
    OBVIOUS
  <2>2. CASE snap' = [snap EXCEPT ![c] = @ \cup presence[cur["main"][c]]]
    BY <1>12, <2>1, <2>2 DEF SnapCluster
  <2>3. CASE snap' = snap
    BY <1>12, <2>3 DEF SnapCluster
  <2> QED
    BY <1>12, <2>2, <2>3 DEF SnapCluster
<1>13. ASSUME NEW c \in Conns, AckQueued(c) PROVE TypeOK' /\ PtrInv'
  BY <1>13 DEF AckQueued
<1>14. ASSUME NEW c \in Conns, AckDropped(c) PROVE TypeOK' /\ PtrInv'
  <2>1. slow' \subseteq Conns
    BY <1>14 DEF AckDropped
  <2>0. /\ snap' = [snap EXCEPT ![c] = {}]
        /\ UNCHANGED <<conns, tracked, live, members, lock, cur, ptr, op, todo,
                       presence, removals, requests>>
    BY <1>14 DEF AckDropped
  <2>2. CASE ExitAndCleanup(c)
    BY <2>0, <2>1, <2>2 DEF ExitAndCleanup
  <2>3. CASE pc' = [pc EXCEPT !["main"][c] = "idle"] /\ done' = done
    BY <2>0, <2>1, <2>3
  <2> QED
    BY <1>14, <2>2, <2>3 DEF AckDropped
<1>15. ASSUME NEW c \in Conns, Untrack(c) PROVE TypeOK' /\ PtrInv'
  BY <1>15 DEF Untrack
<1>16. ASSUME NEW w \in Roles, NEW c \in Conns, LeaveLookup(w, c)
       PROVE  TypeOK' /\ PtrInv'
  BY <1>16 DEF LeaveLookup, AfterLeave
<1>17. ASSUME NEW w \in Roles, NEW c \in Conns, LeaveRemove(w, c)
       PROVE  TypeOK' /\ PtrInv'
  <2>1. cur[w][c] \in Rooms /\ ptr[w][c] \in Incs
    BY <1>17 DEF LeaveRemove
  <2>2. members[cur[w][c]][ptr[w][c]] \ {c} \in SUBSET Conns
    BY <2>1
  <2>3. members' = [members EXCEPT ![cur[w][c]][ptr[w][c]] = @ \ {c}]
    BY <1>17 DEF LeaveRemove
  <2>4. members' \in [Rooms -> [Incs -> SUBSET Conns]]
    BY <2>1, <2>2, <2>3, NestedUpdate
  <2> QED
    BY <1>17, <2>4 DEF LeaveRemove
<1>18. ASSUME NEW w \in Roles, NEW c \in Conns, LeaveGC(w, c)
       PROVE  TypeOK' /\ PtrInv'
  BY <1>18 DEF LeaveGC
<1>19. ASSUME NEW w \in Roles, NEW c \in Conns, LeaveDepart(w, c)
       PROVE  TypeOK' /\ PtrInv'
  <2>1. cur[w][c] \in Rooms /\ ptr[w][c] \in Incs
    BY <1>19 DEF LeaveDepart
  <2>2. slow' \subseteq Conns
    BY <1>19, <2>1, EmitType DEF LeaveDepart
  <2> QED
    BY <1>19, <2>2 DEF LeaveDepart, AfterLeave
<1>20. ASSUME NEW c \in Conns, StartCleanup(c) PROVE TypeOK' /\ PtrInv'
  BY <1>20 DEF StartCleanup
<1>21. ASSUME NEW c \in Conns, Collect(c) PROVE TypeOK' /\ PtrInv'
  BY <1>21 DEF Collect
<1>22. ASSUME NEW c \in Conns, NEW r \in Rooms, NextRoom(c, r)
       PROVE  TypeOK' /\ PtrInv'
  BY <1>22 DEF NextRoom
<1>23. ASSUME NEW c \in Conns, Unregister(c) PROVE TypeOK' /\ PtrInv'
  BY <1>23 DEF Unregister
<1>24. ASSUME NEW r \in Rooms, NEW c \in Conns, RunRemoval(r, c)
       PROVE  TypeOK' /\ PtrInv'
  <2>1. presence[r] \ {c} \in SUBSET Conns
    OBVIOUS
  <2>2. CASE presence' = [presence EXCEPT ![r] = @ \ {c}]
    BY <1>24, <2>1, <2>2 DEF RunRemoval
  <2>3. CASE presence' = presence
    BY <1>24, <2>3 DEF RunRemoval
  <2> QED
    BY <1>24, <2>2, <2>3 DEF RunRemoval
<1>25. CASE UNCHANGED vars
  BY <1>25 DEF vars
<1> HIDE DEF TypeOK, PtrInv
<1> QED
  BY <1>1, <1>2, <1>3, <1>4, <1>5, <1>6, <1>7, <1>8, <1>9, <1>10, <1>11,
     <1>12, <1>13, <1>14, <1>15, <1>16, <1>17, <1>18, <1>19, <1>20, <1>21,
     <1>22, <1>23, <1>24, <1>25
     DEF Next, MainStep, Join, Ack, Leave, Teardown, Background, AllGone

(* Every variable keeps its type: no goroutine reaches a point of the code  *)
(* that is not its own, no counter of started RemovePresence goroutines     *)
(* drops below zero, and newRoom yields a room.                             *)
THEOREM TypeCorrect == Spec => []TypeOK
  BY TypeInit, TypeStep, PTL DEF Spec

-----------------------------------------------------------------------------
(* The other parts of IndInv, one by one *)

(* The shard locks.  Only joinRoom's critical section spans several steps,  *)
(* and while it lasts neither another joinRoom nor removeRoom gets at the   *)
(* map entry it has read.                                                   *)
LEMMA LockInvStep ==
    ASSUME TypeOK, TypeOK', LockInv, [Next]_vars
    PROVE  LockInv'
<1> DEFINE Frame ==
       /\ lock' = lock /\ live' = live
       /\ \A d \in Conns :
            /\ InCritical(d)' <=> InCritical(d)
            /\ InCritical(d) => /\ cur'["main"][d] = cur["main"][d]
                                /\ ptr'["main"][d] = ptr["main"][d]
<1>0. ASSUME Frame PROVE LockInv'
  BY <1>0 DEF LockInv, InCritical, TypeOK, Roles
<1> USE DEF TypeOK, Roles, MainPC, CleanPC, Goto, hubVars, threadVars,
            adapterVars, LockInv, InCritical
<1>1. ASSUME NEW c \in Conns, JoinLock(c) PROVE LockInv'
  BY <1>1 DEF JoinLock, Unlocked
<1>2. ASSUME NEW c \in Conns, JoinTrack(c) PROVE LockInv'
  BY <1>2 DEF JoinTrack, MayTrack
<1>3. ASSUME NEW c \in Conns, JoinRefused(c) PROVE LockInv'
  BY <1>3 DEF JoinRefused, MayTrack
<1>4. ASSUME NEW c \in Conns, JoinMember(c) PROVE LockInv'
  BY <1>4 DEF JoinMember
<1>5. ASSUME NEW w \in Roles, NEW c \in Conns, LeaveGC(w, c) PROVE LockInv'
  BY <1>5 DEF LeaveGC, Removable, Unlocked
<1>6. ASSUME NEW c \in Conns,
             \/ Accept(c) \/ ReadFails(c) \/ JoinCheck(c) \/ JoinPresence(c)
             \/ JoinAnnounce(c) \/ SnapLocal(c) \/ SnapCluster(c)
      PROVE  Frame
  BY <1>6 DEF Accept, ReadFails, ExitAndCleanup, JoinCheck, JoinPresence,
     JoinAnnounce, SnapLocal, SnapCluster
<1>7. ASSUME NEW c \in Conns,
             \/ AckQueued(c) \/ AckDropped(c) \/ Untrack(c)
             \/ StartCleanup(c) \/ Collect(c) \/ Unregister(c)
      PROVE  Frame
  BY <1>7 DEF AckQueued, AckDropped, ExitAndCleanup, Untrack, StartCleanup,
     Collect, Unregister
<1>8. ASSUME NEW w \in Roles, NEW c \in Conns,
             \/ LeaveLookup(w, c) \/ LeaveRemove(w, c) \/ LeaveDepart(w, c)
      PROVE  Frame
  BY <1>8 DEF LeaveLookup, AfterLeave, LeaveRemove, LeaveDepart
<1>9. ASSUME NEW r \in Rooms, NEW c \in Conns,
             \/ NextRoom(c, r) \/ RunRemoval(r, c)
      PROVE  Frame
  BY <1>9 DEF NextRoom, RunRemoval
<1>10. ASSUME NEW c \in Conns, NEW r \in Rooms, NEW kind \in {"join", "leave"},
             Request(c, r, kind)
      PROVE  Frame
  BY <1>10 DEF Request
<1>11. CASE UNCHANGED vars
  BY <1>11 DEF vars
<1> HIDE DEF TypeOK, LockInv, InCritical
<1> QED
  BY <1>0, <1>1, <1>2, <1>3, <1>4, <1>5, <1>6, <1>7, <1>8, <1>9, <1>10, <1>11
     DEF Next, MainStep, Join, Ack, Leave, Teardown, Background, AllGone

(* Closing done and winning cleanupOnce are one event, and trackRoom's      *)
(* second look at done keeps c.rooms from growing behind joinedRooms.       *)
LEMMA CleanInvStep ==
    ASSUME TypeOK, TypeOK', CleanInv, [Next]_vars
    PROVE  CleanInv'
<1> USE DEF TypeOK, Roles, MainPC, CleanPC, Goto, hubVars, threadVars,
            adapterVars, CleanInv
<1>1. ASSUME NEW c \in Conns, ReadFails(c) PROVE CleanInv'
  BY <1>1 DEF ReadFails, ExitAndCleanup
<1>2. ASSUME NEW c \in Conns, JoinTrack(c) PROVE CleanInv'
  BY <1>2 DEF JoinTrack, MayTrack
<1>3. ASSUME NEW c \in Conns, AckDropped(c) PROVE CleanInv'
  BY <1>3 DEF AckDropped, ExitAndCleanup
<1>4. ASSUME NEW c \in Conns, Untrack(c) PROVE CleanInv'
  BY <1>4 DEF Untrack
<1>5. ASSUME NEW c \in Conns, StartCleanup(c) PROVE CleanInv'
  BY <1>5 DEF StartCleanup
<1>6. ASSUME NEW c \in Conns, Collect(c) PROVE CleanInv'
  BY <1>6 DEF Collect
<1>7. ASSUME NEW c \in Conns, NEW r \in Rooms, NextRoom(c, r) PROVE CleanInv'
  BY <1>7 DEF NextRoom
<1>8. ASSUME NEW c \in Conns, Unregister(c) PROVE CleanInv'
  BY <1>8 DEF Unregister
<1>9. ASSUME NEW c \in Conns,
             \/ Accept(c) \/ JoinCheck(c) \/ JoinLock(c) \/ JoinRefused(c)
      PROVE  CleanInv'
  BY <1>9 DEF Accept, JoinCheck, JoinLock, JoinRefused
<1>10. ASSUME NEW c \in Conns,
             \/ JoinMember(c) \/ JoinPresence(c) \/ JoinAnnounce(c)
             \/ SnapLocal(c)
      PROVE  CleanInv'
  BY <1>10 DEF JoinMember, JoinPresence, JoinAnnounce, SnapLocal
<1>11. ASSUME NEW c \in Conns,
             \/ SnapCluster(c) \/ AckQueued(c)
      PROVE  CleanInv'
  BY <1>11 DEF SnapCluster, AckQueued
<1>12. ASSUME NEW w \in Roles, NEW c \in Conns,
             \/ LeaveLookup(w, c) \/ LeaveRemove(w, c) \/ LeaveGC(w, c)
             \/ LeaveDepart(w, c)
      PROVE  CleanInv'
  BY <1>12 DEF LeaveLookup, AfterLeave, LeaveRemove, LeaveGC, LeaveDepart
<1>13. ASSUME NEW r \in Rooms, NEW c \in Conns,
             RunRemoval(r, c)
      PROVE  CleanInv'
  BY <1>13 DEF RunRemoval
<1>14. ASSUME NEW c \in Conns, NEW r \in Rooms, NEW kind \in {"join", "leave"},
             Request(c, r, kind)
      PROVE  CleanInv'
  BY <1>14 DEF Request
<1>15. CASE UNCHANGED vars
  BY <1>15 DEF vars
<1> HIDE DEF TypeOK, CleanInv
<1> QED
  BY <1>1, <1>2, <1>3, <1>4, <1>5, <1>6, <1>7, <1>8, <1>9, <1>10, <1>11,
     <1>12, <1>13, <1>14, <1>15
     DEF Next, MainStep, Join, Ack, Leave, Teardown, Background, AllGone

(* A joiner that has tracked its room is seen by the teardown, which waits  *)
(* for the shard lock before it looks the room up.                          *)
LEMMA JoinerInvStep ==
    ASSUME TypeOK, TypeOK', LockInv, CleanInv, JoinerInv, [Next]_vars
    PROVE  JoinerInv'
<1> USE DEF TypeOK, Roles, MainPC, CleanPC, Goto, hubVars, threadVars,
            adapterVars, LockInv, InCritical, CleanInv, JoinerInv
<1>1. ASSUME NEW c \in Conns, JoinTrack(c) PROVE JoinerInv'
  BY <1>1 DEF JoinTrack, MayTrack
<1>2. ASSUME NEW w \in Roles, NEW c \in Conns,
             LeaveLookup(w, c)
      PROVE  JoinerInv'
  BY <1>2 DEF LeaveLookup, AfterLeave, Unlocked
<1>3. ASSUME NEW c \in Conns, Collect(c) PROVE JoinerInv'
  BY <1>3 DEF Collect
<1>4. ASSUME NEW c \in Conns, NEW r \in Rooms, NextRoom(c, r) PROVE JoinerInv'
  BY <1>4 DEF NextRoom
<1>5. ASSUME NEW c \in Conns,
             \/ Accept(c) \/ ReadFails(c) \/ JoinCheck(c) \/ JoinLock(c)
      PROVE  JoinerInv'
  BY <1>5 DEF Accept, ReadFails, ExitAndCleanup, JoinCheck, JoinLock
<1>6. ASSUME NEW c \in Conns,
             \/ JoinRefused(c) \/ JoinMember(c) \/ JoinPresence(c)
             \/ JoinAnnounce(c)
      PROVE  JoinerInv'
  BY <1>6 DEF JoinRefused, JoinMember, JoinPresence, JoinAnnounce
<1>7. ASSUME NEW c \in Conns,
             \/ SnapLocal(c) \/ SnapCluster(c) \/ AckQueued(c)
             \/ AckDropped(c)
      PROVE  JoinerInv'
  BY <1>7 DEF SnapLocal, SnapCluster, AckQueued, AckDropped, ExitAndCleanup
<1>8. ASSUME NEW c \in Conns,
             \/ Untrack(c) \/ StartCleanup(c) \/ Unregister(c)
      PROVE  JoinerInv'
  BY <1>8 DEF Untrack, StartCleanup, Unregister
<1>9. ASSUME NEW w \in Roles, NEW c \in Conns,
             \/ LeaveRemove(w, c) \/ LeaveGC(w, c) \/ LeaveDepart(w, c)
      PROVE  JoinerInv'
  BY <1>9 DEF LeaveRemove, LeaveGC, LeaveDepart, AfterLeave
<1>10. ASSUME NEW r \in Rooms, NEW c \in Conns,
             RunRemoval(r, c)
      PROVE  JoinerInv'
  BY <1>10 DEF RunRemoval
<1>11. ASSUME NEW c \in Conns, NEW r \in Rooms, NEW kind \in {"join", "leave"},
             Request(c, r, kind)
      PROVE  JoinerInv'
  BY <1>11 DEF Request
<1>12. CASE UNCHANGED vars
  BY <1>12 DEF vars
<1> HIDE DEF TypeOK, LockInv, InCritical, CleanInv, JoinerInv
<1> QED
  BY <1>1, <1>2, <1>3, <1>4, <1>5, <1>6, <1>7, <1>8, <1>9, <1>10, <1>11, <1>12
     DEF Next, MainStep, Join, Ack, Leave, Teardown, Background, AllGone

(* The heart of the argument: addMember puts c into the mapped room while   *)
(* somebody is bound to take it out again, removeMember is applied to that  *)
(* same room, and removeRoom unmaps only an empty one.                      *)
LEMMA MemberInvStep ==
    ASSUME TypeOK, TypeOK', PtrInv, LockInv, CleanInv, MemberInv, JoinerInv,
           [Next]_vars
    PROVE  MemberInv'
<1> USE DEF TypeOK, Roles, MainPC, CleanPC, Goto, hubVars, threadVars,
            adapterVars, PtrInv, HoldsRoom, LockInv, InCritical, CleanInv,
            MemberInv, JoinerInv, Removing
<1>1. ASSUME NEW c \in Conns, ReadFails(c) PROVE MemberInv'
  BY <1>1 DEF ReadFails, ExitAndCleanup
<1>2. ASSUME NEW c \in Conns, JoinLock(c) PROVE MemberInv'
  BY <1>2 DEF JoinLock, Unlocked
<1>3. ASSUME NEW c \in Conns, JoinTrack(c) PROVE MemberInv'
  BY <1>3 DEF JoinTrack, MayTrack
<1>4. ASSUME NEW c \in Conns, JoinMember(c) PROVE MemberInv'
  BY <1>4 DEF JoinMember
<1>5. ASSUME NEW c \in Conns, Untrack(c) PROVE MemberInv'
  BY <1>5 DEF Untrack
<1>6. ASSUME NEW w \in Roles, NEW c \in Conns,
             LeaveLookup(w, c)
      PROVE  MemberInv'
  BY <1>6 DEF LeaveLookup, AfterLeave, Unlocked
<1>7. ASSUME NEW w \in Roles, NEW c \in Conns,
             LeaveRemove(w, c)
      PROVE  MemberInv'
  BY <1>7 DEF LeaveRemove
<1>8. ASSUME NEW w \in Roles, NEW c \in Conns, LeaveGC(w, c) PROVE MemberInv'
  BY <1>8 DEF LeaveGC, Removable, Unlocked
<1>9. ASSUME NEW c \in Conns, Collect(c) PROVE MemberInv'
  BY <1>9 DEF Collect
<1>10. ASSUME NEW c \in Conns, NEW r \in Rooms,
             NextRoom(c, r)
      PROVE  MemberInv'
  BY <1>10 DEF NextRoom
<1>11. ASSUME NEW c \in Conns,
             \/ Accept(c) \/ JoinCheck(c) \/ JoinRefused(c)
      PROVE  MemberInv'
  BY <1>11 DEF Accept, JoinCheck, JoinRefused
<1>12. ASSUME NEW c \in Conns,
             \/ JoinPresence(c) \/ JoinAnnounce(c) \/ SnapLocal(c)
      PROVE  MemberInv'
  BY <1>12 DEF JoinPresence, JoinAnnounce, SnapLocal
<1>13. ASSUME NEW c \in Conns,
             \/ SnapCluster(c) \/ AckQueued(c) \/ AckDropped(c)
      PROVE  MemberInv'
  BY <1>13 DEF SnapCluster, AckQueued, AckDropped, ExitAndCleanup
<1>14. ASSUME NEW c \in Conns,
             \/ StartCleanup(c) \/ Unregister(c)
      PROVE  MemberInv'
  BY <1>14 DEF StartCleanup, Unregister
<1>15. ASSUME NEW w \in Roles, NEW c \in Conns,
             LeaveDepart(w, c)
      PROVE  MemberInv'
  BY <1>15 DEF LeaveDepart, AfterLeave
<1>16. ASSUME NEW r \in Rooms, NEW c \in Conns,
             RunRemoval(r, c)
      PROVE  MemberInv'
  BY <1>16 DEF RunRemoval
<1>17. ASSUME NEW c \in Conns, NEW r \in Rooms, NEW kind \in {"join", "leave"},
             Request(c, r, kind)
      PROVE  MemberInv'
  BY <1>17 DEF Request
<1>18. CASE UNCHANGED vars
  BY <1>18 DEF vars
<1> HIDE DEF TypeOK, PtrInv, HoldsRoom, LockInv, InCritical, CleanInv,
             MemberInv, JoinerInv, Removing
<1> QED
  BY <1>1, <1>2, <1>3, <1>4, <1>5, <1>6, <1>7, <1>8, <1>9, <1>10, <1>11,
     <1>12, <1>13, <1>14, <1>15, <1>16, <1>17, <1>18
     DEF Next, MainStep, Join, Ack, Leave, Teardown, Background, AllGone

(* c.rooms runs ahead of room.members only between trackRoom and addMember. *)
LEMMA TrackedInvStep ==
    ASSUME TypeOK, TypeOK', PtrInv, LockInv, CleanInv, TrackedInv, [Next]_vars
    PROVE  TrackedInv'
<1> USE DEF TypeOK, Roles, MainPC, CleanPC, Goto, hubVars, threadVars,
            adapterVars, PtrInv, HoldsRoom, LockInv, InCritical, CleanInv,
            TrackedInv, LocalMembers, Leaving
<1>1. ASSUME NEW c \in Conns, JoinLock(c) PROVE TrackedInv'
  BY <1>1 DEF JoinLock, Unlocked
<1>2. ASSUME NEW c \in Conns, JoinTrack(c) PROVE TrackedInv'
  BY <1>2 DEF JoinTrack, MayTrack
<1>3. ASSUME NEW c \in Conns, JoinMember(c) PROVE TrackedInv'
  BY <1>3 DEF JoinMember
<1>4. ASSUME NEW c \in Conns, Untrack(c) PROVE TrackedInv'
  BY <1>4 DEF Untrack
<1>5. ASSUME NEW w \in Roles, NEW c \in Conns,
             LeaveRemove(w, c)
      PROVE  TrackedInv'
  BY <1>5 DEF LeaveRemove
<1>6. ASSUME NEW w \in Roles, NEW c \in Conns, LeaveGC(w, c) PROVE TrackedInv'
  BY <1>6 DEF LeaveGC, Removable, Unlocked
<1>7. ASSUME NEW c \in Conns, NEW r \in Rooms,
             NextRoom(c, r)
      PROVE  TrackedInv'
  BY <1>7 DEF NextRoom
<1>8. ASSUME NEW c \in Conns,
             \/ Accept(c) \/ ReadFails(c) \/ JoinCheck(c) \/ JoinRefused(c)
      PROVE  TrackedInv'
  BY <1>8 DEF Accept, ReadFails, ExitAndCleanup, JoinCheck, JoinRefused
<1>9. ASSUME NEW c \in Conns,
             \/ JoinPresence(c) \/ JoinAnnounce(c) \/ SnapLocal(c)
             \/ SnapCluster(c)
      PROVE  TrackedInv'
  BY <1>9 DEF JoinPresence, JoinAnnounce, SnapLocal, SnapCluster
<1>10. ASSUME NEW c \in Conns,
             \/ AckQueued(c) \/ AckDropped(c) \/ StartCleanup(c)
             \/ Collect(c)
      PROVE  TrackedInv'
  BY <1>10 DEF AckQueued, AckDropped, ExitAndCleanup, StartCleanup, Collect
<1>11. ASSUME NEW c \in Conns,
             Unregister(c)
      PROVE  TrackedInv'
  BY <1>11 DEF Unregister
<1>12. ASSUME NEW w \in Roles, NEW c \in Conns,
             \/ LeaveLookup(w, c) \/ LeaveDepart(w, c)
      PROVE  TrackedInv'
  BY <1>12 DEF LeaveLookup, AfterLeave, LeaveDepart
<1>13. ASSUME NEW r \in Rooms, NEW c \in Conns,
             RunRemoval(r, c)
      PROVE  TrackedInv'
  BY <1>13 DEF RunRemoval
<1>14. ASSUME NEW c \in Conns, NEW r \in Rooms, NEW kind \in {"join", "leave"},
             Request(c, r, kind)
      PROVE  TrackedInv'
  BY <1>14 DEF Request
<1>15. CASE UNCHANGED vars
  BY <1>15 DEF vars
<1> HIDE DEF TypeOK, PtrInv, HoldsRoom, LockInv, InCritical, CleanInv,
             TrackedInv, LocalMembers, Leaving
<1> QED
  BY <1>1, <1>2, <1>3, <1>4, <1>5, <1>6, <1>7, <1>8, <1>9, <1>10, <1>11,
     <1>12, <1>13, <1>14, <1>15
     DEF Next, MainStep, Join, Ack, Leave, Teardown, Background, AllGone

(* Nothing but its own leave takes an open connection out of a room, so it  *)
(* is still there when getClusterPresence takes its snapshot.               *)
LEMMA AckInvStep ==
    ASSUME TypeOK, TypeOK', CleanInv, JoinerInv, TrackedInv, AckInv,
           [Next]_vars
    PROVE  AckInv'
<1> USE DEF TypeOK, Roles, MainPC, CleanPC, Goto, hubVars, threadVars,
            adapterVars, CleanInv, JoinerInv, TrackedInv, LocalMembers,
            Leaving, AckInv
<1>1. ASSUME NEW c \in Conns, NEW r \in Rooms, NEW kind \in {"join", "leave"},
             Request(c, r, kind)
      PROVE  AckInv'
  BY <1>1 DEF Request
<1>2. ASSUME NEW c \in Conns, JoinCheck(c) PROVE AckInv'
  BY <1>2 DEF JoinCheck
<1>3. ASSUME NEW c \in Conns, JoinRefused(c) PROVE AckInv'
  BY <1>3 DEF JoinRefused, MayTrack
<1>4. ASSUME NEW c \in Conns, JoinMember(c) PROVE AckInv'
  <2>1. c \notin done => cur["main"][c] \in tracked[c]
    BY <1>4 DEF JoinMember
  <2> QED
    BY <1>4, <2>1 DEF JoinMember
<1>5. ASSUME NEW c \in Conns, SnapLocal(c) PROVE AckInv'
  BY <1>5 DEF SnapLocal
<1>6. ASSUME NEW c \in Conns, SnapCluster(c) PROVE AckInv'
  BY <1>6 DEF SnapCluster
<1>7. ASSUME NEW c \in Conns, Untrack(c) PROVE AckInv'
  BY <1>7 DEF Untrack
<1>8. ASSUME NEW c \in Conns, NEW r \in Rooms, NextRoom(c, r) PROVE AckInv'
  BY <1>8 DEF NextRoom
<1>9. ASSUME NEW c \in Conns,
             \/ Accept(c) \/ ReadFails(c) \/ JoinLock(c) \/ JoinTrack(c)
      PROVE  AckInv'
  BY <1>9 DEF Accept, ReadFails, ExitAndCleanup, JoinLock, JoinTrack
<1>10. ASSUME NEW c \in Conns,
             \/ JoinPresence(c) \/ JoinAnnounce(c) \/ AckQueued(c)
             \/ AckDropped(c)
      PROVE  AckInv'
  BY <1>10 DEF JoinPresence, JoinAnnounce, AckQueued, AckDropped,
     ExitAndCleanup
<1>11. ASSUME NEW c \in Conns,
             \/ StartCleanup(c) \/ Collect(c) \/ Unregister(c)
      PROVE  AckInv'
  BY <1>11 DEF StartCleanup, Collect, Unregister
<1>12. ASSUME NEW w \in Roles, NEW c \in Conns,
             \/ LeaveLookup(w, c) \/ LeaveRemove(w, c) \/ LeaveGC(w, c)
             \/ LeaveDepart(w, c)
      PROVE  AckInv'
  BY <1>12 DEF LeaveLookup, AfterLeave, LeaveRemove, LeaveGC, LeaveDepart
<1>13. ASSUME NEW r \in Rooms, NEW c \in Conns,
             RunRemoval(r, c)
      PROVE  AckInv'
  BY <1>13 DEF RunRemoval
<1>14. CASE UNCHANGED vars
  BY <1>14 DEF vars
<1> HIDE DEF TypeOK, CleanInv, JoinerInv, TrackedInv, LocalMembers, Leaving,
             AckInv
<1> QED
  BY <1>1, <1>2, <1>3, <1>4, <1>5, <1>6, <1>7, <1>8, <1>9, <1>10, <1>11,
     <1>12, <1>13, <1>14
     DEF Next, MainStep, Join, Ack, Leave, Teardown, Background, AllGone

(* AddPresence and the start of RemovePresence both happen on main, in the  *)
(* order of the joins and leaves, while the connection is open.             *)
LEMMA PresenceInvStep ==
    ASSUME TypeOK, TypeOK', CleanInv, JoinerInv, TrackedInv, AckInv,
           PresenceInv, [Next]_vars
    PROVE  PresenceInv'
<1> DEFINE Frame ==
       /\ presence' = presence /\ removals' = removals
       /\ members' = members /\ live' = live
       /\ \A d \in Conns : d \notin done' =>
            /\ d \notin done
            /\ tracked'[d] = tracked[d]
            /\ pc["main"][d] \in {"lookup", "remove", "gc", "depart"}
                 => /\ pc'["main"][d] = pc["main"][d]
                    /\ cur'["main"][d] = cur["main"][d]
<1>0. ASSUME Frame PROVE PresenceInv'
  BY <1>0 DEF PresenceInv, LocalMembers, TypeOK, Roles
<1> USE DEF TypeOK, Roles, MainPC, CleanPC, Goto, hubVars, threadVars,
            adapterVars, CleanInv, TrackedInv, LocalMembers, Leaving, AckInv,
            PresenceInv
<1>1. ASSUME NEW c \in Conns, JoinLock(c) PROVE PresenceInv'
  BY <1>1 DEF JoinLock, Unlocked
<1>2. ASSUME NEW c \in Conns, JoinTrack(c) PROVE PresenceInv'
  BY <1>2 DEF JoinTrack, MayTrack
<1>3. ASSUME NEW c \in Conns, JoinMember(c) PROVE PresenceInv'
  BY <1>3 DEF JoinMember
<1>4. ASSUME NEW c \in Conns, JoinPresence(c) PROVE PresenceInv'
  <2>1. c \notin done => cur["main"][c] \in tracked[c]
    BY <1>4 DEF JoinPresence
  <2>2. CASE presence' = [presence EXCEPT ![cur["main"][c]] = @ \cup {c}]
    BY <1>4, <2>1, <2>2 DEF JoinPresence
  <2>3. CASE presence' = presence
    BY <1>4, <2>3 DEF JoinPresence
  <2> QED
    BY <1>4, <2>2, <2>3 DEF JoinPresence
<1>5. ASSUME NEW c \in Conns, Untrack(c) PROVE PresenceInv'
  BY <1>5 DEF Untrack
<1>6. ASSUME NEW w \in Roles, NEW c \in Conns,
             LeaveLookup(w, c)
      PROVE  PresenceInv'
  BY <1>6 DEF LeaveLookup, AfterLeave, Unlocked
<1>7. ASSUME NEW w \in Roles, NEW c \in Conns,
             LeaveRemove(w, c)
      PROVE  PresenceInv'
  BY <1>7 DEF LeaveRemove
<1>8. ASSUME NEW w \in Roles, NEW c \in Conns,
             LeaveGC(w, c)
      PROVE  PresenceInv'
  BY <1>8 DEF LeaveGC, Removable, Unlocked
<1>9. ASSUME NEW w \in Roles, NEW c \in Conns,
             LeaveDepart(w, c)
      PROVE  PresenceInv'
  BY <1>9 DEF LeaveDepart, AfterLeave
<1>10. ASSUME NEW r \in Rooms, NEW c \in Conns,
             RunRemoval(r, c)
      PROVE  PresenceInv'
  BY <1>10 DEF RunRemoval
<1>11. ASSUME NEW c \in Conns,
             \/ Accept(c) \/ ReadFails(c) \/ JoinCheck(c) \/ JoinRefused(c)
             \/ JoinAnnounce(c) \/ SnapLocal(c) \/ SnapCluster(c)
      PROVE  Frame
  BY <1>11 DEF Accept, ReadFails, ExitAndCleanup, JoinCheck, JoinRefused,
     JoinAnnounce, SnapLocal, SnapCluster
<1>12. ASSUME NEW c \in Conns,
             \/ AckQueued(c) \/ AckDropped(c) \/ StartCleanup(c)
             \/ Collect(c) \/ Unregister(c)
      PROVE  Frame
  BY <1>12 DEF AckQueued, AckDropped, ExitAndCleanup, StartCleanup, Collect,
     Unregister
<1>13. ASSUME NEW r \in Rooms, NEW c \in Conns,
             NextRoom(c, r)
      PROVE  Frame
  BY <1>13 DEF NextRoom
<1>14. ASSUME NEW c \in Conns, NEW r \in Rooms, NEW kind \in {"join", "leave"},
             Request(c, r, kind)
      PROVE  Frame
  BY <1>14 DEF Request
<1>15. CASE UNCHANGED vars
  BY <1>15 DEF vars
<1> HIDE DEF TypeOK, CleanInv, TrackedInv, LocalMembers, Leaving, AckInv,
             PresenceInv
<1> QED
  BY <1>0, <1>1, <1>2, <1>3, <1>4, <1>5, <1>6, <1>7, <1>8, <1>9, <1>10, <1>11,
     <1>12, <1>13, <1>14, <1>15
     DEF Next, MainStep, Join, Ack, Leave, Teardown, Background, AllGone

-----------------------------------------------------------------------------
(* Safety *)

LEMMA IndInvInit == Init => IndInv
<1>1. Init => TypeOK /\ PtrInv
  BY TypeInit
<1>2. Init => LockInv /\ CleanInv /\ JoinerInv /\ AckInv
  BY DEF Init, LockInv, InCritical, CleanInv, JoinerInv, AckInv, Roles
<1>3. Init => MemberInv /\ TrackedInv /\ PresenceInv
  BY DEF Init, MemberInv, TrackedInv, Leaving, PresenceInv, Roles
<1> QED
  BY <1>1, <1>2, <1>3 DEF IndInv

LEMMA IndInvStep == IndInv /\ [Next]_vars => IndInv'
<1> SUFFICES ASSUME IndInv, [Next]_vars PROVE IndInv'
  OBVIOUS
<1>1. TypeOK' /\ PtrInv'
  BY TypeStep DEF IndInv
<1>2. LockInv' /\ CleanInv' /\ JoinerInv'
  BY <1>1, LockInvStep, CleanInvStep, JoinerInvStep DEF IndInv
<1>3. MemberInv' /\ TrackedInv' /\ AckInv' /\ PresenceInv'
  BY <1>1, MemberInvStep, TrackedInvStep, AckInvStep, PresenceInvStep
     DEF IndInv
<1> QED
  BY <1>1, <1>2, <1>3 DEF IndInv

(* The inductive invariant holds in every behaviour of the Go hub. *)
THEOREM Inductive == Spec => []IndInv
  BY IndInvInit, IndInvStep, PTL DEF Spec

(* removeRoom never unmaps a room that joinRoom has just entered: a room    *)
(* with members is always the one the shard map has under its name.         *)
THEOREM OrphanFree == Spec => []NoOrphanRoom
<1>1. IndInv => NoOrphanRoom
  <2> SUFFICES ASSUME IndInv, NEW r \in Rooms, NEW i \in Incs,
                      members[r][i] # {}
               PROVE  live[r] = i
    BY DEF NoOrphanRoom
  <2>1. PICK c \in Conns : c \in members[r][i]
    BY DEF IndInv, TypeOK
  <2> QED
    BY <2>1 DEF IndInv, MemberInv
<1> QED
  BY <1>1, Inductive, PTL

(* A finished cleanup leaves no zombie member behind, however it was        *)
(* interleaved with a joinRoom or leaveRoom of the same connection.         *)
THEOREM ZombieFree == Spec => []NoZombieMembers
<1>1. IndInv => NoZombieMembers
  <2> SUFFICES ASSUME IndInv, NEW c \in Conns, pc["clean"][c] = "closed",
                      ~Leaving("main", c), NEW r \in Rooms, NEW i \in Incs,
                      c \in members[r][i]
               PROVE  FALSE
    BY DEF NoZombieMembers
  <2>1. todo[c] = {} /\ tracked[c] = {}
    BY DEF IndInv, CleanInv, TypeOK
  <2>2. \E w \in Roles : Removing(w, c, r, i)
    BY <2>1 DEF IndInv, MemberInv
  <2> QED
    BY <2>2 DEF Removing, Leaving, Roles
<1> QED
  BY <1>1, Inductive, PTL

(* Conn.rooms and room.members agree between two requests of an open        *)
(* connection.                                                              *)
THEOREM TrackingExact == Spec => []TrackedIffMember
<1>1. IndInv => TrackedIffMember
  <2> SUFFICES ASSUME IndInv, NEW c \in Conns, pc["main"][c] = "idle",
                      pc["clean"][c] = "none", NEW r \in Rooms
               PROVE  r \in tracked[c] <=> c \in LocalMembers(r)
    BY DEF TrackedIffMember
  <2>1. r \in tracked[c] => c \in LocalMembers(r)
    BY DEF IndInv, TrackedInv
  <2>2. ASSUME c \in LocalMembers(r) PROVE r \in tracked[c]
    <3>1. live[r] \in Incs /\ c \in members[r][live[r]]
      BY <2>2 DEF LocalMembers, IndInv, TypeOK
    <3>2. todo[c] = {}
      BY DEF IndInv, CleanInv
    <3>3. ~\E w \in Roles : Removing(w, c, r, live[r])
      BY DEF Removing, Roles
    <3> QED
      BY <3>1, <3>2, <3>3 DEF IndInv, MemberInv
  <2> QED
    BY <2>1, <2>2
<1> QED
  BY <1>1, Inductive, PTL

(* The join_ack an open connection gets for a join lists the connection.    *)
THEOREM AckComplete == Spec => []AckListsSelf
<1>1. IndInv => AckListsSelf
  BY DEF IndInv, AckInv, AckListsSelf
<1> QED
  BY <1>1, Inductive, PTL

(* With an adapter that does not fail, the presence sets keep no open       *)
(* connection in a room it has left, once its removals have run.            *)
THEOREM PresenceSound == Spec => []PresenceOfLiveConns
<1>1. IndInv => PresenceOfLiveConns
  BY DEF IndInv, PresenceInv, PresenceOfLiveConns
<1> QED
  BY <1>1, Inductive, PTL

(* A room leaves the shard map only when it is empty. *)
THEOREM OnlyEmptyRemoved == Spec => OnlyEmptyRoomsRemoved
<1> DEFINE Kept == \A r \in Rooms : live[r] # None /\ live'[r] # live[r]
                                      => members[r][live[r]] = {}
<1>1. ASSUME TypeOK, [Next]_vars PROVE Kept
  <2>1. ASSUME NEW c \in Conns, JoinLock(c) PROVE Kept
    BY <1>1, <2>1, JoinLockRoom DEF TypeOK
  <2>2. ASSUME NEW w \in Roles, NEW c \in Conns, LeaveGC(w, c) PROVE Kept
    BY <1>1, <2>2 DEF LeaveGC, Removable, TypeOK
  <2>3. ASSUME UNCHANGED live PROVE Kept
    BY <2>3
  <2>4. \/ \E c \in Conns : JoinLock(c)
        \/ \E w \in Roles, c \in Conns : LeaveGC(w, c)
        \/ UNCHANGED live
    <3> USE DEF Roles, hubVars
    <3>1. ASSUME NEW c \in Conns, Join(c) PROVE JoinLock(c) \/ UNCHANGED live
      BY <3>1 DEF Join, JoinCheck, JoinTrack, JoinRefused, JoinMember,
         JoinPresence, JoinAnnounce
    <3>2. ASSUME NEW c \in Conns, Ack(c) \/ Untrack(c) PROVE UNCHANGED live
      BY <3>2 DEF Ack, SnapLocal, SnapCluster, AckQueued, AckDropped, Untrack
    <3>3. ASSUME NEW w \in Roles, NEW c \in Conns, Leave(w, c)
          PROVE  LeaveGC(w, c) \/ UNCHANGED live
      BY <3>3 DEF Leave, LeaveLookup, LeaveRemove, LeaveDepart
    <3>4. ASSUME NEW c \in Conns, NEW r \in Rooms,
                 \/ Accept(c) \/ ReadFails(c) \/ StartCleanup(c) \/ Collect(c)
                 \/ NextRoom(c, r) \/ Unregister(c) \/ RunRemoval(r, c)
                 \/ \E kind \in {"join", "leave"} : Request(c, r, kind)
          PROVE  UNCHANGED live
      BY <3>4 DEF Accept, ReadFails, StartCleanup, Collect, NextRoom,
         Unregister, RunRemoval, Request
    <3>5. CASE UNCHANGED vars
      BY <3>5 DEF vars
    <3> QED
      BY <1>1, <3>1, <3>2, <3>3, <3>4, <3>5
         DEF Next, MainStep, Teardown, Background, AllGone
  <2> QED
    BY <2>1, <2>2, <2>3, <2>4
<1> QED
  BY <1>1, TypeCorrect, PTL DEF Spec, OnlyEmptyRoomsRemoved

=============================================================================
