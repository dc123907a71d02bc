-------------------------- MODULE DiskResize_proofs --------------------------
(***************************************************************************)
(* The nesting of disk, partition and file system, and the refinement of    *)
(* VolumeGrowth by DiskResize, for any set of volumes and any bounds.       *)
(***************************************************************************)
EXTENDS DiskResize, TLAPS

(* The devices each step of grow() is reached for. *)
Routed ==
    /\ pc \in {"idle", "lookup", "growpart", "fs", "powershell", "after"}
    /\ pc = "growpart" => vol.dev \in {"partition", "blocked"}
    /\ pc = "powershell" => vol.dev \in Windows
    /\ vol.dev \in Windows => fs = part
    /\ pc \in {"fs", "after"} => vol.dev \in {"partition", "blocked", "whole", "mapper"}

(* What a call was asked for stays within reach of the steps it has left:    *)
(* of growpart before it ran, of the file system's tool after it, and in the *)
(* end it is reached.                                                        *)
WithinReach ==
    /\ goal \in Nat
    /\ goal <= Room
    /\ pc = "growpart" => goal <= PartEnd
    /\ pc = "fs" => goal <= FsEnd
    /\ pc = "after" => goal <= fs

ResizeInv == vol \in Volumes /\ TypeOK /\ Routed /\ WithinReach

(* Initially no call is under way and the sizes are nested. *)
LEMMA InitResize == Init => ResizeInv
  <1> SUFFICES ASSUME Init PROVE ResizeInv
    OBVIOUS
  <1>1. disk \in 1..MaxSize /\ part \in 1..disk /\ fs \in 1..FsEnd /\ vol \in Volumes
    BY DEF Init
  <1>2. Room \in Nat
    BY <1>1, BoundAssumption DEF Room, FsEnd
  <1> QED
    BY <1>1, <1>2, BoundAssumption
    DEF Init, ResizeInv, TypeOK, Routed, WithinReach, FsEnd, Windows

(* Every step keeps the sizes nested and the call's goal within reach. *)
LEMMA NextResize == ResizeInv /\ [Next]_vars => ResizeInv'
  <1> SUFFICES ASSUME ResizeInv, [Next]_vars PROVE ResizeInv'
    OBVIOUS
  <1>a. vol \in Volumes /\ vol.dev \in Devs
    BY VolumeAssumption DEF ResizeInv
  <1>b. /\ disk \in Nat /\ part \in Nat /\ fs \in Nat /\ goal \in Nat
        /\ 1 <= disk /\ disk <= MaxSize /\ 1 <= part /\ part <= disk /\ 1 <= fs /\ fs <= FsEnd
        /\ MaxSize \in Nat
    BY BoundAssumption DEF ResizeInv, TypeOK, WithinReach, FsEnd
  <1> USE <1>a, <1>b
        DEF ResizeInv, TypeOK, Routed, WithinReach, FsEnd, PartEnd, Room, Devs, Windows,
            Answer, Goto, sizes
  <1>1. CASE Expand
    BY <1>1 DEF Expand
  <1>2. CASE Resize
    BY <1>2 DEF Resize
  <1>3. CASE LookUp
    BY <1>3 DEF LookUp, FirstStep
  <1>4. CASE \E t \in Tools : Install(t)
    BY <1>4 DEF Install
  <1>5. CASE GrowPart
    BY <1>5 DEF GrowPart
  <1>6. CASE GrowFs
    BY <1>6 DEF GrowFs
  <1>7. CASE UnsupportedFs
    BY <1>7 DEF UnsupportedFs
  <1>8. CASE ToolFails
    BY <1>8 DEF ToolFails, Partway
  <1>9. CASE PowerShell
    BY <1>9 DEF PowerShell
  <1>10. CASE Report
    BY <1>10 DEF Report
  <1>11. CASE Crash
    BY <1>11 DEF Crash, Partway
  <1>12. CASE UNCHANGED vars
    BY <1>12 DEF vars
  <1> QED
    BY <1>1, <1>2, <1>3, <1>4, <1>5, <1>6, <1>7, <1>8, <1>9, <1>10, <1>11, <1>12
    DEF Next, AgentStep

(* The inductive invariant holds in every execution. *)
THEOREM ResizeInvariant == Spec => []ResizeInv
  BY InitResize, NextResize, PTL DEF Spec

(* Whatever is stopped in the middle, the file system stays within its       *)
(* partition and the partition within the disk.                              *)
THEOREM SizesNested == Spec => []TypeOK
  <1>1. ResizeInv => TypeOK
    BY DEF ResizeInv
  <1> QED
    BY <1>1, ResizeInvariant, PTL

(* A tool that was stopped has not shrunk the file system, nor taken it past *)
(* its room, and the room is what it was.                                    *)
LEMMA PartwayFacts ==
    ResizeInv /\ Partway /\ UNCHANGED <<vol, disk>> => fs' \in fs..Room /\ Room' = Room
  <1> SUFFICES ASSUME ResizeInv, Partway, UNCHANGED <<vol, disk>>
               PROVE  fs' \in fs..Room /\ Room' = Room
    OBVIOUS
  <1>a. /\ disk \in Nat /\ part \in Nat /\ fs \in Nat
        /\ part <= disk /\ fs <= FsEnd
    BY BoundAssumption DEF ResizeInv, TypeOK, FsEnd
  <1>1. CASE pc = "growpart" /\ part' \in {part, PartEnd} /\ UNCHANGED fs
    BY <1>1, <1>a DEF ResizeInv, Routed, PartEnd, FsEnd, Room
  <1>2. CASE pc = "fs" /\ fs' \in fs..FsEnd /\ UNCHANGED part
    BY <1>2, <1>a DEF ResizeInv, Routed, FsEnd, Room
  <1>3. CASE pc = "powershell" /\ part' \in {part, PartEnd} /\ fs' = part'
    BY <1>3, <1>a DEF ResizeInv, Routed, FsEnd, Room, PartEnd, Windows
  <1> QED
    BY <1>1, <1>2, <1>3 DEF Partway

(* A step of Resize is a step of the promise or changes nothing of it. *)
LEMMA ResizeSimulates ==
    ResizeInv /\ [Next]_vars => [Promise!Next]_<<Room, fs, goal, result>>
  <1> SUFFICES ASSUME ResizeInv, [Next]_vars
               PROVE  [Promise!Next]_<<Room, fs, goal, result>>
    OBVIOUS
  <1>a. vol.dev \in Devs
    BY VolumeAssumption DEF ResizeInv
  <1>b. /\ disk \in Nat /\ part \in Nat /\ fs \in Nat /\ goal \in Nat
        /\ 1 <= disk /\ 1 <= part /\ part <= disk /\ 1 <= fs /\ fs <= FsEnd
    BY BoundAssumption DEF ResizeInv, TypeOK, WithinReach, FsEnd
  <1>c. goal <= Room /\ ((goal = 0) = (pc = "idle"))
    BY DEF ResizeInv, TypeOK, WithinReach
  <1> USE <1>a, <1>b, <1>c DEF FsEnd, PartEnd, Room, Devs, Windows, Answer, Goto, sizes
  <1>1. CASE Expand
    <2>1. Promise!Expand \/ UNCHANGED <<Room, fs, goal, result>>
      BY <1>1 DEF Expand, Promise!Expand
    <2> QED
      BY <2>1 DEF Promise!Next
  <1>2. CASE Resize
    <2>1. Promise!Ask
      BY <1>2 DEF Resize, Promise!Ask
    <2> QED
      BY <2>1 DEF Promise!Next
  <1>3. CASE LookUp
    <2>1. Promise!Fail \/ UNCHANGED <<Room, fs, goal, result>>
      BY <1>3 DEF LookUp, Promise!Fail, ResizeInv, WithinReach
    <2> QED
      BY <2>1 DEF Promise!Next
  <1>4. CASE \E t \in Tools : Install(t)
    <2>1. Promise!Fail \/ UNCHANGED <<Room, fs, goal, result>>
      BY <1>4 DEF Install, Promise!Fail
    <2> QED
      BY <2>1 DEF Promise!Next
  <1>5. CASE GrowPart
    <2>1. UNCHANGED <<Room, fs, goal, result>>
      BY <1>5 DEF GrowPart, ResizeInv, Routed
    <2> QED
      BY <2>1
  <1>6. CASE GrowFs
    <2>1. Promise!Grow
      BY <1>6 DEF GrowFs, Promise!Grow, ResizeInv, Routed
    <2> QED
      BY <2>1 DEF Promise!Next
  <1>7. CASE UnsupportedFs
    <2>1. Promise!Fail
      BY <1>7 DEF UnsupportedFs, Promise!Fail
    <2> QED
      BY <2>1 DEF Promise!Next
  <1>8. CASE ToolFails
    <2>1. fs' \in fs..Room /\ Room' = Room
      BY <1>8, PartwayFacts DEF ToolFails
    <2>2. goal # 0
      BY <1>8 DEF ToolFails, Partway
    <2>3. Promise!Fail
      BY <1>8, <2>1, <2>2 DEF ToolFails, Promise!Fail
    <2> QED
      BY <2>3 DEF Promise!Next
  <1>9. CASE PowerShell
    <2>1. vol.dev \in Windows /\ fs = part /\ pc = "powershell" /\ UNCHANGED <<vol, disk>>
      BY <1>9 DEF PowerShell, ResizeInv, Routed
    <2>2. fs' = PartEnd /\ part' = PartEnd /\ PartEnd \in fs..Room /\ goal <= PartEnd
      BY <1>9, <2>1 DEF PowerShell
    <2>3. Room' = Room /\ goal # 0 /\ goal' = 0
      BY <1>9, <2>1, <2>2 DEF PowerShell
    <2>4. Promise!Complete \/ Promise!Fail
      BY <1>9, <2>1, <2>2, <2>3 DEF PowerShell, Promise!Complete, Promise!Fail
    <2> QED
      BY <2>4 DEF Promise!Next
  <1>10. CASE Report
    <2>1. Promise!Complete \/ Promise!Fail
      BY <1>10 DEF Report, Promise!Complete, Promise!Fail, ResizeInv, WithinReach, Routed
    <2> QED
      BY <2>1 DEF Promise!Next
  <1>11. CASE Crash
    <2>1. fs' \in fs..Room /\ Room' = Room
      <3>1. CASE Partway
        BY <1>11, <3>1, PartwayFacts DEF Crash
      <3>2. CASE UNCHANGED <<part, fs>>
        BY <1>11, <3>2 DEF Crash
      <3> QED
        BY <1>11, <3>1, <3>2 DEF Crash
    <2>2. Promise!Fail
      BY <1>11, <2>1 DEF Crash, Promise!Fail
    <2> QED
      BY <2>2 DEF Promise!Next
  <1>12. CASE UNCHANGED vars
    BY <1>12 DEF vars
  <1> QED
    BY <1>1, <1>2, <1>3, <1>4, <1>5, <1>6, <1>7, <1>8, <1>9, <1>10, <1>11, <1>12
    DEF Next, AgentStep

(* disk.resize implements VolumeGrowth: every call that answers "completed"  *)
(* (other than the FreeBSD stub's) has made the file system as large as the  *)
(* tools could make it when the call came, no step shrinks it, and it        *)
(* changes only while a call is under way.                                   *)
THEOREM ResizeKeepsPromise == Spec => PromiseKept
  <1>1. Init => Promise!Init
    <2> SUFFICES ASSUME Init PROVE Promise!Init
      OBVIOUS
    <2>1. disk \in 1..MaxSize /\ part \in 1..disk /\ fs \in 1..FsEnd
      BY DEF Init
    <2> QED
      BY <2>1, BoundAssumption DEF Init, Promise!Init, Room, FsEnd
  <1> QED
    BY <1>1, ResizeInvariant, ResizeSimulates, PTL
    DEF Spec, PromiseKept, Promise!Spec
=============================================================================
