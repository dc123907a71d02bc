----------------------------- MODULE DiskResize -----------------------------
(***************************************************************************)
(* disk.resize (internal/modules/diskresize): Resize and grow of linux.go   *)
(* with the tools they run through the executor, the one PowerShell script  *)
(* of windows.go and the stub of freebsd.go, called again and again while   *)
(* the cloud expands the volume.                                            *)
(*                                                                          *)
(* A tool may fail, be killed by the executor's timeout before, during or   *)
(* after its work, or be missing and have to be installed; the agent may    *)
(* end at any step.  Sizes are numbers; disk, part and fs are the volume,   *)
(* the partition (or logical volume) on it and the file system in that;     *)
(* part means nothing for a whole disk.                                     *)
(* The tools are external: growpart exits with NOCHANGE when there is       *)
(* nothing to grow, resize2fs and xfs_growfs then succeed, Resize-Partition *)
(* may refuse; that one grows partition and NTFS together.                  *)
(***************************************************************************)
EXTENDS Naturals

CONSTANTS
    Volumes,     \* what the target may be: records [dev, fstype, mounted]
    MaxSize,     \* bound on the size of the volume
    MaxFaults    \* bound on the failures

(* partition: the last one on its disk; blocked: another one follows it;     *)
(* oddname: parseDevice does not know the name (mmcblk0p1); whole: no        *)
(* partition table; mapper: a logical volume; windows, winblocked: the last  *)
(* partition on its disk, and one before another; freebsd: the platform.     *)
Devs == {"partition", "blocked", "oddname", "whole", "mapper", "windows", "winblocked", "freebsd"}
Windows == {"windows", "winblocked"}

ASSUME VolumeAssumption ==
    \A v \in Volumes : v.dev \in Devs /\ v.mounted \in BOOLEAN
ASSUME BoundAssumption == MaxSize \in Nat \ {0} /\ MaxFaults \in Nat

VARIABLES
    vol,        \* the target
    disk, part, fs,
    installed,  \* tools that are there
    manager,    \* apt-get, dnf or yum is there
    pc,         \* where Resize is
    goal,       \* history: Room when the call came, 0 when there is none
    result,     \* status of the last call
    faults

sizes == <<disk, part, fs>>
vars == <<vol, sizes, installed, manager, pc, goal, result, faults>>

Tools == {"growpart", "fstool"}
Supported == {"ext2", "ext3", "ext4", "xfs"}

(* Where growpart and Resize-Partition (SizeMax) can move the end of the     *)
(* partition to.                                                             *)
PartEnd == IF vol.dev \in {"partition", "windows"} THEN disk ELSE part

(* The file system tools go by the partition or logical volume they are in;  *)
(* without one that is the disk.                                             *)
FsEnd == IF vol.dev = "whole" THEN disk ELSE part

(* The size the tools together can take the file system of the target to:    *)
(* all of the volume, unless another partition follows, or it is in a        *)
(* logical volume, which disk.resize does not extend.                        *)
Room == IF vol.dev \in {"partition", "whole", "windows", "freebsd"} THEN disk ELSE part

Init ==
    /\ vol \in Volumes
    /\ disk \in 1..MaxSize
    /\ part \in 1..disk
    /\ fs \in 1..FsEnd
    /\ vol.dev \in Windows => fs = part
    /\ installed \in SUBSET Tools
    /\ manager \in BOOLEAN
    /\ pc = "idle"
    /\ goal = 0
    /\ result = "none"
    /\ faults = 0

Fault == faults < MaxFaults /\ faults' = faults + 1

Answer(r) == result' = r /\ pc' = "idle" /\ goal' = 0
Goto(p) == pc' = p /\ UNCHANGED <<result, goal>>

----------------------------------------------------------------------------
(* The volume is made larger, also while Resize runs; or the administrator   *)
(* extends the logical volume on it.                                         *)
Expand ==
    /\ \/ disk' \in disk + 1 .. MaxSize /\ UNCHANGED part
       \/ vol.dev = "mapper" /\ part' \in part + 1 .. disk /\ UNCHANGED disk
    /\ UNCHANGED <<vol, fs, installed, manager, pc, goal, result, faults>>

(* Seeded fault: the partition is taken for a whole disk. *)
FirstStepNoPart(dev) == IF dev \in Windows THEN "powershell" ELSE "fs"

(* grow(): growpart only for a partition (isPartitionSysfs). *)
FirstStep(dev) ==
    CASE dev \in Windows -> "powershell"
      [] dev \in {"partition", "blocked"} -> "growpart"
      [] OTHER -> "fs"

Resize ==
    /\ pc = "idle"
    /\ goal' = Room
    /\ result' = "none"
    /\ pc' = "lookup"
    /\ UNCHANGED <<vol, sizes, installed, manager, faults>>

(* The mount table and the size before; the name of the device.  On FreeBSD  *)
(* there is nothing but a Result whose message says so and no error, which   *)
(* the dispatcher reports as completed; "unsupported" stands for that.       *)
LookUp ==
    /\ pc = "lookup"
    /\ \/ /\ vol.dev = "freebsd"
          /\ Answer("unsupported")
          /\ UNCHANGED faults
       \/ /\ vol.dev # "freebsd"
          /\ ~vol.mounted \/ vol.dev = "oddname"
          /\ Answer("failed")
          /\ UNCHANGED faults
       \/ /\ vol.dev # "freebsd"
          /\ Fault
          /\ Answer("failed")
       \/ /\ vol.dev \notin {"freebsd", "oddname"}
          /\ vol.mounted
          /\ Goto(FirstStep(vol.dev))
          /\ UNCHANGED faults
    /\ UNCHANGED <<vol, sizes, installed, manager>>

(* runOrInstall, the first run: the binary is not there.  The package        *)
(* managers are tried in order until one succeeds; the second run fails if   *)
(* the package did not bring the tool.                                       *)
Install(tool) ==
    /\ pc = (IF tool = "growpart" THEN "growpart" ELSE "fs")
    /\ pc = "fs" => vol.fstype \in Supported
    /\ tool \notin installed
    /\ \/ /\ manager
          /\ installed' = installed \cup {tool}
          /\ UNCHANGED <<pc, goal, result, faults>>
       \/ /\ ~manager
          /\ Answer("failed")
          /\ UNCHANGED <<installed, faults>>
       \/ /\ manager
          /\ Fault
          /\ Answer("failed")
          /\ installed' \in {installed, installed \cup {tool}}
    /\ UNCHANGED <<vol, sizes, manager>>

(* Seeded fault: NOCHANGE is an error like any other. *)
GrowPartStrict ==
    /\ pc = "growpart"
    /\ "growpart" \in installed
    /\ part' = PartEnd
    /\ IF part' = part THEN Answer("failed") ELSE Goto("fs")
    /\ UNCHANGED <<vol, disk, fs, installed, manager, faults>>

(* Exit 0, or NOCHANGE in the output. *)
GrowPart ==
    /\ pc = "growpart"
    /\ "growpart" \in installed
    /\ part' = PartEnd
    /\ Goto("fs")
    /\ UNCHANGED <<vol, disk, fs, installed, manager, faults>>

(* Seeded fault: the size of the disk is passed to the tool. *)
GrowFsToDisk ==
    /\ pc = "fs"
    /\ vol.fstype \in Supported
    /\ "fstool" \in installed
    /\ fs' = disk
    /\ Goto("after")
    /\ UNCHANGED <<vol, disk, part, installed, manager, faults>>

(* resize2fs or xfs_growfs. *)
GrowFs ==
    /\ pc = "fs"
    /\ vol.fstype \in Supported
    /\ "fstool" \in installed
    /\ fs' = FsEnd
    /\ Goto("after")
    /\ UNCHANGED <<vol, disk, part, installed, manager, faults>>

(* The default case of the switch, which comes after growpart. *)
UnsupportedFs ==
    /\ pc = "fs"
    /\ vol.fstype \notin Supported
    /\ Answer("failed")
    /\ UNCHANGED <<vol, sizes, installed, manager, faults>>

(* What a tool that was stopped can have left: its work undone, done or (an  *)
(* online grow of a file system) done in part.                               *)
Partway ==
    \/ pc = "growpart" /\ part' \in {part, PartEnd} /\ UNCHANGED fs
    \/ pc = "fs" /\ vol.fstype \in Supported /\ fs' \in fs..FsEnd /\ UNCHANGED part
    \/ pc = "powershell" /\ part' \in {part, PartEnd} /\ fs' = part'

(* A tool fails or is killed by the timeout; without NOCHANGE in its output  *)
(* that is an error.  The same for the script of windows.go and its output.  *)
ToolFails ==
    /\ Fault
    /\ Partway
    /\ Answer("failed")
    /\ UNCHANGED <<vol, disk, installed, manager>>

(* Resize-Partition takes the partition and NTFS to SizeMax; at SizeMax      *)
(* already it may take that for an error, which stops the script.            *)
PowerShell ==
    /\ pc = "powershell"
    /\ part' = PartEnd /\ fs' = PartEnd
    /\ \/ Answer("completed")
       \/ part = PartEnd /\ Answer("failed")
    /\ UNCHANGED <<vol, disk, installed, manager, faults>>

(* The usage after; when it cannot be read the call fails. *)
Report ==
    /\ pc = "after"
    /\ \/ Answer("completed") /\ UNCHANGED faults
       \/ Answer("failed") /\ Fault
    /\ UNCHANGED <<vol, sizes, installed, manager>>

(* The agent ends, between two steps or with a tool at work. *)
Crash ==
    /\ pc # "idle"
    /\ Fault
    /\ Partway \/ UNCHANGED <<part, fs>>
    /\ Answer("none")
    /\ UNCHANGED <<vol, disk, installed, manager>>

AgentStep ==
    \/ LookUp \/ (\E t \in Tools : Install(t)) \/ GrowPart \/ GrowFs \/ UnsupportedFs
    \/ ToolFails \/ PowerShell \/ Report

Next == Expand \/ Resize \/ AgentStep \/ Crash

(* The process runs and every call it makes returns: the executor gives each *)
(* tool 30 s.  That the platform asks again is left to the properties.       *)
Spec == Init /\ [][Next]_vars /\ WF_vars(AgentStep)
----------------------------------------------------------------------------
(* The file system lies within its partition and that within the disk, at    *)
(* every point where a tool can have been stopped.                           *)
TypeOK ==
    /\ disk \in 1..MaxSize
    /\ part \in 1..disk
    /\ fs \in 1..FsEnd
    /\ (goal = 0) = (pc = "idle")
    /\ result \in {"none", "completed", "failed", "unsupported"}

Promise == INSTANCE VolumeGrowth WITH room <- Room, owed <- goal

(* The abstract promise, with Room as what can be reached.  Behind another   *)
(* partition, or in a logical volume, "completed" promises the size of the   *)
(* partition or logical volume only, however large the volume has become; on *)
(* FreeBSD it promises nothing.                                              *)
PromiseKept == Promise!Spec

CanSucceed ==
    /\ vol.dev \in {"partition", "whole", "windows"}
    /\ vol.mounted
    /\ vol.dev \notin Windows => vol.fstype \in Supported /\ (manager \/ Tools \subseteq installed)

(* A resize that stopped half way (partition grown, file system not) does    *)
(* not stand in the way of the next: asked again and again, with failures    *)
(* that come to an end, the file system gets to the end of the volume.       *)
RetryFills == CanSucceed /\ []<>(pc = "lookup") => <>[](fs = disk)
=============================================================================
