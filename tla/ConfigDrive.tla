---------------------------- MODULE ConfigDrive ----------------------------
(***************************************************************************)
(* Where the agent's identity and settings come from: isoconfig.Load with   *)
(* the Locator of the platform and cacheCopy, then config.Load, at every    *)
(* start of the agent (steps 1 to 3 of run() in cmd/agent/main.go).  The    *)
(* cache file and the mount outlive the process; the platform may attach,   *)
(* replace and detach the drive; something else (fstab, an operator) may    *)
(* mount it at the same path.                                               *)
(*                                                                          *)
(* A document is the content of pc-meta-data.json: its version (history)    *)
(* and its kind: "good", "badSettings" (it parses, but config.Load rejects  *)
(* its agent section) or "garbled" (it does not parse); "noFile" stands for *)
(* a drive without the file.  Version 0 is the empty ISOMetadata.           *)
(*                                                                          *)
(* Assumed of the environment: a mounted medium cannot be exchanged, nor is *)
(* it exchanged in the moment a load takes; a reboot undoes every mount.    *)
(***************************************************************************)
EXTENDS Naturals

CONSTANTS
    MaxVersion,  \* bound on the drives the platform attaches
    MaxFaults    \* bound on failing calls, crashes and foreign mounts

ASSUME BoundsAssumption == MaxVersion \in Nat /\ MaxFaults \in Nat

Kinds == {"good", "badSettings", "garbled", "noFile"}
Docs  == [v : 1..MaxVersion, kind : Kinds]
NoDoc == [v |-> 0, kind |-> "noFile"]
Torn  == [v |-> 0, kind |-> "garbled"]

VARIABLES
    drive,    \* the attached config-drive; NoDoc when there is none
    mounted,  \* who mounted it at mountPath: "no", "agent", "other"
    cache,    \* the file at cachePath
    tmp,      \* the file at cachePath.tmp
    pc,       \* where the agent is
    own,      \* the unmount closure of Locate is not the no-op
    meta,     \* what Load found
    issued,   \* version of the last drive attached
    kept,     \* history: the newest version that was renamed into place
    found,    \* history: mounted at the start of Load
    clean,    \* history: no failure since this start of the agent
    faults

disk == <<cache, tmp, kept>>
mem  == <<own, meta>>
vars == <<drive, mounted, disk, pc, mem, issued, found, clean, faults>>

Loading == {"locate", "mount", "read", "copy", "rename", "fallback", "unmount", "config"}

Init ==
    /\ drive = NoDoc
    /\ mounted = "no"
    /\ cache = NoDoc
    /\ tmp = NoDoc
    /\ pc = "down"
    /\ own = FALSE
    /\ meta = NoDoc
    /\ issued = 0
    /\ kept = 0
    /\ found = "no"
    /\ clean = TRUE
    /\ faults = 0

Fault ==
    /\ faults < MaxFaults
    /\ faults' = faults + 1
    /\ clean' = FALSE

NoFault == UNCHANGED <<clean, faults>>

(* Reader.Read on the mount path: what is there parses into a document. *)
Parses(doc) == doc.kind \in {"good", "badSettings"}

(* pc-meta-data.json as seen under mountPath. *)
Seen == IF mounted = "no" THEN NoDoc ELSE drive

----------------------------------------------------------------------------
(* The surroundings. *)
Attach ==
    /\ pc \notin Loading
    /\ mounted = "no"
    /\ issued < MaxVersion
    /\ issued' = issued + 1
    /\ \E k \in Kinds : drive' = [v |-> issued', kind |-> k]
    /\ UNCHANGED <<mounted, disk, pc, mem, found, clean, faults>>

Detach ==
    /\ pc \notin Loading
    /\ mounted = "no"
    /\ drive # NoDoc
    /\ drive' = NoDoc
    /\ UNCHANGED <<mounted, disk, pc, mem, issued, found, clean, faults>>

(* Something else mounts the drive at mountPath, or unmounts it, whoever     *)
(* mounted it; both in the middle of a load put another mount in the place   *)
(* of the agent's, and the deferred umount takes that one.                   *)
ForeignMount ==
    /\ Fault
    /\ \/ mounted = "no" /\ drive # NoDoc /\ mounted' = "other"
       \/ mounted # "no" /\ mounted' = "no"
    /\ UNCHANGED <<drive, disk, pc, mem, issued, found>>

(* The agent is killed or stopped; with it, perhaps, the whole box goes      *)
(* down.  A write of the temporary file may be cut short.                    *)
Down ==
    /\ pc # "down"
    /\ pc' = "down"
    /\ IF pc = "run" THEN NoFault ELSE Fault
    /\ mounted' \in {mounted, "no"}
    /\ tmp' \in IF pc = "copy" THEN {tmp, Torn} ELSE {tmp}
    /\ UNCHANGED <<drive, cache, kept, mem, issued, found>>

----------------------------------------------------------------------------
(* Load *)
Start ==
    /\ pc = "down"
    /\ pc' = "locate"
    /\ own' = FALSE
    /\ meta' = NoDoc
    /\ found' = mounted
    /\ clean' = TRUE
    /\ UNCHANGED <<drive, mounted, disk, issued, faults>>

(* Seeded fault: a cached copy, if there is one, is preferred to the drive.  *)
LocateCached ==
    /\ pc = "locate"
    /\ pc' = IF cache # NoDoc \/ drive = NoDoc THEN "fallback"
             ELSE IF mounted # "no" THEN "read" ELSE "mount"
    /\ NoFault
    /\ UNCHANGED <<drive, mounted, disk, mem, issued, found>>

(* The label device and the mount table.  When the table cannot be read,     *)
(* that is an error on FreeBSD; on Linux it counts as not mounted.           *)
Locate ==
    /\ pc = "locate"
    /\ \/ /\ pc' = IF drive = NoDoc THEN "fallback"
                   ELSE IF mounted # "no" THEN "read" ELSE "mount"
          /\ NoFault
       \/ /\ drive # NoDoc
          /\ pc' \in {"fallback", "mount"}
          /\ Fault
    /\ UNCHANGED <<drive, mounted, disk, mem, issued, found>>

(* mkdir and mount: an error when they fail, or the drive is there already.  *)
Mount ==
    /\ pc = "mount"
    /\ \/ /\ mounted = "no"
          /\ mounted' = "agent"
          /\ own' = TRUE
          /\ pc' = "read"
          /\ NoFault
       \/ /\ \/ mounted # "no" /\ NoFault
             \/ mounted = "no" /\ Fault
          /\ pc' = "fallback"
          /\ UNCHANGED <<mounted, own>>
    /\ UNCHANGED <<drive, disk, meta, issued, found>>

(* Seeded fault: a drive that cannot be read means empty metadata.           *)
ReadOrEmpty ==
    /\ pc = "read"
    /\ IF Parses(Seen) THEN pc' = "copy" /\ meta' = Seen
                       ELSE pc' = "unmount" /\ UNCHANGED meta
    /\ NoFault
    /\ UNCHANGED <<drive, mounted, disk, own, issued, found>>

(* A missing file, one that does not parse and one that cannot be read all   *)
(* lead to the cache.                                                        *)
Read ==
    /\ pc = "read"
    /\ \/ /\ IF Parses(Seen) THEN pc' = "copy" /\ meta' = Seen
                             ELSE pc' = "fallback" /\ UNCHANGED meta
          /\ NoFault
       \/ /\ pc' = "fallback"
          /\ Fault
          /\ UNCHANGED meta
    /\ UNCHANGED <<drive, mounted, disk, own, issued, found>>

(* Seeded fault: the copy is written in place.                               *)
WriteInPlace ==
    /\ pc = "copy"
    /\ \/ /\ Seen.kind # "noFile"
          /\ cache' = Seen
          /\ kept' = Seen.v
          /\ NoFault
       \/ /\ cache' = Torn
          /\ UNCHANGED kept
          /\ Fault
    /\ pc' = "unmount"
    /\ UNCHANGED <<drive, mounted, tmp, mem, issued, found>>

(* cacheCopy reads the file a second time and writes it to the temporary     *)
(* file.  Its errors are logged only.                                        *)
WriteTmp ==
    /\ pc = "copy"
    /\ \/ /\ Seen.kind # "noFile"
          /\ tmp' = Seen
          /\ pc' = "rename"
          /\ NoFault
       \/ /\ Seen.kind = "noFile"
          /\ pc' = "unmount"
          /\ NoFault
          /\ UNCHANGED tmp
       \/ /\ tmp' \in {tmp, Torn}
          /\ pc' = "unmount"
          /\ Fault
    /\ UNCHANGED <<drive, mounted, cache, kept, mem, issued, found>>

Rename ==
    /\ pc = "rename"
    /\ pc' = "unmount"
    /\ \/ /\ cache' = tmp
          /\ kept' = tmp.v
          /\ tmp' = NoDoc
          /\ NoFault
       \/ Fault /\ UNCHANGED disk
    /\ UNCHANGED <<drive, mounted, mem, issued, found>>

(* pc-meta-data.json in the directory of cachePath (the cache under its      *)
(* default name); when it cannot be read Load returns an error and run()     *)
(* goes on with empty metadata.                                              *)
Fallback ==
    /\ pc = "fallback"
    /\ pc' = "unmount"
    /\ \/ /\ meta' = IF Parses(cache) THEN cache ELSE NoDoc
          /\ NoFault
       \/ Fault /\ UNCHANGED meta
    /\ UNCHANGED <<drive, mounted, disk, own, issued, found>>

(* Seeded fault: unmount, whoever mounted it.                                *)
UnmountAlways ==
    /\ pc = "unmount"
    /\ pc' = "config"
    /\ mounted' = "no"
    /\ NoFault
    /\ UNCHANGED <<drive, disk, mem, issued, found>>

(* The deferred unmount, of whatever is mounted there by then; its failure   *)
(* is logged only.                                                           *)
Unmount ==
    /\ pc = "unmount"
    /\ pc' = "config"
    /\ \/ /\ mounted' = IF own THEN "no" ELSE mounted
          /\ NoFault
       \/ own /\ Fault /\ UNCHANGED mounted
    /\ UNCHANGED <<drive, disk, mem, issued, found>>

(* config.Load merges the settings over the defaults; when it rejects them   *)
(* the agent exits.                                                          *)
Configure ==
    /\ pc = "config"
    /\ pc' = IF meta.kind = "badSettings" THEN "down" ELSE "run"
    /\ NoFault
    /\ UNCHANGED <<drive, mounted, disk, mem, issued, found>>

LoadStep ==
    \/ Locate \/ Mount \/ Read \/ WriteTmp \/ Rename \/ Fallback \/ Unmount \/ Configure

Next == Attach \/ Detach \/ ForeignMount \/ Down \/ Start \/ LoadStep

(* The agent's own steps happen; nothing is assumed of the surroundings.     *)
Spec == Init /\ [][Next]_vars /\ WF_vars(LoadStep)
----------------------------------------------------------------------------
(* The cache file is, at every moment and after every crash, absent or the   *)
(* whole of a document that parses: the rename never publishes a torn copy,  *)
(* and cacheCopy, which reads the file again, never copies what Read refused.*)
CacheWhole ==
    /\ pc \in Loading \cup {"down", "run"}
    /\ mounted \in {"no", "agent", "other"}
    /\ meta \in Docs \cup {NoDoc}
    /\ cache \in Docs \cup {NoDoc}
    /\ cache # NoDoc => Parses(cache) /\ cache.v = kept

(* "It keeps working on later boots even if the drive is detached": what     *)
(* Load returns is never older than what an earlier start cached, however    *)
(* the drive looks now and whichever mount or umount fails, unless the cache *)
(* itself could not be read in a start that needed it.                       *)
NeverForgets ==
    pc = "config" => meta.v >= kept \/ (meta = NoDoc /\ ~clean)

(* With no failure in this start, a drive that parses is what the agent runs *)
(* on, whatever is in the cache.                                             *)
DriveWins ==
    pc = "config" /\ clean /\ Parses(drive) => meta = drive

(* A load that met no failure leaves the mount as it found it: its own mount *)
(* is undone, one that something else made is left alone.                    *)
MountAsFound ==
    pc = "config" /\ clean => mounted = found

(* Settings that config.Load rejects are cached before they are rejected.    *)
(* Still they never outlive their drive's replacement: once a good drive     *)
(* stays attached and the agent is started again and again, it gets to run.  *)
PoisonHeals ==
    <>[](drive.kind = "good") /\ []<>(pc = "locate") => []<>(pc = "run")
=============================================================================
