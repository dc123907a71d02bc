------------------------- MODULE ConfigDrive_proofs -------------------------
(* Proofs about ConfigDrive, for every number of drives and failures.         *)
EXTENDS ConfigDrive, TLAPS

(* Versions grow: an attached drive is the newest one, and what is cached is  *)
(* one of those attached so far.                                              *)
Versions ==
    /\ issued \in 0..MaxVersion
    /\ kept \in 0..issued
    /\ drive \in Docs \cup {NoDoc}
    /\ drive # NoDoc => drive.v = issued
    /\ cache = NoDoc => kept = 0

(* What Load has in hand where it copies is the attached drive, twice read    *)
(* and once parsed; where it has not read anything it has nothing.            *)
Copying ==
    /\ pc \in {"copy", "rename"} => meta = drive /\ Parses(drive)
    /\ pc = "rename" => tmp = drive
    /\ pc \in {"locate", "mount", "read", "fallback"} => meta = NoDoc

(* Load ends with nothing older than the cache, ... *)
Newest ==
    pc \in {"unmount", "config"} => meta.v >= kept \/ (meta = NoDoc /\ ~clean)

(* ... and, if nothing failed, with the drive when it parses, ... *)
Preferred ==
    clean =>
        /\ pc = "mount" => mounted = "no"
        /\ pc = "read" => mounted # "no"
        /\ pc = "fallback" => ~Parses(drive)
        /\ pc \in {"unmount", "config"} /\ Parses(drive) => meta = drive

(* ... and with the mount as it was. *)
Mounts ==
    /\ pc \in {"locate", "mount"} => ~own
    /\ clean /\ pc \in Loading \ {"config"} =>
          IF own THEN found = "no" ELSE mounted = found
    /\ clean /\ pc = "config" => mounted = found

DriveInv == CacheWhole /\ Versions /\ Copying /\ Newest /\ Preferred /\ Mounts

USE BoundsAssumption

(* A box without a drive, a cache or a running agent. *)
LEMMA InitDrive == Init => DriveInv
<1> SUFFICES ASSUME Init PROVE DriveInv
    OBVIOUS
<1>1. CacheWhole /\ Versions
    BY DEF Init, CacheWhole, Versions, Loading
<1> QED
    BY <1>1 DEF Init, DriveInv, Copying, Newest, Preferred, Mounts, Loading

(* A document is either whole and of a version that was issued, or NoDoc. *)
LEMMA DocFacts ==
    /\ NoDoc \notin Docs
    /\ NoDoc.v = 0
    /\ ~Parses(NoDoc)
    /\ \A doc \in Docs : doc.v \in 1..MaxVersion
BY DEF Docs, NoDoc, Parses, Kinds

(* The cache stays whole and the versions in order. *)
LEMMA NextWhole ==
    CacheWhole /\ Versions /\ Copying /\ [Next]_vars => CacheWhole' /\ Versions'
<1> SUFFICES ASSUME CacheWhole, Versions, Copying, [Next]_vars
             PROVE  CacheWhole' /\ Versions'
    OBVIOUS
<1> USE DocFacts DEF CacheWhole, Versions, Copying, Loading, disk, mem, Fault, NoFault
<1>1. CASE Attach
    <2>1. issued' \in 1..MaxVersion
        BY <1>1 DEF Attach
    <2>2. drive' \in Docs /\ drive'.v = issued'
        BY <1>1, <2>1 DEF Attach, Docs
    <2> QED
        BY <1>1, <2>1, <2>2 DEF Attach, Parses
<1>2. CASE Detach
    BY <1>2 DEF Detach, Parses
<1>3. CASE ForeignMount
    BY <1>3 DEF ForeignMount, Parses
<1>4. CASE Down
    BY <1>4 DEF Down, Parses
<1>5. CASE Start
    BY <1>5 DEF Start, Parses
<1>6. CASE Locate
    BY <1>6 DEF Locate, Parses
<1>7. CASE Mount
    BY <1>7 DEF Mount, Parses
<1>8. CASE Read
    BY <1>8 DEF Read, Seen, Parses
<1>9. CASE WriteTmp
    BY <1>9 DEF WriteTmp, Parses
<1>10. CASE Rename
    <2>1. drive # NoDoc /\ drive \in Docs /\ drive.v = issued
        BY <1>10 DEF Rename
    <2> QED
        BY <1>10, <2>1 DEF Rename
<1>11. CASE Fallback
    BY <1>11 DEF Fallback
<1>12. CASE Unmount
    BY <1>12 DEF Unmount, Parses
<1>13. CASE Configure
    BY <1>13 DEF Configure, Parses
<1>14. CASE UNCHANGED vars
    BY <1>14 DEF vars, Parses
<1> QED
    BY <1>1, <1>2, <1>3, <1>4, <1>5, <1>6, <1>7, <1>8, <1>9, <1>10, <1>11, <1>12,
       <1>13, <1>14 DEF Next, LoadStep

(* Load holds the attached drive where it copies. *)
LEMMA NextCopying ==
    DriveInv /\ [Next]_vars => Copying'
<1> SUFFICES ASSUME DriveInv, [Next]_vars PROVE Copying'
    OBVIOUS
<1> USE DocFacts DEF DriveInv, Copying, Loading, disk, mem
<1>1. CASE Attach \/ Detach \/ ForeignMount \/ Down \/ Start
    BY <1>1 DEF Attach, Detach, ForeignMount, Down, Start, Parses
<1>2. CASE Read
    <2>1. Parses(Seen) => Seen = drive
        BY DEF Seen
    <2>2. UNCHANGED <<drive, tmp>>
        BY <1>2 DEF Read
    <2>3. CASE Parses(Seen) /\ pc' = "copy" /\ meta' = Seen
        BY <2>1, <2>2, <2>3
    <2>4. CASE pc' = "fallback" /\ meta' = meta
        BY <1>2, <2>4 DEF Read
    <2> QED
        BY <1>2, <2>3, <2>4 DEF Read
<1>3. CASE WriteTmp
    <2>1. Seen.kind # "noFile" => Seen = drive
        BY DEF Seen, NoDoc
    <2> QED
        BY <1>3, <2>1 DEF WriteTmp, Parses
<1>4. CASE Locate \/ Mount \/ Rename \/ Fallback \/ Unmount \/ Configure
    BY <1>4 DEF Locate, Mount, Rename, Fallback, Unmount, Configure
<1>5. CASE UNCHANGED vars
    BY <1>5 DEF vars, Parses
<1> QED
    BY <1>1, <1>2, <1>3, <1>4, <1>5 DEF Next, LoadStep

(* What Load ends with is not older than the cache. *)
LEMMA NextNewest ==
    DriveInv /\ [Next]_vars => Newest'
<1> SUFFICES ASSUME DriveInv, [Next]_vars PROVE Newest'
    OBVIOUS
<1> USE DocFacts DEF DriveInv, Newest, Loading, disk, mem, Fault, NoFault
<1>1. CASE Attach \/ Detach \/ ForeignMount \/ Down \/ Start
    BY <1>1 DEF Attach, Detach, ForeignMount, Down, Start
<1>2. CASE Locate \/ Mount \/ Read
    BY <1>2 DEF Locate, Mount, Read
<1>3. CASE WriteTmp \/ Rename
    <2>1. meta = drive /\ drive.v = issued /\ kept <= issued
        BY <1>3 DEF WriteTmp, Rename, Copying, Versions
    <2>2. meta'.v >= kept'
        BY <1>3, <2>1 DEF WriteTmp, Rename, Copying, Versions
    <2> QED
        BY <2>2
<1>4. CASE Fallback
    BY <1>4 DEF Fallback, Copying, Versions, CacheWhole
<1>5. CASE Unmount \/ Configure
    BY <1>5 DEF Unmount, Configure
<1>6. CASE UNCHANGED vars
    BY <1>6 DEF vars
<1> QED
    BY <1>1, <1>2, <1>3, <1>4, <1>5, <1>6 DEF Next, LoadStep

(* Without a failure the drive wins. *)
LEMMA NextPreferred ==
    DriveInv /\ [Next]_vars => Preferred'
<1> SUFFICES ASSUME DriveInv, [Next]_vars PROVE Preferred'
    OBVIOUS
<1> USE DocFacts DEF DriveInv, Preferred, Loading, disk, mem, Fault, NoFault
<1>1. CASE Attach \/ Detach \/ ForeignMount \/ Down \/ Start
    BY <1>1 DEF Attach, Detach, ForeignMount, Down, Start
<1>2. CASE Locate \/ Mount
    BY <1>2 DEF Locate, Mount, Parses
<1>3. CASE Read
    BY <1>3 DEF Read, Seen, Parses
<1>4. CASE WriteTmp \/ Rename
    BY <1>4 DEF WriteTmp, Rename, Copying
<1>5. CASE Fallback \/ Unmount \/ Configure
    BY <1>5 DEF Fallback, Unmount, Configure, Parses
<1>6. CASE UNCHANGED vars
    BY <1>6 DEF vars, Parses
<1> QED
    BY <1>1, <1>2, <1>3, <1>4, <1>5, <1>6 DEF Next, LoadStep

(* Without a failure the mount is left as it was found. *)
LEMMA NextMounts ==
    DriveInv /\ [Next]_vars => Mounts'
<1> SUFFICES ASSUME DriveInv, [Next]_vars PROVE Mounts'
    OBVIOUS
<1> USE DEF DriveInv, Mounts, Preferred, Versions, Loading, disk, mem, Fault, NoFault
<1>1. CASE Attach \/ Detach \/ ForeignMount \/ Down \/ Start
    BY <1>1 DEF Attach, Detach, ForeignMount, Down, Start
<1>2. CASE Locate \/ Mount \/ Read
    BY <1>2 DEF Locate, Mount, Read
<1>3. CASE WriteTmp \/ Rename \/ Fallback
    BY <1>3 DEF WriteTmp, Rename, Fallback
<1>4. CASE Unmount \/ Configure
    BY <1>4 DEF Unmount, Configure
<1>5. CASE UNCHANGED vars
    BY <1>5 DEF vars
<1> QED
    BY <1>1, <1>2, <1>3, <1>4, <1>5 DEF Next, LoadStep

(* The inductive invariant of loading the metadata, over any number of        *)
(* starts, drives, crashes and foreign mounts.                                *)
THEOREM DriveInvariant == Spec => []DriveInv
<1>1. DriveInv /\ [Next]_vars => DriveInv'
    BY NextWhole, NextCopying, NextNewest, NextPreferred, NextMounts DEF DriveInv
<1> QED
    BY <1>1, InitDrive, PTL DEF Spec

(* The cache file is absent or the whole of a document that parses, at every  *)
(* moment of cacheCopy and after every crash.                                 *)
THEOREM DriveCacheWhole == Spec => []CacheWhole
<1>1. DriveInv => CacheWhole
    BY DEF DriveInv
<1> QED
    BY <1>1, DriveInvariant, PTL

(* Load never returns metadata older than what an earlier start cached,       *)
(* unless the cache could not be read in this start.                          *)
THEOREM DriveNeverForgets == Spec => []NeverForgets
<1>1. DriveInv => NeverForgets
    BY DEF DriveInv, Newest, NeverForgets
<1> QED
    BY <1>1, DriveInvariant, PTL

(* With no failure a drive that parses is what the agent runs on.             *)
THEOREM DriveDriveWins == Spec => []DriveWins
<1>1. DriveInv => DriveWins
    BY DEF DriveInv, Preferred, DriveWins
<1> QED
    BY <1>1, DriveInvariant, PTL

(* A load that met no failure leaves the mount as it found it.                *)
THEOREM DriveMountAsFound == Spec => []MountAsFound
<1>1. DriveInv => MountAsFound
    BY DEF DriveInv, Mounts, MountAsFound
<1> QED
    BY <1>1, DriveInvariant, PTL
=============================================================================
