---------------------------- MODULE MCDiskResize ----------------------------
(* Every kind of device with a file system that can be grown, one that       *)
(* cannot on a partition, and a target that is not mounted.                  *)
EXTENDS DiskResize

V(d, f, m) == [dev |-> d, fstype |-> f, mounted |-> m]
MCVolumes ==
    {V(d, "ext4", TRUE) : d \in Devs} \cup {V("partition", "btrfs", TRUE), V("whole", "xfs", FALSE)}
=============================================================================
