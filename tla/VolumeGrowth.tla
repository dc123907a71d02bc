---------------------------- MODULE VolumeGrowth ----------------------------
(***************************************************************************)
(* What disk.resize promises, whatever the tools: the file system never     *)
(* shrinks and never outgrows its room, it changes only while a call is     *)
(* under way, and a call that is reported completed has made it at least as *)
(* large as the room was when the call came.  A call that ends as           *)
(* "unsupported" (the FreeBSD stub) promises nothing.                       *)
(***************************************************************************)
EXTENDS Naturals

VARIABLES
    room,    \* the size the tools can give the file system
    fs,      \* the size it has
    owed,    \* what the call under way has to reach; 0 when there is none
    result   \* of the last call

Init ==
    /\ room \in Nat /\ fs \in 0..room
    /\ owed = 0
    /\ result = "none"

Expand == room' \in Nat /\ room' > room /\ UNCHANGED <<fs, owed, result>>

Ask == owed = 0 /\ owed' = room /\ result' = "none" /\ UNCHANGED <<room, fs>>

(* The file system may grow in several steps. *)
Grow == owed # 0 /\ fs' \in fs..room /\ UNCHANGED <<room, owed, result>>

Complete ==
    /\ owed # 0
    /\ owed' = 0
    /\ fs' \in fs..room
    /\ fs' >= owed
    /\ result' = "completed"
    /\ UNCHANGED room

(* An error, or the end of the process, at any point of the call. *)
Fail ==
    /\ owed # 0
    /\ owed' = 0
    /\ fs' \in fs..room
    /\ result' \in {"failed", "unsupported", "none"}
    /\ UNCHANGED room

Next == Expand \/ Ask \/ Grow \/ Complete \/ Fail

Spec == Init /\ [][Next]_<<room, fs, owed, result>>
=============================================================================
