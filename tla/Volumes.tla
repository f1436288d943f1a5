------------------------------ MODULE Volumes ------------------------------
(* A program that opens a disk's volume system through the wrapper: what     *)
(* tsk_vs_open finds (VsOpen) decides whether there are volumes to open file *)
(* systems and pools in (Handles).                                           *)
EXTENDS VsOpen

CONSTANTS
  Programs,     \* the objects that a program opens, see Handles
  Followed      \* the disks whose program is followed further

VARIABLES opens, made, held, disposed, closed, call

objects == <<opens, made, held, disposed, closed, call>>
H == INSTANCE Handles

ASSUME ObjectsAssumption == H!ProgramsAreObjects /\ H!NullIsNoObject /\ H!NullIsNoMethod

Detect == Next /\ UNCHANGED objects

\* DiskImage.OpenVolumeSystem returns nothing when no table was found.
OpenReturns ==
  /\ pc = "returned" /\ call = "OpenVolumeSystem"
  /\ H!End(prev # NULL)
  /\ UNCHANGED vars

GoesOn == pc = "returned" /\ disk \in Followed

Use ==
  /\ GoesOn
  /\ \/ \E c \in DOMAIN H!Methods \ {"OpenVolumeSystem"} : H!Begin(c)
     \/ call # "OpenVolumeSystem" /\ \E succeeds \in BOOLEAN : H!End(succeeds)
  /\ UNCHANGED vars

Let == GoesOn /\ H!Let /\ UNCHANGED vars

VolumesInit == Init /\ H!Init

VolumesNext == Detect \/ OpenReturns \/ Use \/ Let

VolumesSpec == VolumesInit /\ [][VolumesNext]_<<vars, objects>>

-----------------------------------------------------------------------------

VolumesTypeOK == TypeOK /\ H!TypeOK
UsesLiveMemory == H!UsesLiveMemory
DisposeReleasesAll == H!DisposeReleasesAll
=============================================================================
