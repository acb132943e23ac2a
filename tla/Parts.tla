------------------------------- MODULE Parts --------------------------------
(***************************************************************************)
(* Seven parts of the program that share no state with each other: the     *)
(* disk of eon, the SD card and the memory mapper of multicomp09, the WPC  *)
(* machine, the host monitor, the expressions of the debugger and the      *)
(* image loaders.  An execution uses one of them; the others stay as they  *)
(* are at the start.                                                       *)
(***************************************************************************)
EXTENDS Disk, SdCard, Mapper09, Wpc, Hostmon, Expressions, Loader

CONSTANT PartsInUse   \* the parts an execution may use

VARIABLE part

parts_vars == <<part, disk_vars, sd_vars, mapper_vars, wpc_vars, hostmon_vars,
                expr_vars, loader_vars>>

PartsInit ==
  /\ part \in PartsInUse
  /\ DiskInit /\ SdInit /\ MapperInit /\ WpcInit /\ HostmonInit
  /\ ExprInit /\ LoaderInit
  /\ part # "disk"   => fp = disk_format
  /\ part # "sdcard" => mc.state = 0
  /\ part # "loader" => data = 0 /\ image = CHOOSE i \in ImageFiles : TRUE

PartsNext ==
  /\ \/ /\ part = "disk" /\ DiskNext
        /\ UNCHANGED <<sd_vars, mapper_vars, wpc_vars, hostmon_vars, expr_vars, loader_vars>>
     \/ /\ part = "sdcard" /\ SdNext
        /\ UNCHANGED <<disk_vars, mapper_vars, wpc_vars, hostmon_vars, expr_vars, loader_vars>>
     \/ /\ part = "mapper" /\ MapperNext
        /\ UNCHANGED <<disk_vars, sd_vars, wpc_vars, hostmon_vars, expr_vars, loader_vars>>
     \/ /\ part = "wpc" /\ WpcNext
        /\ UNCHANGED <<disk_vars, sd_vars, mapper_vars, hostmon_vars, expr_vars, loader_vars>>
     \/ /\ part = "hostmon" /\ HostmonNext
        /\ UNCHANGED <<disk_vars, sd_vars, mapper_vars, wpc_vars, expr_vars, loader_vars>>
     \/ /\ part = "expressions" /\ ExprNext
        /\ UNCHANGED <<disk_vars, sd_vars, mapper_vars, wpc_vars, hostmon_vars, loader_vars>>
     \/ /\ part = "loader" /\ LoaderNext
        /\ UNCHANGED <<disk_vars, sd_vars, mapper_vars, wpc_vars, hostmon_vars, expr_vars>>
  /\ UNCHANGED part

\* A part that is not in use has no step that would have to be taken.
PartsSpec == PartsInit /\ [][PartsNext]_parts_vars /\ SdFairness /\ HostmonFairness
=============================================================================
