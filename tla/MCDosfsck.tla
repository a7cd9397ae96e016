----------------------------- MODULE MCDosfsck -----------------------------
(***************************************************************************)
(* dosfsck in three parts that are modelled apart: whole runs over clusters *)
(* and directories, the long names of one directory, and the device with   *)
(* its delayed writes. The one that runs is chosen at the start.           *)
(***************************************************************************)
EXTENDS Dosfsck, Lfn, FsIo

CONSTANT Progs    \* the parts a run is about

VARIABLE prog

MCOpt(set, req) ==
  [o \in {"interactive", "rw", "salvage", "test", "verify"} |-> o \in set]
    @@ [req |-> req]
Auto == {"rw", "salvage"}
MCOptions == <<{MCOpt(Auto, "none"), MCOpt({"interactive", "rw"}, "none")},
  {MCOpt(Auto, "none"), MCOpt({}, "none"), MCOpt(Auto \cup {"verify"}, "none"),
   MCOpt(Auto \cup {"test"}, "none"), MCOpt(Auto, "drop"), MCOpt(Auto, "undelete"),
   MCOpt({"interactive", "rw", "verify"}, "none")},
  {MCOpt(Auto, "none")}>>
MCOptionsByFaults == [n \in 0..MaxFaults |-> MCOptions[n + 1]]
MCMaxRuns == [n \in 0..MaxFaults |-> <<2, 3, 1>>[n + 1]]

PartVars == <<vars, lfnVars, ioVars, prog>>
PartInit ==
  /\ prog \in Progs
  /\ Init /\ LfnInit /\ FsIoInit
  /\ prog # "check" => disk = Image(0)
  /\ prog # "lfn" => ~interactive
  /\ prog # "io" => ~write_immed
PartNext ==
  /\ UNCHANGED prog
  /\ \/ prog = "check" /\ Next /\ UNCHANGED <<lfnVars, ioVars>>
     \/ prog = "lfn" /\ LfnNext /\ UNCHANGED <<vars, ioVars>>
     \/ prog = "io" /\ FsIoNext /\ UNCHANGED <<vars, lfnVars>>
PartSpec == PartInit /\ [][PartNext]_PartVars
=============================================================================
