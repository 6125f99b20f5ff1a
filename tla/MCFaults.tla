------------------------------ MODULE MCFaults ------------------------------
(* Two small instances with faults, in one run: `what' says which one a    *)
(* behaviour is of.  In the first crashes tear the frame being written and *)
(* a write to the WAL may fail while the process lives on; its bounds are  *)
(* those of the .cfg file.  In the second the journal of the groups cannot *)
(* be saved and the process lives on.                                      *)
EXTENDS ArchiveLogInv

CONSTANTS h1, Nobody

VARIABLES what, head, units, checked, doomed, group, journal, gate, ledger, call, gpc,
          expired, keys, leases, batches, told, settles, done

ofLog   == vars
ofGroup == <<head, units, checked, doomed, group, journal, gate, ledger, call, gpc,
             expired, keys, leases, batches, told, settles, done>>

Group ==
    INSTANCE Groups
    WITH Holders <- {h1}, Starts <- {0, 1}, Ends <- {2}, Limits <- {1},
         WriteErrors <- TRUE, SlowApply <- FALSE, MaxOffset <- 2, MaxUnits <- 0,
         MaxKeys <- 2, MaxCrashes <- 1, MaxFaults <- 1, pc <- gpc

FaultsInit == what \in {"log", "group"} /\ Init /\ Group!Init
FaultsNext ==
    /\ UNCHANGED what
    /\ \/ what = "log"   /\ Next       /\ UNCHANGED ofGroup
       \/ what = "group" /\ Group!Next /\ UNCHANGED <<disk, memory, pc, mode, born, acked>>
Faults == FaultsInit /\ [][FaultsNext]_<<ofLog, ofGroup, what>>

\* When the journal could not be saved, the gate of a group still protects what
\* a crash would roll it back to.
GateCoversDisk == what = "group" => Group!GateCoversDisk
=============================================================================
