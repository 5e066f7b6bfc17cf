--------------------------- MODULE MCTaskDispatch ---------------------------
(* Instances of TaskDispatch for TLC: the circumstances the runs admit.    *)
EXTENDS TaskRefinement

(* Everything that can go wrong on the servers' side; clients are patient. *)
AllFaults == Circumstances \ {"hasty", "impatient"}

(* Connections are lost, threads cannot be created, or begin too early.    *)
DispatchFaults == {"net", "audio", "spawn", "early"}

(* Nothing fails; an actor may also answer with the result right away.     *)
FairWeather == {"audio"}

(* A send may fail, and a client acts on the state of the row it reads.    *)
HastyClients == {"net", "hasty"}

(* Nothing fails, but clients do not wait for anything.                    *)
ImpatientClients == {"impatient"}

EarlyThreads == {"early"}
=============================================================================
