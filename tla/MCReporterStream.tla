-------------------------- MODULE MCReporterStream --------------------------
(* ReporterStream with a reporter of the engine and one in a worker.         *)
EXTENDS ReporterStream, TLC

CONSTANTS clear, plugin, f1, f2, report

MCAttachments == <<clear, plugin>>
MCTesters == {f1, f2}
MCBatch == clear :> 1 @@ plugin :> 2

\* Only the one in a worker.
MCWorker == <<plugin>>
MCWorkerBatch == plugin :> 2
=============================================================================
