---------------------------- MODULE MCSchedulerPair --------------------------
(***************************************************************************)
(* Two requests for the runs that show a disagreement: the prompt of l is  *)
(* loaded asynchronously, q may run beside it.                             *)
(***************************************************************************)
EXTENDS Scheduler, TLC

CONSTANTS l, q, b1, b2, b3, b4

MCRequests == {l, q}
MCPromptLen == (l :> 4) @@ (q :> 2)
MCMaxTokens == (l :> 2) @@ (q :> 3)
MCRemote == (l :> 4) @@ (q :> 0)
MCSyncRemote == (l :> 0) @@ (q :> 0)
=============================================================================
