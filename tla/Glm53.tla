-------------------------------- MODULE Glm53 --------------------------------
(***************************************************************************)
(* One life of a container of the GLM-5.3-Flash slot: the entry script     *)
(* patches the engine's files (EntryPatches) and execs the engine, which   *)
(* boots (EngineBoot) and then decodes one request (Decoding) or prefills  *)
(* batches.  The files matter until the engine has loaded them.            *)
(***************************************************************************)
EXTENDS EntryPatches, EngineBoot, Decoding

vars == <<entryVars, bootVars, decodingVars>>

Init == EntryInit /\ BootInit /\ DecodingInit

Entry ==
  /\ RunScript \/ ExecEngine
  /\ UNCHANGED <<bootVars, decodingVars>>

\* The engine has loaded its files.
LoadEngine ==
  /\ stage = "exec" /\ stage' = "loaded"
  /\ files' = CleanFiles /\ touched' = {} /\ script' = 1
  /\ baked' = "none" /\ spin' = "stock" /\ bakedSpin' = "stock"
  /\ UNCHANGED <<bootVars, decodingVars>>

Engine ==
  /\ stage = "loaded" /\ request = "none"
  /\ BootStep
  /\ UNCHANGED <<entryVars, decodingVars>>

Serve ==
  /\ boot = "up" /\ batch = NoBatch
  /\ DecodingStep
  /\ UNCHANGED <<entryVars, bootVars>>

Next == Entry \/ LoadEngine \/ Engine \/ Serve

Spec == Init /\ [][Next]_vars

-----------------------------------------------------------------------------
(* Every variable has its type, and nothing runs ahead of the stage before it: the
   engine boots only after it was executed, and serves only once it is up. *)
TypeOK ==
  /\ stage \in {"entry", "refused", "exec", "loaded"} /\ script \in 1..(Len(Scripts) + 1)
  /\ \A s \in Names : files[s] \in [Places(s) -> Texts]
  /\ baked \in {"none", "old", "new"} /\ spin \in SpinValues /\ bakedSpin \in SpinValues
  /\ touched \subseteq Names
  /\ boot \in {"no", "laid", "sized", "refused", "up"}
  /\ geometry \in Geometries \cup {NoGeometry} /\ config \in Configs \cup {NoConfig}
  /\ boot # "no" => stage = "loaded"
  /\ batch # NoBatch \/ request # "none" => boot = "up"
  /\ request \in {"none", "text", "structured"}
  /\ {armed, closed, stopped, isTerminated, inReasoning} \subseteq BOOLEAN
  /\ text \in Seq(Chars) /\ matcher \in Seq({"g", "E"}) /\ processed \in Nat
  /\ drafts \in Seq(Tokens) /\ step \in {"drafts", "mask", "sample"}
=============================================================================
