----------------------------- MODULE EngineBoot -----------------------------
(***************************************************************************)
(* The boot of the GLM-5.3-Flash engine as two of the entry scripts change *)
(* it, and the prefill batches it then splits.                             *)
(*                                                                         *)
(* patch_glm5_drafter_group.py: the drafter's layers get a block size and  *)
(* share the tensors of the MLA layers, or the layout is given up and the  *)
(* engine dies (the file's docstring, :11-17).  Bytes are numbers, layers  *)
(* are named by their kind and index; of the mamba layers one group is     *)
(* kept, of the indexer's one layer per MLA layer.                         *)
(*                                                                         *)
(* patch_indexer_workspace.py: the indexer's gather workspace is sized in  *)
(* compressed entries, and a step's prefill requests are split into chunks *)
(* that fit it.                                                            *)
(*                                                                         *)
(* LayoutAcceptsAny, CrossCheckCompressed, PrefillStepUnbuilt: mistaken    *)
(* variants; no action uses them.                                          *)
(***************************************************************************)
EXTENDS Naturals, FiniteSets, SequencesExt

CONSTANTS
  Geometries,   \* what the model and its drafter may look like
  Configs,      \* the engine's limits, its ratios and GLM53_INDEXER_WORKSPACE
  Memory,       \* bytes for the KV pool
  LogitsSizes,  \* limits on the elements of a chunk's logits
  MaxBatch      \* bound: requests in a batch

VARIABLES
  boot,         \* "no", "laid", "sized", "refused" or "up"
  geometry,     \* the geometry laid out, until the engine is up
  config,       \* the configuration of the engine
  batch         \* the prefill requests of the current step

bootVars == <<boot, geometry, config, batch>>

EngineBootAssumption ==
  /\ Memory \in Nat /\ MaxBatch \in Nat /\ LogitsSizes \subseteq Nat
  /\ \A g \in Geometries : /\ DOMAIN g = {"bytesPerToken", "mlaPage", "mlaBlock", "drafts", "mlas",
                                          "mambas", "idxPage"}
                           /\ \A x \in DOMAIN g : g[x] \in Nat
                           /\ g.bytesPerToken > 0 /\ g.mlaPage > 0 /\ g.mlaBlock > 0 /\ g.mlas > 0
                           /\ g.mambas <= g.mlas
  /\ \A c \in Configs : /\ {c.maxLen, c.seqs, c.budget, c.spec, c.kpool, c.ratio} \subseteq Nat
                        /\ c.ratio > 0
                        /\ c.mode \in {"unset", "stock", "rightsize", "typo"}
ASSUME EngineBootAssumption

NoGeometry == [drafts |-> 0]
NoConfig == [mode |-> "unset"]
NoBatch == <<>>

Smaller(a, b) == IF a <= b THEN a ELSE b
CeilDiv(a, b) == (a + b - 1) \div b

-----------------------------------------------------------------------------
(* The drafter's KV layers.                                                *)

CompactBlock == 64

\* The block that fills an MLA page exactly, if there is one.
FitBlock(g) == IF g.mlaPage % g.bytesPerToken = 0 THEN g.mlaPage \div g.bytesPerToken ELSE 0

ExactFit(g) ==
  LET fit == FitBlock(g) IN
  /\ fit > 0 /\ fit % CompactBlock = 0
  /\ fit % g.mlaBlock = 0 \/ g.mlaBlock % fit = 0
  /\ g.drafts <= g.mlas

\* padded is page_size_padded, 0 where the code has None.
DraftSpec(g) ==
  IF ExactFit(g) THEN [block |-> FitBlock(g), padded |-> 0]
                 ELSE [block |-> CompactBlock, padded |-> g.mlaPage]

RealPage(g) == DraftSpec(g).block * g.bytesPerToken
DraftPage(g) == IF DraftSpec(g).padded > 0 THEN DraftSpec(g).padded ELSE RealPage(g)
Shared(g) == DraftPage(g) = g.mlaPage

\* _glm5_next_tensor_layout does not return None (the page assertion is vllm's own).
LayoutAcceptsAny(g) ==
  g.drafts > 0 =>
    /\ RealPage(g) <= DraftPage(g)
    /\ DraftSpec(g).padded > 0 => DraftSpec(g) = [block |-> CompactBlock, padded |-> g.mlaPage]
LayoutAccepts(g) ==
  g.drafts > 0 =>
    /\ RealPage(g) <= DraftPage(g)
    /\ DraftSpec(g).padded > 0 => DraftSpec(g) = [block |-> CompactBlock, padded |-> g.mlaPage]
    /\ ~ (Shared(g) /\ g.drafts > g.mlas)

\* The byte cost of a block, as the pool is sized with it.
PoolBytes(g) ==
  g.mlas * (g.mlaPage + g.idxPage)
    + (IF g.drafts > 0 /\ ~ Shared(g) THEN g.drafts * DraftPage(g) ELSE 0)
NumBlocks(g) == Memory \div PoolBytes(g)

\* get_kv_cache_config_from_groups: the tensors and the layers that share them.
Layers(kind, n) == {<<kind, i>> : i \in 1..n}
Tensors(g) ==
  {[size     |-> g.mlaPage * NumBlocks(g),
    sharedBy |-> {<<"mla", i>>}
                   \cup (Layers("mamba", g.mambas) \cap {<<"mamba", i>>})
                   \cup (IF Shared(g) THEN Layers("draft", g.drafts) \cap {<<"draft", i>>} ELSE {})]
     : i \in 1..g.mlas}
  \cup {[size |-> g.idxPage * NumBlocks(g), sharedBy |-> {<<"idx", i>>}] : i \in 1..g.mlas}
  \cup {[size |-> DraftPage(g) * NumBlocks(g), sharedBy |-> {<<"draft", i>>}]
          : i \in (IF Shared(g) THEN {} ELSE 1..g.drafts)}

\* The engine lays out its KV cache, or dies.
LayOut ==
  /\ boot = "no"
  /\ \E g \in Geometries :
       /\ geometry' = g
       /\ boot' = IF LayoutAccepts(g) THEN "laid" ELSE "refused"
  /\ UNCHANGED <<config, batch>>

-----------------------------------------------------------------------------
(* The indexer's workspace.                                                *)

\* get_max_prefill_buffer_size without the patch.
Stock(c) == c.maxLen * 40
CompressRatio(c) == IF c.kpool > 1 THEN c.kpool ELSE 1

\* The most that one step can ask for, in compressed entries.
LegalMax(c) ==
  LET requests == Max({1, Smaller(c.seqs, c.budget)})
  IN  IF CompressRatio(c) = 1
        THEN Stock(c)
        ELSE Smaller(CeilDiv(c.maxLen + c.spec, CompressRatio(c)) * requests, Stock(c))
Workspace(c) == IF c.mode = "rightsize" THEN LegalMax(c) ELSE Stock(c)

\* The sizing raises on a mode it does not know.
SizeWorkspace ==
  /\ boot = "laid"
  /\ \E c \in Configs :
       /\ config' = c
       /\ boot' = IF c.mode = "typo" THEN "refused" ELSE "sized"
  /\ geometry' = NoGeometry
  /\ UNCHANGED batch

\* The builder's comparison of the ratio the workspace was sized with and the one
\* the engine divides by.
CrossCheckCompressed(c) ==
  c.mode = "rightsize" /\ c.ratio > 1 => CompressRatio(c) = c.ratio /\ Workspace(c) >= LegalMax(c)
CrossCheck(c) ==
  c.mode = "rightsize" => CompressRatio(c) = c.ratio /\ Workspace(c) >= LegalMax(c)

BuildMetadata ==
  /\ boot = "sized"
  /\ boot' = IF CrossCheck(config) THEN "up" ELSE "refused"
  /\ UNCHANGED <<geometry, config, batch>>

\* A request of a prefill step: its query tokens and its length, both at least one;
\* the length may run ahead of the model's by the draft tokens.
Rows(c) ==
  {r \in [query : 1..c.budget, length : 1..(c.maxLen + c.spec)] : r.query <= r.length}
Queries(rows) ==
  LET sum[n \in 0..Len(rows)] == IF n = 0 THEN 0 ELSE sum[n - 1] + rows[n].query
  IN  sum[Len(rows)]
Batches(c) ==
  {rows \in UNION {[1..n -> Rows(c)] : n \in 1..Smaller(c.seqs, MaxBatch)} :
     Queries(rows) <= c.budget}

\* split_prefill_chunks: requests are packed while their entries fit the workspace
\* and their logits the limit; the first of a chunk always does.  A chunk is the
\* number of its requests, its rows and entries, and the rows of a slice of it.
Entries(r, c) == r.length \div c.ratio
Nothing == [requests |-> 0, rows |-> 0, entries |-> 0]
Add(k, r, c) == [requests |-> k.requests + 1, rows |-> k.rows + r.query,
                 entries |-> k.entries + Entries(r, c)]
Joins(k, r, c, workspace, logits) ==
  /\ k.entries + Entries(r, c) <= workspace
  /\ (k.rows + r.query) * (k.entries + Entries(r, c)) <= logits
Packed(rows, c, workspace, logits) ==
  LET packed[n \in 0..Len(rows)] ==
        IF n = 0 THEN <<>>
        ELSE IF packed[n - 1] # <<>> /\ Joins(Last(packed[n - 1]), rows[n], c, workspace, logits)
          THEN Append(Front(packed[n - 1]), Add(Last(packed[n - 1]), rows[n], c))
          ELSE Append(packed[n - 1], Add(Nothing, rows[n], c))
  IN  packed[Len(rows)]
Slice(k, logits) == Max({1, IF k.entries > 0 THEN logits \div k.entries ELSE k.rows})
Chunks(rows, c, workspace, logits) ==
  LET packed == Packed(rows, c, workspace, logits)
  IN  [i \in DOMAIN packed |-> <<packed[i], Slice(packed[i], logits)>>]

PrefillStepUnbuilt ==
  /\ boot \in {"sized", "up"} /\ batch = NoBatch
  /\ batch' \in Batches(config)
  /\ UNCHANGED <<boot, geometry, config>>
PrefillStep ==
  /\ boot = "up" /\ batch = NoBatch
  /\ batch' \in Batches(config)
  /\ UNCHANGED <<boot, geometry, config>>

StepEnds ==
  /\ batch # NoBatch /\ batch' = NoBatch
  /\ UNCHANGED <<boot, geometry, config>>

BootInit == boot = "no" /\ geometry = NoGeometry /\ config = NoConfig /\ batch = NoBatch
BootStep == LayOut \/ SizeWorkspace \/ BuildMetadata \/ PrefillStep \/ StepEnds

-----------------------------------------------------------------------------
(* The consumers of the layout stay in lock-step (the docstring, :55-62): every
   layer has exactly one tensor, with room for one page of it per block, the
   tensors together are what the pool was sized for, and a padded page is one
   kernel block, so that no stride leaves it (:33-38). *)
PoolHoldsTheDrafter ==
  boot = "laid" =>
    LET g == geometry
        Room(layer) == IF layer[1] = "idx" THEN g.idxPage
                       ELSE IF layer[1] = "draft" THEN DraftPage(g) ELSE g.mlaPage
        layers == Layers("mla", g.mlas) \cup Layers("idx", g.mlas)
                    \cup Layers("mamba", g.mambas) \cup Layers("draft", g.drafts)
        Owns(t, layer) == layer \in t.sharedBy /\ t.size = Room(layer) * NumBlocks(g)
    IN  /\ \A layer \in layers : Cardinality({t \in Tensors(g) : Owns(t, layer)}) = 1
        /\ MapThenSumSet(LAMBDA t : t.size, Tensors(g)) = NumBlocks(g) * PoolBytes(g)
        /\ g.drafts > 0 /\ RealPage(g) < DraftPage(g) => DraftSpec(g).block = CompactBlock

(* "The chunk list is therefore IDENTICAL to stock for every batch the scheduler
   can legally form" (:47-50): the smaller workspace never splits a batch that the
   stock one does not. *)
ChunksAsStock ==
  batch # NoBatch =>
    \A logits \in LogitsSizes :
      Chunks(batch, config, Workspace(config), logits)
         = Chunks(batch, config, Stock(config), logits)
=============================================================================
