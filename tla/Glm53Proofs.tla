----------------------------- MODULE Glm53Proofs -----------------------------
(***************************************************************************)
(* Proofs about the start and the boot of a GLM-5.3 container, for any     *)
(* geometries, configurations, batches and memory:                         *)
(*   RerunChangesNothing   the scripts leave an image that was built with  *)
(*                         them as it is (RerunIsANoop);                   *)
(*   StartsOnPatchedCode   the engine is started on patched code only      *)
(*                         (ServedCodeIsPatched);                          *)
(*   ChunksAreStock        the sized workspace splits a prefill step as    *)
(*                         the stock one does (ChunksAsStock);             *)
(*   PoolIsExact           every layer has one tensor with room for it,    *)
(*                         and the tensors are what the pool was sized for *)
(*                         (PoolHoldsTheDrafter);                          *)
(*   ContainerTypes        TypeOK, which needs the invariants of           *)
(*                         DecodingProofs too.                             *)
(***************************************************************************)
EXTENDS DecodingProofs

-----------------------------------------------------------------------------
(* The entry scripts, one at a time.                                       *)

LEMMA TheNames ==
  /\ Len(Scripts) = 9
  /\ \A i \in 1 .. 9 : Scripts[i] \in Names
  /\ \A s \in Names : \E i \in 1 .. 9 : s = Scripts[i]
  /\ Names = {"video", "stops", "decode_floor", "drafter", "hybrid", "xgrammar", "kpool",
              "spinwait", "indexer"}
<1>1. Len(Scripts) = 9 /\ DOMAIN Scripts = 1 .. 9
  BY DEF Scripts
<1>2. Names = {Scripts[i] : i \in 1 .. 9}
  BY <1>1 DEF Names, ToSet
<1>3. 1 .. 9 = {1, 2, 3, 4, 5, 6, 7, 8, 9}
  OBVIOUS
<1>4. Names = {Scripts[1], Scripts[2], Scripts[3], Scripts[4], Scripts[5], Scripts[6],
               Scripts[7], Scripts[8], Scripts[9]}
  BY <1>2, <1>3
<1>5. QED
  BY <1>1, <1>2, <1>4 DEF Scripts

LEMMA ThePlaces ==
  /\ Places("video") = {"hook", "topk"}
  /\ Places("stops") = {"import", "factory", "init", "stop"}
  /\ Places("decode_floor") = {"import", "helper", "running", "waiting"}
  /\ Places("drafter") = {"groups", "layout"}
  /\ Places("hybrid") = {"helper", "eagle", "min", "log"}
  /\ Places("xgrammar") = {"accept", "validate", "reset", "manager"}
  /\ Places("kpool") = {"clamp"}
  /\ Places("spinwait") = {"window"}
  /\ Places("indexer") = {"import", "size", "guard"}
  BY DEF Places

FilesOf(s) == [Places(s) -> Texts]

\* What a script makes of a file: a file, and one the engine may be started on if it
\* does not fail.
Serves(p, s, texts) ==
  /\ p.ok \in BOOLEAN /\ p.file \in FilesOf(s)
  /\ p.ok => \A x \in Places(s) : p.file[x] \in texts

\* A file is whole: the script has not been here or has written every place of it.
Whole(s, f) ==
  (\E x \in Places(s) : f[x] \in Mine) => \A x \in Places(s) : f[x] \in Mine

LEMMA DoneServes ==
  ASSUME NEW s, NEW f \in FilesOf(s), NEW texts, \A x \in Places(s) : f[x] \in texts
  PROVE  Serves(Done(f), s, texts)
  BY DEF Serves, Done

LEMMA FailsServes ==
  ASSUME NEW s, NEW f \in FilesOf(s), NEW texts
  PROVE  Serves(Fails(f), s, texts)
  BY DEF Serves, Fails

LEMMA ReplacedIsFile ==
  ASSUME NEW s, NEW f \in FilesOf(s)
  PROVE  /\ Replaced(f) \in FilesOf(s)
         /\ \A x \in Places(s) :
              Replaced(f)[x] = CASE f[x] = "anchor" -> "new" [] f[x] = "twice" -> "half"
                                 [] OTHER -> f[x]
  BY DEF Replaced, FilesOf, Texts

LEMMA VideoServes ==
  ASSUME NEW f \in FilesOf("video")
  PROVE  Serves(PatchVideo(f), "video", {"new", "old", "half"})
<1> DEFINE hooked == [f EXCEPT !["hook"] = "new"]
<1>1. /\ hooked \in FilesOf("video") /\ hooked["hook"] = "new" /\ hooked["topk"] = f["topk"]
  BY ThePlaces DEF FilesOf, Texts
<1>2. PatchVideo(f) = CASE f["topk"] \in Mine -> Done(hooked)
                        [] f["topk"] \in {"anchor", "twice"} -> Done(Replaced(hooked))
                        [] OTHER -> Fails(hooked)
  BY DEF PatchVideo
<1> HIDE DEF hooked
<1>3. CASE f["topk"] \in Mine
  <2>1. PatchVideo(f) = Done(hooked)
    BY <1>2, <1>3 DEF Mine
  <2>2. QED
    BY <1>1, <1>3, <2>1, DoneServes, ThePlaces DEF Mine
<1>4. CASE f["topk"] \in {"anchor", "twice"}
  <2>1. PatchVideo(f) = Done(Replaced(hooked))
    BY <1>2, <1>4 DEF Mine
  <2>2. /\ Replaced(hooked) \in FilesOf("video")
        /\ \A x \in Places("video") : Replaced(hooked)[x] \in {"new", "half"}
    BY <1>1, <1>4, ReplacedIsFile, ThePlaces
  <2>3. QED
    BY <2>1, <2>2, DoneServes
<1>5. CASE ~ (f["topk"] \in Mine \/ f["topk"] \in {"anchor", "twice"})
  <2>1. PatchVideo(f) = Fails(hooked)
    BY <1>2, <1>5
  <2>2. QED
    BY <1>1, <2>1, FailsServes
<1>6. QED
  BY <1>3, <1>4, <1>5

LEMMA StopsServes ==
  ASSUME NEW f \in FilesOf("stops"), Whole("stops", f)
  PROVE  Serves(PatchStops(f), "stops", {"new", "old", "half"})
<1>1. DOMAIN f = Places("stops") /\ "factory" \in Places("stops")
  BY ThePlaces DEF FilesOf
<1>2. PatchStops(f) = CASE f["factory"] \in Mine -> Done(f)
                        [] \A x \in Places("stops") : f[x] \in {"anchor", "twice"} -> Done(Replaced(f))
                        [] OTHER -> Fails(f)
  BY <1>1, Zenon DEF PatchStops
<1>3. CASE f["factory"] \in Mine
  <2>1. PatchStops(f) = Done(f)
    BY <1>1, <1>2, <1>3 DEF Mine
  <2>2. QED
    BY <1>1, <1>3, <2>1, DoneServes DEF Whole, Mine
<1>4. CASE f["factory"] \notin Mine /\ \A x \in Places("stops") : f[x] \in {"anchor", "twice"}
  <2>1. PatchStops(f) = Done(Replaced(f))
    BY <1>2, <1>4
  <2>2. /\ Replaced(f) \in FilesOf("stops")
        /\ \A x \in Places("stops") : Replaced(f)[x] \in {"new", "half"}
    BY <1>4, ReplacedIsFile
  <2>3. QED
    BY <2>1, <2>2, DoneServes
<1>5. CASE f["factory"] \notin Mine /\ ~ \A x \in Places("stops") : f[x] \in {"anchor", "twice"}
  <2>1. PatchStops(f) = Fails(f)
    BY <1>2, <1>5
  <2>2. QED
    BY <2>1, FailsServes
<1>6. QED
  BY <1>3, <1>4, <1>5

LEMMA OnceServes ==
  ASSUME NEW s, NEW f \in FilesOf(s), Whole(s, f), NEW marks \in SUBSET Places(s), NEW mayBeDone
  PROVE  /\ Serves(PatchOnce(f, marks, mayBeDone), s, {"new", "old", "upstream"})
         /\ mayBeDone = {} => Serves(PatchOnce(f, marks, mayBeDone), s, {"new", "old"})
<1> DEFINE ready(x) == f[x] = "anchor" \/ (x \in mayBeDone /\ f[x] = "upstream")
<1>1. DOMAIN f = Places(s)
  BY DEF FilesOf
<1>2. PatchOnce(f, marks, mayBeDone) =
        IF Marked(f, marks) THEN Done(f)
        ELSE IF \A x \in Places(s) : ready(x) THEN Done(Replaced(f)) ELSE Fails(f)
  BY <1>1, Zenon DEF PatchOnce
<1>3. CASE Marked(f, marks)
  <2>1. \A x \in Places(s) : f[x] \in Mine
    BY <1>3 DEF Marked, Whole
  <2>2. QED
    BY <1>2, <1>3, <2>1, DoneServes DEF Mine
<1>4. CASE ~ Marked(f, marks) /\ \A x \in Places(s) : ready(x)
  <2> DEFINE g == Replaced(f)
  <2>1. PatchOnce(f, marks, mayBeDone) = Done(g)
    BY <1>2, <1>4
  <2>2. g \in FilesOf(s)
    BY ReplacedIsFile
  <2>3. /\ \A x \in Places(s) : g[x] \in {"new", "old", "upstream"}
        /\ mayBeDone = {} => \A x \in Places(s) : g[x] \in {"new", "old"}
    BY <1>4, ReplacedIsFile
  <2> HIDE DEF g
  <2>4. Serves(Done(g), s, {"new", "old", "upstream"})
    BY <2>2, <2>3, DoneServes
  <2>5. ASSUME mayBeDone = {}
        PROVE  Serves(Done(g), s, {"new", "old"})
    <3>1. \A x \in Places(s) : g[x] \in {"new", "old"}
      BY <2>3, <2>5
    <3>2. QED
      BY <2>2, <3>1, DoneServes
  <2>6. QED
    BY <2>1, <2>4, <2>5
<1>5. CASE ~ Marked(f, marks) /\ ~ \A x \in Places(s) : ready(x)
  <2>1. PatchOnce(f, marks, mayBeDone) = Fails(f)
    BY <1>2, <1>5
  <2>2. QED
    BY <2>1, FailsServes
<1>6. QED
  BY <1>3, <1>4, <1>5

LEMMA DrafterServes ==
  ASSUME NEW f \in FilesOf("drafter")
  PROVE  Serves(PatchDrafter(f), "drafter", {"new"})
<1> DEFINE loose == [f EXCEPT !["layout"] = "new"]
           grouped == [loose EXCEPT !["groups"] = "new"]
<1>1. loose \in FilesOf("drafter") /\ loose["layout"] = "new" /\ loose["groups"] = f["groups"]
  BY ThePlaces DEF FilesOf, Texts
<1>2. PatchDrafter(f) = CASE f["groups"] = "new" -> Done(loose)
                          [] f["groups"] \in {"asis", "compact"} -> Done(grouped)
                          [] f = Clean("drafter") -> Done(Replaced(f))
                          [] OTHER -> Fails(f)
  BY DEF PatchDrafter
<1>3. f = Clean("drafter") => f["groups"] = "anchor" /\ f["layout"] = "anchor"
  BY ThePlaces DEF Clean
<1> HIDE DEF loose
<1>4. /\ grouped \in FilesOf("drafter") /\ grouped["layout"] = "new" /\ grouped["groups"] = "new"
  BY <1>1, ThePlaces DEF FilesOf, Texts
<1> HIDE DEF grouped
<1>5. \/ PatchDrafter(f) = Done(loose) /\ f["groups"] = "new"
      \/ PatchDrafter(f) = Done(grouped)
      \/ PatchDrafter(f) = Done(Replaced(f)) /\ f = Clean("drafter")
      \/ PatchDrafter(f) = Fails(f)
  BY <1>2
<1>6. f = Clean("drafter") => \A x \in Places("drafter") : Replaced(f)[x] = "new"
  BY <1>3, ReplacedIsFile, ThePlaces
<1>7. Replaced(f) \in FilesOf("drafter")
  BY ReplacedIsFile
<1>8. (\A x \in Places("drafter") : grouped[x] = "new")
      /\ (f["groups"] = "new" => \A x \in Places("drafter") : loose[x] = "new")
  BY <1>1, <1>4, ThePlaces
<1>9. QED
  BY <1>1, <1>4, <1>5, <1>6, <1>7, <1>8, DoneServes, FailsServes

\* A prepared part: a file, and of the part nothing but the script's own text.
LEMMA PrepareServes ==
  ASSUME NEW s, NEW f \in FilesOf(s), NEW part \in SUBSET Places(s), NEW marks
  PROVE  LET p == Prepare(f, part, marks) IN
         /\ p.ok \in BOOLEAN /\ p.file \in FilesOf(s)
         /\ p.ok => \A x \in part : p.file[x] = "new"
         /\ \A x \in Places(s) \ part : p.file[x] = f[x]
<1> DEFINE p == Prepare(f, part, marks)
           written == [x \in Places(s) |-> IF x \in part THEN "new" ELSE f[x]]
<1>1. p = IF Marked(f, marks) THEN [ok |-> Verified(f, part), file |-> f]
          ELSE [ok |-> \A x \in part : Anchors(f, x) = 1, file |-> written]
  <2>1. DOMAIN f = Places(s)
    BY DEF FilesOf
  <2>2. QED
    BY <2>1, Zenon DEF Prepare
<1>2. written \in FilesOf(s)
  BY DEF FilesOf, Texts
<1>3. Verified(f, part) \in BOOLEAN /\ (Verified(f, part) => \A x \in part : f[x] = "new")
  BY DEF Verified
<1>4. CASE Marked(f, marks)
  <2>1. p.ok = Verified(f, part) /\ p.file = f
    BY <1>1, <1>4
  <2>2. QED
    BY <1>3, <2>1
<1>5. CASE ~ Marked(f, marks)
  <2>1. (p.ok <=> \A x \in part : Anchors(f, x) = 1) /\ p.ok \in BOOLEAN /\ p.file = written
    BY <1>1, <1>5
  <2>2. (\A x \in part : written[x] = "new") /\ \A x \in Places(s) \ part : written[x] = f[x]
    OBVIOUS
  <2>3. QED
    BY <1>2, <2>1, <2>2
<1>6. QED
  BY <1>4, <1>5

LEMMA CheckedServes ==
  ASSUME NEW s, NEW f \in FilesOf(s)
  PROVE  Serves(PatchChecked(f), s, {"new"})
<1> DEFINE p == Prepare(f, Places(s), Places(s))
<1>1. /\ p.ok \in BOOLEAN /\ p.file \in FilesOf(s)
      /\ p.ok => \A x \in Places(s) : p.file[x] = "new"
  BY PrepareServes
<1>2. PatchChecked(f) = IF p.ok THEN p ELSE Fails(f)
  <2>1. DOMAIN f = Places(s)
    BY DEF FilesOf
  <2>2. QED
    BY <2>1, Zenon DEF PatchChecked
<1> HIDE DEF p
<1>3. CASE p.ok
  BY <1>1, <1>2, <1>3 DEF Serves
<1>4. CASE ~ p.ok
  BY <1>2, <1>4, FailsServes
<1>5. QED
  BY <1>3, <1>4

LEMMA FixedServes ==
  ASSUME NEW s, NEW f \in FilesOf(s), NEW part \in SUBSET Places(s), NEW marks
  PROVE  LET p == PrepareFixed(f, part, marks) IN
         /\ p.ok \in BOOLEAN /\ p.file \in FilesOf(s)
         /\ p.ok => \A x \in part : p.file[x] \in {"new", "upstream"}
         /\ \A x \in Places(s) \ part : p.file[x] = f[x]
<1>1. CASE \A x \in part : f[x] = "upstream"
  <2>1. PrepareFixed(f, part, marks) = Done(f) /\ Done(f).ok = TRUE /\ Done(f).file = f
    BY <1>1 DEF PrepareFixed, Done
  <2>2. QED
    BY <1>1, <2>1
<1>2. CASE ~ \A x \in part : f[x] = "upstream"
  <2>1. PrepareFixed(f, part, marks) = Prepare(f, part, marks)
    BY <1>2 DEF PrepareFixed
  <2> DEFINE q == Prepare(f, part, marks)
  <2>2. /\ q.ok \in BOOLEAN /\ q.file \in FilesOf(s)
        /\ q.ok => \A x \in part : q.file[x] = "new"
        /\ \A x \in Places(s) \ part : q.file[x] = f[x]
    BY PrepareServes
  <2> HIDE DEF q
  <2>3. QED
    BY <2>1, <2>2 DEF q
<1>3. QED
  BY <1>1, <1>2

LEMMA XgrammarServes ==
  ASSUME NEW f \in FilesOf("xgrammar")
  PROVE  Serves(PatchXgrammar(f), "xgrammar", {"new", "upstream"})
<1> DEFINE backend == PrepareFixed(f, Backend, {"accept"})
           manager == PrepareFixed(backend.file, {"manager"}, {"manager"})
<1>1. /\ Backend \in SUBSET Places("xgrammar") /\ {"manager"} \in SUBSET Places("xgrammar")
      /\ Places("xgrammar") = Backend \cup {"manager"} /\ "manager" \notin Backend
  BY ThePlaces DEF Backend
<1>2. PatchXgrammar(f) = IF backend.ok /\ manager.ok THEN Done(manager.file) ELSE Fails(f)
  BY Zenon DEF PatchXgrammar
<1>3. /\ backend.file \in FilesOf("xgrammar")
      /\ backend.ok => \A x \in Backend : backend.file[x] \in {"new", "upstream"}
  BY <1>1, FixedServes
<1>4. /\ manager.file \in FilesOf("xgrammar")
      /\ manager.ok => manager.file["manager"] \in {"new", "upstream"}
      /\ \A x \in Backend : manager.file[x] = backend.file[x]
  <2> DEFINE between == backend.file
             m == {"manager"}
  <2>1. between \in FilesOf("xgrammar") /\ m \in SUBSET Places("xgrammar")
    BY <1>1, <1>3
  <2> HIDE DEF between, m
  <2>2. LET p == PrepareFixed(between, m, m) IN
        /\ p.ok \in BOOLEAN /\ p.file \in FilesOf("xgrammar")
        /\ p.ok => \A x \in m : p.file[x] \in {"new", "upstream"}
        /\ \A x \in Places("xgrammar") \ m : p.file[x] = between[x]
    BY <2>1, FixedServes
  <2>3. \A x \in Backend : x \in Places("xgrammar") \ m
    BY <1>1 DEF m
  <2>4. "manager" \in m /\ PrepareFixed(between, m, m) = manager
    BY DEF m, between
  <2> HIDE DEF manager, backend
  <2>5. QED
    BY <2>2, <2>3, <2>4 DEF between
<1> HIDE DEF backend, manager
<1>5. backend.ok /\ manager.ok => \A x \in Places("xgrammar") : manager.file[x] \in {"new", "upstream"}
  BY <1>1, <1>3, <1>4
<1>6. QED
  BY <1>2, <1>4, <1>5, DoneServes, FailsServes

LEMMA SpinwaitServes ==
  ASSUME NEW f \in FilesOf("spinwait"), NEW v \in SpinValues
  PROVE  Serves(PatchSpinwait(f, v), "spinwait", {SpinText(v)})
<1> DEFINE set == [f EXCEPT !["window"] = v]
<1>1. \/ PatchSpinwait(f, v) = Done(f) /\ v = "stock" /\ f["window"] = "anchor"
      \/ PatchSpinwait(f, v) = Done(set) /\ v \in Mine
      \/ PatchSpinwait(f, v) = Fails(f)
  BY DEF PatchSpinwait
<1>2. v \in Mine => /\ set \in FilesOf("spinwait") /\ SpinText(v) = v
                    /\ \A x \in Places("spinwait") : set[x] = v
  BY ThePlaces DEF FilesOf, Texts, Mine, SpinText
<1>3. v = "stock" => SpinText(v) = "anchor"
  BY DEF SpinText
<1> HIDE DEF set
<1>4. QED
  BY <1>1, <1>2, <1>3, ThePlaces, DoneServes, FailsServes

-----------------------------------------------------------------------------
(* What the scripts make of clean files, and of files they have patched.    *)

Patched(s) == [x \in Places(s) |-> "new"]

LEMMA SameFile ==
  ASSUME NEW s, NEW f \in FilesOf(s), NEW g \in FilesOf(s), \A x \in Places(s) : f[x] = g[x]
  PROVE  f = g
  BY DEF FilesOf

LEMMA CleanAndPatched ==
  ASSUME NEW s
  PROVE  /\ Clean(s) \in FilesOf(s) /\ \A x \in Places(s) : Clean(s)[x] = "anchor"
         /\ Patched(s) \in FilesOf(s) /\ \A x \in Places(s) : Patched(s)[x] = "new"
         /\ Replaced(Clean(s)) = Patched(s)
  BY DEF Clean, Patched, FilesOf, Texts, Replaced

LEMMA VideoTwice ==
  /\ PatchVideo(Clean("video")) = Done(Patched("video"))
  /\ PatchVideo(Patched("video")) = Done(Patched("video"))
<1>1. ASSUME NEW f \in FilesOf("video"), f["topk"] \in {"anchor", "new"}, f["hook"] \in {"anchor", "new"}
      PROVE  PatchVideo(f) = Done(Patched("video"))
  <2> DEFINE hooked == [f EXCEPT !["hook"] = "new"]
  <2>1. /\ hooked \in FilesOf("video") /\ hooked["hook"] = "new" /\ hooked["topk"] = f["topk"]
    BY ThePlaces DEF FilesOf, Texts
  <2>2. PatchVideo(f) = CASE f["topk"] \in Mine -> Done(hooked)
                          [] f["topk"] \in {"anchor", "twice"} -> Done(Replaced(hooked))
                          [] OTHER -> Fails(hooked)
    BY DEF PatchVideo
  <2> HIDE DEF hooked
  <2>3. CASE f["topk"] = "new"
    <3>1. hooked = Patched("video")
      BY <2>1, <2>3, CleanAndPatched, SameFile, ThePlaces
    <3>2. QED
      BY <2>2, <2>3, <3>1 DEF Mine
  <2>4. CASE f["topk"] = "anchor"
    <3>1. Replaced(hooked) \in FilesOf("video")
          /\ \A x \in Places("video") : Replaced(hooked)[x] = "new"
      BY <2>1, <2>4, ReplacedIsFile, ThePlaces
    <3>2. Replaced(hooked) = Patched("video")
      BY <3>1, CleanAndPatched, SameFile
    <3>3. QED
      BY <2>2, <2>4, <3>2 DEF Mine
  <2>5. QED
    BY <1>1, <2>3, <2>4
<1>2. QED
  BY <1>1, CleanAndPatched, ThePlaces

LEMMA StopsTwice ==
  /\ PatchStops(Clean("stops")) = Done(Patched("stops"))
  /\ PatchStops(Patched("stops")) = Done(Patched("stops"))
<1>1. /\ \A x \in DOMAIN Clean("stops") : Clean("stops")[x] \in {"anchor", "twice"}
      /\ Clean("stops")["factory"] = "anchor" /\ Patched("stops")["factory"] = "new"
  BY CleanAndPatched, ThePlaces DEF Clean
<1>2. PatchStops(Clean("stops")) = Done(Replaced(Clean("stops")))
  BY <1>1 DEF PatchStops, Mine
<1>3. "factory" \in DOMAIN Patched("stops")
  BY ThePlaces DEF Patched
<1>4. PatchStops(Patched("stops")) = Done(Patched("stops"))
  BY <1>1, <1>3 DEF PatchStops, Mine
<1>5. QED
  BY <1>2, <1>4, CleanAndPatched

LEMMA OnceTwice ==
  ASSUME NEW s, NEW marks \in SUBSET Places(s), marks # {}, NEW mayBeDone
  PROVE  /\ PatchOnce(Clean(s), marks, mayBeDone) = Done(Patched(s))
         /\ PatchOnce(Patched(s), marks, mayBeDone) = Done(Patched(s))
<1>1. ~ Marked(Clean(s), marks) /\ Marked(Patched(s), marks)
  BY CleanAndPatched DEF Marked, Mine
<1>2. \A x \in DOMAIN Clean(s) : Clean(s)[x] = "anchor"
  BY DEF Clean
<1>3. QED
  BY <1>1, <1>2, CleanAndPatched DEF PatchOnce

LEMMA DrafterTwice ==
  /\ PatchDrafter(Clean("drafter")) = Done(Patched("drafter"))
  /\ PatchDrafter(Patched("drafter")) = Done(Patched("drafter"))
<1> DEFINE f == Patched("drafter")
           loose == [f EXCEPT !["layout"] = "new"]
<1>1. /\ Clean("drafter")["groups"] = "anchor" /\ f["groups"] = "new" /\ f["layout"] = "new"
      /\ f # Clean("drafter")
  BY CleanAndPatched, ThePlaces
<1>2. PatchDrafter(Clean("drafter")) = Done(Replaced(Clean("drafter")))
  BY <1>1 DEF PatchDrafter
<1>3. loose = f
  BY <1>1 DEF Patched
<1>4. PatchDrafter(f) = Done(f)
  BY <1>1, <1>3 DEF PatchDrafter
<1>5. QED
  BY <1>2, <1>4, CleanAndPatched

\* A part that is as upstream wrote it is written; a part that was written is left.
LEMMA PrepareClean ==
  ASSUME NEW s, NEW f \in FilesOf(s), NEW part \in SUBSET Places(s),
         NEW marks \in SUBSET part, \A x \in part : f[x] = "anchor"
  PROVE  Prepare(f, part, marks) = Done([x \in Places(s) |-> IF x \in part THEN "new" ELSE f[x]])
<1> DEFINE written == [x \in Places(s) |-> IF x \in part THEN "new" ELSE f[x]]
<1>1. ~ Marked(f, marks)
  BY DEF Marked, Mine
<1>2. (\A x \in part : Anchors(f, x) = 1) = TRUE
  BY DEF Anchors, Mine
<1>3. DOMAIN f = Places(s)
  BY DEF FilesOf
<1>4. Prepare(f, part, marks) = [ok |-> \A x \in part : Anchors(f, x) = 1, file |-> written]
  BY <1>1, <1>3, Zenon DEF Prepare
<1> HIDE DEF written
<1>5. Prepare(f, part, marks) = Done(written)
  BY <1>2, <1>4 DEF Done
<1>6. QED
  BY <1>5 DEF written

LEMMA PreparePatched ==
  ASSUME NEW f, NEW part, NEW marks \in SUBSET part, marks # {}, \A x \in part : f[x] = "new"
  PROVE  Prepare(f, part, marks) = Done(f)
<1>1. Marked(f, marks)
  BY DEF Marked, Mine
<1>2. Verified(f, part) = TRUE
  BY DEF Verified, Anchors, Mine
<1>3. Prepare(f, part, marks) = [ok |-> Verified(f, part), file |-> f]
  BY <1>1, Zenon DEF Prepare
<1>4. QED
  BY <1>2, <1>3 DEF Done

LEMMA CheckedTwice ==
  ASSUME NEW s, Places(s) # {}
  PROVE  /\ PatchChecked(Clean(s)) = Done(Patched(s))
         /\ PatchChecked(Patched(s)) = Done(Patched(s))
<1>1. DOMAIN Clean(s) = Places(s) /\ DOMAIN Patched(s) = Places(s)
  BY DEF Clean, Patched
<1>2. Prepare(Patched(s), Places(s), Places(s)) = Done(Patched(s))
  <2> DEFINE P == Places(s)
             g == Patched(s)
  <2>1. /\ g \in FilesOf(s) /\ P \in SUBSET Places(s) /\ P \in SUBSET P /\ P # {}
        /\ \A x \in P : g[x] = "new"
    BY CleanAndPatched
  <2> HIDE DEF P, g
  <2>2. Prepare(g, P, P) = Done(g)
    BY <2>1, PreparePatched
  <2>3. QED
    BY <2>2 DEF P, g
<1>3. Prepare(Clean(s), Places(s), Places(s)) = Done(Patched(s))
  <2> DEFINE written == [x \in Places(s) |-> IF x \in Places(s) THEN "new" ELSE Clean(s)[x]]
  <2>1. Prepare(Clean(s), Places(s), Places(s)) = Done(written)
    BY PrepareClean, CleanAndPatched
  <2>2. written = Patched(s)
    BY DEF Patched
  <2>3. QED
    BY <2>1, <2>2
<1>4. Done(Patched(s)).ok = TRUE
  BY DEF Done
<1>5. QED
  BY <1>1, <1>2, <1>3, <1>4 DEF PatchChecked

LEMMA XgrammarTwice ==
  /\ PatchXgrammar(Clean("xgrammar")) = Done(Patched("xgrammar"))
  /\ PatchXgrammar(Patched("xgrammar")) = Done(Patched("xgrammar"))
<1> DEFINE f == Clean("xgrammar")
           g == Patched("xgrammar")
           half == [x \in Places("xgrammar") |-> IF x \in Backend THEN "new" ELSE f[x]]
           m == {"manager"}
           a == {"accept"}
<1>1. /\ Backend \in SUBSET Places("xgrammar") /\ m \in SUBSET Places("xgrammar")
      /\ Places("xgrammar") = Backend \cup m /\ "manager" \notin Backend
      /\ a \in SUBSET Backend /\ a # {} /\ m # {} /\ "accept" \in Backend
  BY ThePlaces DEF Backend
<1>2. /\ f \in FilesOf("xgrammar") /\ \A x \in Places("xgrammar") : f[x] = "anchor"
      /\ g \in FilesOf("xgrammar") /\ \A x \in Places("xgrammar") : g[x] = "new"
  BY CleanAndPatched
<1> HIDE DEF f, g
<1>3. /\ half \in FilesOf("xgrammar") /\ half["manager"] = "anchor"
      /\ \A x \in Backend : half[x] = "new"
  BY <1>1, <1>2 DEF FilesOf, Texts
<1>4. PrepareFixed(f, Backend, a) = Done(half)
  <2>1. PrepareFixed(f, Backend, a) = Prepare(f, Backend, a)
    BY <1>1, <1>2 DEF PrepareFixed
  <2>2. Prepare(f, Backend, a) = Done(half)
    <3> HIDE DEF a
    <3>1. QED
      BY <1>1, <1>2, PrepareClean
  <2>3. QED
    BY <2>1, <2>2
<1>5. PrepareFixed(g, Backend, a) = Done(g)
  <2>1. PrepareFixed(g, Backend, a) = Prepare(g, Backend, a)
    BY <1>1, <1>2 DEF PrepareFixed
  <2>2. \A x \in Backend : g[x] = "new"
    BY <1>1, <1>2
  <2> HIDE DEF a
  <2>3. QED
    BY <1>1, <2>1, <2>2, PreparePatched
<1>6. PrepareFixed(g, m, m) = Done(g)
  <2>1. PrepareFixed(g, m, m) = Prepare(g, m, m)
    BY <1>1, <1>2 DEF PrepareFixed
  <2>2. \A x \in m : g[x] = "new"
    BY <1>1, <1>2
  <2> HIDE DEF m
  <2>3. QED
    BY <1>1, <2>1, <2>2, PreparePatched
<1> HIDE DEF half
<1>7. PrepareFixed(half, m, m) = Done(g)
  <2> DEFINE written == [x \in Places("xgrammar") |-> IF x \in m THEN "new" ELSE half[x]]
  <2>1. PrepareFixed(half, m, m) = Prepare(half, m, m)
    BY <1>1, <1>3 DEF PrepareFixed
  <2>2. \A x \in m : half[x] = "anchor"
    BY <1>3
  <2>3. written \in FilesOf("xgrammar") /\ \A x \in Places("xgrammar") : written[x] = "new"
    BY <1>1, <1>3 DEF FilesOf, Texts
  <2>4. written = g
    BY <1>2, <2>3, SameFile
  <2> HIDE DEF m
  <2>5. Prepare(half, m, m) = Done(written)
    BY <1>1, <1>3, <2>2, PrepareClean
  <2>6. QED
    BY <2>1, <2>4, <2>5
<1>8. /\ Done(half).file = half /\ Done(half).ok /\ Done(g).file = g /\ Done(g).ok
  BY DEF Done
<1>9. QED
  BY <1>4, <1>5, <1>6, <1>7, <1>8, Zenon DEF PatchXgrammar, f, g

\* The spin window, as the script leaves it for a value.
SpinFile(v) == [x \in Places("spinwait") |-> SpinText(v)]

LEMMA SpinwaitTwice ==
  ASSUME NEW v \in SpinValues, v # "bad"
  PROVE  /\ PatchSpinwait(Clean("spinwait"), v) = Done(SpinFile(v))
         /\ PatchSpinwait(SpinFile(v), v) = Done(SpinFile(v))
         /\ SpinFile(v) \in FilesOf("spinwait")
<1>1. /\ Clean("spinwait")["window"] = "anchor" /\ SpinFile(v)["window"] = SpinText(v)
  BY ThePlaces DEF Clean, SpinFile
<1>2. /\ SpinFile("stock") = Clean("spinwait")
      /\ v # "stock" => /\ [Clean("spinwait") EXCEPT !["window"] = v] = SpinFile(v)
                        /\ [SpinFile(v) EXCEPT !["window"] = v] = SpinFile(v)
  BY ThePlaces DEF SpinFile, Clean, SpinText
<1>3. v \in {"stock", "new", "old"}
  BY DEF SpinValues
<1>4. SpinFile(v) \in FilesOf("spinwait")
  BY <1>3 DEF SpinFile, SpinText, FilesOf, Texts
<1>5. CASE v = "stock"
  BY <1>1, <1>2, <1>4, <1>5 DEF PatchSpinwait, Mine, SpinText
<1>6. CASE v # "stock"
  BY <1>1, <1>2, <1>3, <1>4, <1>6 DEF PatchSpinwait, Mine, SpinText
<1>7. QED
  BY <1>5, <1>6

\* Files that every script but the spin window's has patched, the latter for v.
PatchedFor(s, v) == IF s = "spinwait" THEN SpinFile(v) ELSE Patched(s)

LEMMA PatchTwice ==
  ASSUME NEW s \in Names, NEW v \in SpinValues, v # "bad"
  PROVE  /\ Patch(s, Clean(s), v) = Done(PatchedFor(s, v))
         /\ Patch(s, PatchedFor(s, v), v) = Done(PatchedFor(s, v))
         /\ PatchedFor(s, v) \in FilesOf(s)
<1>1. CASE s = "video"
  BY <1>1, VideoTwice, CleanAndPatched DEF Patch, PatchedFor
<1>2. CASE s = "stops"
  BY <1>2, StopsTwice, CleanAndPatched DEF Patch, PatchedFor
<1>3. CASE s = "decode_floor"
  <2> DEFINE marks == {"running", "waiting"}
  <2>1. marks \in SUBSET Places(s) /\ marks # {}
    BY <1>3, ThePlaces
  <2>2. \A f : PatchDecodeFloor(f) = PatchOnce(f, marks, {"import"})
    BY DEF PatchDecodeFloor
  <2> HIDE DEF marks
  <2>3. QED
    BY <1>3, <2>1, <2>2, OnceTwice, CleanAndPatched DEF Patch, PatchedFor
<1>4. CASE s = "drafter"
  BY <1>4, DrafterTwice, CleanAndPatched DEF Patch, PatchedFor
<1>5. CASE s = "hybrid"
  <2> DEFINE marks == {"eagle", "min", "log"}
  <2>1. marks \in SUBSET Places(s) /\ marks # {}
    BY <1>5, ThePlaces
  <2>2. \A f : PatchHybrid(f) = PatchOnce(f, marks, {})
    BY DEF PatchHybrid
  <2> HIDE DEF marks
  <2>3. QED
    BY <1>5, <2>1, <2>2, OnceTwice, CleanAndPatched DEF Patch, PatchedFor
<1>6. CASE s = "xgrammar"
  BY <1>6, XgrammarTwice, CleanAndPatched DEF Patch, PatchedFor
<1>7. CASE s = "kpool"
  <2>1. Places(s) # {}
    BY <1>7, ThePlaces
  <2>2. QED
    BY <1>7, <2>1, CheckedTwice, CleanAndPatched DEF Patch, PatchedFor
<1>8. CASE s = "spinwait"
  BY <1>8, SpinwaitTwice DEF Patch, PatchedFor
<1>9. CASE s = "indexer"
  <2>1. Places(s) # {}
    BY <1>9, ThePlaces
  <2>2. QED
    BY <1>9, <2>1, CheckedTwice, CleanAndPatched DEF Patch, PatchedFor
<1>10. QED
  BY <1>1, <1>2, <1>3, <1>4, <1>5, <1>6, <1>7, <1>8, <1>9, TheNames

LEMMA TheBaked ==
  ASSUME NEW v \in SpinValues, v # "bad"
  PROVE  Baked(v) = [s \in Names |-> PatchedFor(s, v)]
<1>1. \A s \in Names : Patch(s, Clean(s), v).file = PatchedFor(s, v)
  <2>1. \A f : Done(f).file = f
    BY DEF Done
  <2>2. QED
    BY <2>1, PatchTwice
<1>2. QED
  BY <1>1 DEF Baked

-----------------------------------------------------------------------------
(* A container that was built with the scripts it starts with.              *)

LEMMA TheScripts ==
  /\ \A i \in 1 .. 9 : Scripts[i] \in Names
  /\ \A i, j \in 1 .. 9 : Scripts[i] = Scripts[j] => i = j
<1>1. 1 .. 9 = {1, 2, 3, 4, 5, 6, 7, 8, 9}
  OBVIOUS
<1>2. QED
  BY <1>1, TheNames DEF Scripts

RerunInv ==
  /\ script \in Nat \ {0} /\ spin \in SpinValues
  /\ baked = "new" => bakedSpin # "bad"
  /\ baked = "new" /\ spin = bakedSpin =>
       files = Baked(spin) /\ touched = {} /\ stage # "refused"

LEMMA RerunInit == Init => RerunInv
  BY DEF Init, EntryInit, RerunInv, SpinValues

LEMMA RerunNext == RerunInv /\ [Next]_vars => RerunInv'
<1> SUFFICES ASSUME RerunInv, [Next]_vars
             PROVE  RerunInv'
  OBVIOUS
<1> USE DEF RerunInv
<1>1. CASE RunScript
  <2> DEFINE s == Scripts[script]
             p == Patch(s, files[s], spin)
  <2>1. /\ stage = "entry" /\ script \in 1 .. 9
        /\ files' = [files EXCEPT ![s] = p.file]
        /\ touched' = IF p.file # files[s] THEN touched \cup {s} ELSE touched
        /\ IF Refuses(p) THEN stage' = "refused" /\ UNCHANGED script
                         ELSE script' = script + 1 /\ UNCHANGED stage
        /\ UNCHANGED <<baked, spin, bakedSpin>>
    BY <1>1, TheNames DEF RunScript
  <2>2. script' \in Nat \ {0}
    BY <2>1
  <2>3. ASSUME baked = "new", spin = bakedSpin
        PROVE  files' = Baked(spin) /\ touched' = {} /\ stage' # "refused"
    <3>1. /\ s \in Names /\ files = [t \in Names |-> PatchedFor(t, spin)]
          /\ files = Baked(spin) /\ touched = {}
      BY <2>1, <2>3, TheBaked, TheScripts
    <3>2. p = Done(files[s])
      BY <2>3, <3>1, PatchTwice
    <3>3. p.file = files[s] /\ ~ Refuses(p)
      BY <3>2 DEF Done, Refuses
    <3> HIDE DEF p, s
    <3>4. files' = files
      BY <2>1, <3>1, <3>3
    <3>5. QED
      BY <2>1, <3>1, <3>3, <3>4
  <2>4. QED
    BY <2>1, <2>2, <2>3
<1>2. CASE ExecEngine
  BY <1>2 DEF ExecEngine
<1>3. CASE LoadEngine
  BY <1>3 DEF LoadEngine, SpinValues
<1>4. CASE Engine \/ Serve \/ UNCHANGED vars
  <2>1. UNCHANGED entryVars
    BY <1>4 DEF Engine, Serve, vars
  <2>2. QED
    BY <2>1 DEF entryVars
<1>5. QED
  BY <1>1, <1>2, <1>3, <1>4 DEF Next, Entry

\* An image that was built with the mounted scripts and the container's spin window is
\* neither changed nor refused at the start, after any number of scripts
\* (README.md:26-28).
THEOREM RerunChangesNothing == Spec => []RerunIsANoop
<1>1. RerunInv => RerunIsANoop
  BY DEF RerunInv, RerunIsANoop
<1>2. QED
  BY <1>1, RerunInit, RerunNext, PTL DEF Spec

-----------------------------------------------------------------------------
(* What an image can hold, and what the scripts leave of it.                *)

\* Older versions of the drafter's script are known by the layers, not by the mark.
Unbroken(s, f) == f \in FilesOf(s) /\ (s # "drafter" => Whole(s, f))
Holds(fs) == DOMAIN fs = Names /\ \A s \in Names : Unbroken(s, fs[s])

LEMMA WithFile ==
  ASSUME NEW fs, DOMAIN fs = Names, \A s \in Names : fs[s] \in FilesOf(s),
         NEW spot \in Spots, NEW t \in Texts
  PROVE  /\ DOMAIN With(fs, spot, t) = Names
         /\ \A s \in Names : With(fs, spot, t)[s] \in FilesOf(s)
         /\ \A s \in Names : \A x \in Places(s) :
              With(fs, spot, t)[s][x] = IF <<s, x>> = spot THEN t ELSE fs[s][x]
<1>1. PICK a \in Names : \E b \in Places(a) : spot = <<a, b>>
  BY DEF Spots
<1>2. PICK b \in Places(a) : spot = <<a, b>>
  BY <1>1
<1> DEFINE f == [fs[a] EXCEPT ![b] = t]
           g == With(fs, spot, t)
<1>3. /\ f \in FilesOf(a) /\ \A x \in Places(a) : f[x] = IF x = b THEN t ELSE fs[a][x]
  BY DEF FilesOf
<1>4. g = [fs EXCEPT ![a] = f]
  BY <1>2 DEF With
<1> HIDE DEF f, g
<1>5. DOMAIN g = Names /\ \A s \in Names : g[s] = IF s = a THEN f ELSE fs[s]
  BY <1>4
<1>6. \A s \in Names : g[s] \in FilesOf(s)
  BY <1>3, <1>5
<1>7. ASSUME NEW s \in Names, NEW x \in Places(s)
      PROVE  g[s][x] = IF <<s, x>> = spot THEN t ELSE fs[s][x]
  BY <1>2, <1>3, <1>5
<1>8. QED
  BY <1>5, <1>6, <1>7 DEF g

LEMMA UnbakedHolds ==
  ASSUME NEW fs \in Unbaked
  PROVE  Holds(fs)
<1>1. /\ DOMAIN CleanFiles = Names /\ \A s \in Names : CleanFiles[s] = Clean(s)
      /\ \A s \in Names : CleanFiles[s] \in FilesOf(s)
      /\ \A s \in Names : \A x \in Places(s) : CleanFiles[s][x] = "anchor"
  BY CleanAndPatched DEF CleanFiles
<1>2. SUFFICES /\ DOMAIN fs = Names /\ \A s \in Names : fs[s] \in FilesOf(s)
               /\ \A s \in Names : \A x \in Places(s) : fs[s][x] \notin Mine
  BY Zenon DEF Holds, Unbroken, Whole
<1>3. CASE fs = CleanFiles
  BY <1>1, <1>3 DEF Mine
<1>4. CASE fs \in Drifts
  <2>1. PICK spot \in Spots, t \in {"other", "twice", "upstream"} : fs = With(CleanFiles, spot, t)
    BY <1>4 DEF Drifts
  <2>2. t \in Texts /\ t \notin Mine /\ "anchor" \notin Mine
    BY DEF Texts, Mine
  <2>3. /\ DOMAIN fs = Names /\ \A s \in Names : fs[s] \in FilesOf(s)
        /\ \A s \in Names : \A x \in Places(s) :
             fs[s][x] = IF <<s, x>> = spot THEN t ELSE CleanFiles[s][x]
    BY <1>1, <2>1, <2>2, WithFile
  <2>4. QED
    BY <1>1, <2>2, <2>3
<1>5. CASE fs \in Fixed
  <2> DEFINE c == Clean("xgrammar")
  <2>1. PICK t \in {"anchor", "upstream", "other"} :
          fs = [CleanFiles EXCEPT !["xgrammar"] = [@ EXCEPT !["accept"] = "upstream",
                   !["validate"] = "upstream", !["reset"] = "upstream", !["manager"] = t]]
    BY <1>5 DEF Fixed
  <2> DEFINE f == [c EXCEPT !["accept"] = "upstream", !["validate"] = "upstream",
                            !["reset"] = "upstream", !["manager"] = t]
  <2>2. /\ f \in FilesOf("xgrammar")
        /\ \A x \in Places("xgrammar") : f[x] \notin Mine
    <3>1. DOMAIN c = Places("xgrammar")
      BY DEF Clean
    <3>2. f["accept"] = "upstream" /\ f["validate"] = "upstream" /\ f["reset"] = "upstream"
          /\ f["manager"] = t /\ f = [x \in Places("xgrammar") |-> f[x]]
      BY <3>1, ThePlaces
    <3> HIDE DEF f
    <3>3. QED
      BY <3>2, ThePlaces DEF FilesOf, Texts, Mine
  <2>3. "xgrammar" \in Names /\ CleanFiles["xgrammar"] = c
    BY <1>1, TheNames
  <2>4. fs = [CleanFiles EXCEPT !["xgrammar"] = f]
    BY <2>1, <2>3
  <2> HIDE DEF f
  <2>5. DOMAIN fs = Names /\ \A s \in Names : fs[s] = IF s = "xgrammar" THEN f ELSE CleanFiles[s]
    BY <1>1, <2>4
  <2>6. QED
    BY <1>1, <2>2, <2>5 DEF Mine
<1>6. QED
  BY <1>3, <1>4, <1>5 DEF Unbaked

LEMMA BakedHolds ==
  ASSUME NEW v \in SpinValues, v # "bad"
  PROVE  /\ Holds(Baked(v))
         /\ \A fs \in BakedOld(v) : Holds(fs)
<1> DEFINE B == Baked(v)
<1>1. /\ DOMAIN B = Names /\ \A s \in Names : B[s] \in FilesOf(s)
      /\ \A s \in Names \ {"spinwait"} : \A x \in Places(s) : B[s][x] = "new"
      /\ \A x, y \in Places("spinwait") : x = y
  BY TheBaked, PatchTwice, CleanAndPatched, ThePlaces DEF PatchedFor
<1> HIDE DEF B
<1>2. \A s \in Names : Whole(s, B[s])
  <2>1. ASSUME NEW s \in Names \ {"spinwait"}
        PROVE  Whole(s, B[s])
    <3>1. \A x \in Places(s) : B[s][x] \in Mine
      BY <1>1 DEF Mine
    <3>2. QED
      BY <3>1 DEF Whole
  <2>2. Whole("spinwait", B["spinwait"])
    BY <1>1, Zenon DEF Whole
  <2>3. QED
    BY <2>1, <2>2
<1>3. Holds(B)
  BY <1>1, <1>2 DEF Holds, Unbroken
<1>4. ASSUME NEW spot \in Spots, spot[1] \notin {"drafter", "spinwait"}
      PROVE  Holds(With(B, spot, "old"))
  <2> DEFINE fs == With(B, spot, "old")
  <2>1. /\ DOMAIN fs = Names /\ \A s \in Names : fs[s] \in FilesOf(s)
        /\ \A s \in Names : \A x \in Places(s) :
             fs[s][x] = IF <<s, x>> = spot THEN "old" ELSE B[s][x]
    BY <1>1, WithFile DEF Texts
  <2> HIDE DEF fs
  <2>2. \A s \in Names \ {"spinwait"} : \A x \in Places(s) : fs[s][x] \in Mine
    BY <1>1, <2>1 DEF Mine
  <2>3. \A s \in Names : Whole(s, fs[s])
    BY <1>1, <2>2 DEF Whole
  <2>4. QED
    BY <2>1, <2>3 DEF Holds, Unbroken, fs
<1>5. ASSUME NEW g \in {"asis", "compact", "new"}
      PROVE  Holds([B EXCEPT !["drafter"] = [groups |-> g, layout |-> "old"]])
  <2> DEFINE f == [groups |-> g, layout |-> "old"]
             fs == [B EXCEPT !["drafter"] = f]
  <2>1. f \in FilesOf("drafter")
    BY ThePlaces DEF FilesOf, Texts
  <2> HIDE DEF f
  <2>2. DOMAIN fs = Names /\ \A s \in Names : fs[s] = IF s = "drafter" THEN f ELSE B[s]
    BY <1>1
  <2> HIDE DEF fs
  <2>3. Holds(fs)
    BY <1>1, <1>2, <2>1, <2>2 DEF Holds, Unbroken
  <2>4. QED
    BY <2>3 DEF fs, f
<1>6. QED
  BY <1>3, <1>4, <1>5 DEF BakedOld, B

-----------------------------------------------------------------------------
(* The code the engine is started on.                                       *)

LEMMA PatchServes ==
  ASSUME NEW s \in Names, NEW f, Unbroken(s, f), spin \in SpinValues
  PROVE  Serves(Patch(s, f, spin), s, MayServe(s))
<1>1. f \in FilesOf(s) /\ (s # "drafter" => Whole(s, f))
  BY DEF Unbroken
<1>2. CASE s = "video"
  BY <1>1, <1>2, VideoServes DEF Patch, MayServe
<1>3. CASE s = "stops"
  BY <1>1, <1>3, StopsServes DEF Patch, MayServe
<1>4. CASE s = "decode_floor"
  <2> DEFINE marks == {"running", "waiting"}
             done == {"import"}
  <2>1. marks \in SUBSET Places(s) /\ PatchDecodeFloor(f) = PatchOnce(f, marks, done)
    BY <1>4, ThePlaces DEF PatchDecodeFloor
  <2> HIDE DEF marks, done
  <2>2. Serves(PatchOnce(f, marks, done), s, {"new", "old", "upstream"})
    BY <1>1, <1>4, <2>1, OnceServes
  <2>3. QED
    BY <1>4, <2>1, <2>2 DEF Patch, MayServe
<1>5. CASE s = "drafter"
  BY <1>1, <1>5, DrafterServes DEF Patch, MayServe
<1>6. CASE s = "hybrid"
  <2> DEFINE marks == {"eagle", "min", "log"}
  <2>1. marks \in SUBSET Places(s) /\ PatchHybrid(f) = PatchOnce(f, marks, {})
    BY <1>6, ThePlaces DEF PatchHybrid
  <2> HIDE DEF marks
  <2>2. Serves(PatchOnce(f, marks, {}), s, {"new", "old"})
    BY <1>1, <1>6, <2>1, OnceServes
  <2>3. QED
    BY <1>6, <2>1, <2>2 DEF Patch, MayServe
<1>7. CASE s = "xgrammar"
  BY <1>1, <1>7, XgrammarServes DEF Patch, MayServe
<1>8. CASE s \in {"kpool", "indexer"}
  BY <1>1, <1>8, CheckedServes DEF Patch, MayServe
<1>9. CASE s = "spinwait"
  BY <1>1, <1>9, SpinwaitServes DEF Patch, MayServe
<1>10. QED
  BY <1>2, <1>3, <1>4, <1>5, <1>6, <1>7, <1>8, <1>9, TheNames

Servable(s, f) == \A x \in Places(s) : f[x] \in MayServe(s)

\* Of the scripts, those that have run left what may be served, and the others have an
\* unbroken file to work on.
ServedInv ==
  /\ stage \in {"entry", "refused", "exec", "loaded"} /\ script \in 1 .. 10
  /\ spin \in SpinValues
  /\ DOMAIN files = Names /\ \A s \in Names : files[s] \in FilesOf(s)
  /\ stage = "exec" => script = 10
  /\ stage \in {"entry", "exec"} =>
       \A i \in 1 .. 9 : LET s == Scripts[i] IN
         IF i < script THEN Servable(s, files[s]) ELSE Unbroken(s, files[s])

LEMMA ServedInit == Init => ServedInv
<1> SUFFICES ASSUME Init
             PROVE  ServedInv
  OBVIOUS
<1>1. stage = "entry" /\ script = 1 /\ spin \in SpinValues
  BY DEF Init, EntryInit
<1>2. Holds(files)
  <2>1. CASE files \in Unbaked
    BY <2>1, UnbakedHolds
  <2>2. CASE bakedSpin \in SpinValues /\ bakedSpin # "bad"
             /\ (files = Baked(bakedSpin) \/ files \in BakedOld(bakedSpin))
    BY <2>2, BakedHolds
  <2>3. QED
    BY <1>1, <2>1, <2>2 DEF Init, EntryInit
<1>3. \A i \in 1 .. 9 : ~ (i < 1)
  OBVIOUS
<1>4. QED
  BY <1>1, <1>2, <1>3, TheScripts DEF ServedInv, Holds, Unbroken

LEMMA ServedNext == ServedInv /\ [Next]_vars => ServedInv'
<1> SUFFICES ASSUME ServedInv, [Next]_vars
             PROVE  ServedInv'
  OBVIOUS
<1>1. CASE RunScript
  <2> DEFINE s == Scripts[script]
             p == Patch(s, files[s], spin)
  <2>1. /\ stage = "entry" /\ script \in 1 .. 9
        /\ files' = [files EXCEPT ![s] = p.file]
        /\ IF ~ p.ok THEN stage' = "refused" /\ UNCHANGED script
                     ELSE script' = script + 1 /\ UNCHANGED stage
        /\ UNCHANGED <<baked, spin, bakedSpin>>
    BY <1>1, TheNames DEF RunScript, Refuses, ServedInv
  <2>2. s \in Names /\ Unbroken(s, files[s])
    BY <2>1, TheScripts DEF ServedInv
  <2>3. Serves(p, s, MayServe(s))
    BY <2>2, PatchServes DEF ServedInv
  <2> HIDE DEF p
  <2>4. /\ DOMAIN files' = Names /\ \A t \in Names : files'[t] = IF t = s THEN p.file ELSE files[t]
    BY <2>1, <2>2 DEF ServedInv
  <2>5. \A t \in Names : files'[t] \in FilesOf(t)
    BY <2>3, <2>4 DEF ServedInv, Serves
  <2>6. \A t \in Names : MayServe(t)' = MayServe(t)
    BY <2>1 DEF MayServe
  <2>7. CASE ~ p.ok
    BY <2>1, <2>4, <2>5, <2>7 DEF ServedInv
  <2>8. CASE p.ok
    <3>1. stage' = "entry" /\ script' = script + 1 /\ script' \in 1 .. 10
      BY <2>1, <2>8
    <3>2. ASSUME NEW i \in 1 .. 9
          PROVE  LET t == Scripts[i] IN
                 IF i < script' THEN Servable(t, files[t])' ELSE Unbroken(t, files[t])'
      <4> DEFINE t == Scripts[i]
      <4>1. t \in Names /\ (i = script <=> t = s)
        BY <2>1, TheScripts
      <4>2. CASE i = script
        <5>1. files'[t] = p.file /\ MayServe(t)' = MayServe(t) /\ t = s
          BY <2>4, <2>6, <4>1, <4>2
        <5>2. \A x \in Places(t) : files'[t][x] \in MayServe(t)
          BY <2>3, <2>8, <5>1 DEF Serves
        <5>3. i < script'
          BY <2>1, <3>1, <4>2
        <5>4. QED
          BY <5>1, <5>2, <5>3 DEF Servable
      <4>3. CASE i # script
        <5>1. files'[t] = files[t] /\ MayServe(t)' = MayServe(t) /\ (i < script' <=> i < script)
          BY <2>1, <2>4, <2>6, <3>1, <4>1, <4>3
        <5>2. IF i < script THEN Servable(t, files[t]) ELSE Unbroken(t, files[t])
          BY <2>1 DEF ServedInv
        <5>3. QED
          BY <5>1, <5>2 DEF Servable
      <4>4. QED
        BY <4>2, <4>3
    <3>3. QED
      BY <2>1, <2>4, <2>5, <3>1, <3>2 DEF ServedInv
  <2>9. QED
    BY <2>7, <2>8
<1>2. CASE ExecEngine
  <2>1. /\ stage = "entry" /\ script = 10 /\ stage' = "exec"
        /\ UNCHANGED <<files, script, baked, spin, bakedSpin, touched>>
    BY <1>2, TheNames DEF ExecEngine, ServedInv
  <2>2. \A t : MayServe(t)' = MayServe(t)
    BY <2>1 DEF MayServe
  <2>3. QED
    BY <2>1, <2>2 DEF ServedInv, Servable
<1>3. CASE LoadEngine
  <2>1. /\ stage' = "loaded" /\ files' = CleanFiles /\ script' = 1 /\ spin' = "stock"
    BY <1>3 DEF LoadEngine
  <2>2. /\ DOMAIN CleanFiles = Names /\ \A s \in Names : CleanFiles[s] \in FilesOf(s)
    BY CleanAndPatched DEF CleanFiles
  <2>3. QED
    BY <2>1, <2>2 DEF ServedInv, SpinValues
<1>4. CASE Engine \/ Serve \/ UNCHANGED vars
  <2>1. UNCHANGED entryVars
    BY <1>4 DEF Engine, Serve, vars
  <2>2. QED
    BY <2>1 DEF entryVars, ServedInv, Servable, MayServe
<1>5. QED
  BY <1>1, <1>2, <1>3, <1>4 DEF Next, Entry

\* Whatever the image holds (upstream's files, drifted ones, those of an older build),
\* the engine is started only when every script has left its file as it may be served
\* ("fail closed", in every script).
THEOREM StartsOnPatchedCode == Spec => []ServedCodeIsPatched
<1>1. ServedInv => ServedCodeIsPatched
  <2> SUFFICES ASSUME ServedInv, stage = "exec", NEW s \in Names
               PROVE  \A x \in Places(s) : files[s][x] \in MayServe(s)
    BY DEF ServedCodeIsPatched
  <2>1. PICK i \in 1 .. 9 : s = Scripts[i]
    BY TheNames
  <2>2. script = 10 /\ i < script
    BY DEF ServedInv
  <2>3. QED
    BY <2>1, <2>2 DEF ServedInv, Servable
<1>2. QED
  BY <1>1, ServedInit, ServedNext, PTL DEF Spec
-----------------------------------------------------------------------------
(* The split of a prefill step into chunks.                                 *)

LEMMA DivMonotone ==
  ASSUME NEW a \in Nat, NEW b \in Nat, NEW q \in Nat \ {0}, a <= b
  PROVE  a \div q \in Nat /\ b \div q \in Nat /\ a \div q <= b \div q
<1> DEFINE x == a \div q
           y == b \div q
<1>1. x \in Nat /\ y \in Nat /\ q * x <= a /\ a < q * x + q /\ q * y <= b /\ b < q * y + q
  OBVIOUS
<1> HIDE DEF x, y
<1>2. x <= y
  <2> SUFFICES ASSUME y + 1 <= x
               PROVE  FALSE
    BY <1>1
  <2>1. PICK d \in Nat : x = y + 1 + d
    <3>1. x - y - 1 \in Nat /\ x = y + 1 + (x - y - 1)
      BY <1>1
    <3>2. QED
      BY <3>1
  <2>2. q * x = q * y + q + q * d /\ q * d >= 0 /\ q * y \in Nat /\ q * x \in Nat
    BY <1>1, <2>1
  <2>3. QED
    BY <1>1, <2>2
<1>3. QED
  BY <1>1, <1>2 DEF x, y

LEMMA TimesMonotone ==
  ASSUME NEW a \in Nat, NEW b \in Nat, NEW q \in Nat, a <= b
  PROVE  a * q \in Nat /\ b * q \in Nat /\ a * q <= b * q
<1>1. b - a \in Nat /\ b * q = a * q + (b - a) * q /\ (b - a) * q \in Nat
  OBVIOUS
<1>2. QED
  BY <1>1

Limits == [maxLen : Nat, seqs : Nat, budget : Nat, spec : Nat, ratio : Nat \ {0}]
Requests == [query : Nat \ {0}, length : Nat]
Chunk == [requests : Nat, rows : Nat, entries : Nat]

\* One request is packed.
PackOne(p, r, c, workspace, logits) ==
  IF p # <<>> /\ Joins(Last(p), r, c, workspace, logits)
    THEN Append(Front(p), Add(Last(p), r, c))
    ELSE Append(p, Add(Nothing, r, c))

\* The requests of the chunks so far have at most n entries together.
Packing(p, n) == p \in Seq(Chunk) /\ (p # <<>> => Last(p).entries <= n)

LEMMA EntriesAreNatural ==
  ASSUME NEW r \in Requests, NEW c, c.ratio \in Nat \ {0}
  PROVE  Entries(r, c) \in Nat /\ r.query \in Nat
<1>1. r.length \in Nat /\ r.query \in Nat
  BY DEF Requests
<1>2. r.length \div c.ratio \in Nat
  BY <1>1
<1>3. QED
  BY <1>1, <1>2 DEF Entries

LEMMA PackOneKeeps ==
  ASSUME NEW n \in Nat, NEW p, Packing(p, n), NEW r \in Requests, NEW c, c.ratio \in Nat \ {0},
         NEW workspace, NEW logits, NEW m \in Nat, n + Entries(r, c) <= m
  PROVE  Packing(PackOne(p, r, c, workspace, logits), m)
<1> DEFINE e == Entries(r, c)
<1>1. e \in Nat /\ r.query \in Nat
  BY EntriesAreNatural
<1>2. \A k \in Chunk : /\ Add(k, r, c) \in Chunk /\ Add(k, r, c).entries = k.entries + e
                       /\ k.entries \in Nat
  BY <1>1 DEF Chunk, Add
<1>3. Nothing \in Chunk /\ Nothing.entries = 0
  BY DEF Chunk, Nothing
<1> HIDE DEF e
<1>4. \A s \in Seq(Chunk) : \A k \in Chunk : /\ Append(s, k) \in Seq(Chunk) /\ Append(s, k) # <<>>
                                             /\ Last(Append(s, k)) = k
  BY DEF Last
<1>5. CASE p # <<>> /\ Joins(Last(p), r, c, workspace, logits)
  <2>1. Last(p) \in Chunk /\ Front(p) \in Seq(Chunk) /\ Last(p).entries <= n
    BY <1>5 DEF Packing, Last, Front
  <2>2. PackOne(p, r, c, workspace, logits) = Append(Front(p), Add(Last(p), r, c))
    BY <1>5 DEF PackOne
  <2>3. Add(Last(p), r, c) \in Chunk /\ Add(Last(p), r, c).entries <= m
    BY <1>1, <1>2, <2>1 DEF e
  <2>4. QED
    BY <1>4, <2>1, <2>2, <2>3 DEF Packing
<1>6. CASE ~ (p # <<>> /\ Joins(Last(p), r, c, workspace, logits))
  <2>1. PackOne(p, r, c, workspace, logits) = Append(p, Add(Nothing, r, c))
    BY <1>6 DEF PackOne
  <2>2. Add(Nothing, r, c) \in Chunk /\ Add(Nothing, r, c).entries <= m
    BY <1>1, <1>2, <1>3 DEF e
  <2>3. QED
    BY <1>4, <2>1, <2>2 DEF Packing
<1>7. QED
  BY <1>5, <1>6

\* The packing, request by request.
LEMMA PackedIs ==
  ASSUME NEW rows \in Seq(Requests), NEW c, c.ratio \in Nat \ {0}, NEW workspace, NEW logits
  PROVE  \E packed \in [0 .. Len(rows) -> Seq(Chunk)] :
           /\ Packed(rows, c, workspace, logits) = packed[Len(rows)]
           /\ packed[0] = <<>>
           /\ \A k \in 1 .. Len(rows) :
                packed[k] = PackOne(packed[k - 1], rows[k], c, workspace, logits)
<1> DEFINE N == Len(rows)
           X == Seq(Chunk)
           next == [k \in 1 .. N |-> [p \in X |-> PackOne(p, rows[k], c, workspace, logits)]]
           Body(h) == [n \in 0 .. Len(rows) |->
             IF n = 0 THEN <<>>
             ELSE IF h[n - 1] # <<>> /\ Joins(Last(h[n - 1]), rows[n], c, workspace, logits)
               THEN Append(Front(h[n - 1]), Add(Last(h[n - 1]), rows[n], c))
               ELSE Append(h[n - 1], Add(Nothing, rows[n], c))]
           packed == CHOOSE h : h = Body(h)
<1>1. N \in Nat
  OBVIOUS
<1>2. \A k \in 1 .. N : \A p \in X :
        next[k][p] = PackOne(p, rows[k], c, workspace, logits) /\ next[k][p] \in X
  <2>1. ASSUME NEW k \in 1 .. N, NEW p \in X
        PROVE  PackOne(p, rows[k], c, workspace, logits) \in X
    <3> DEFINE r == rows[k]
    <3>1. r \in Requests /\ Entries(r, c) \in Nat
      <4>1. r \in Requests
        OBVIOUS
      <4> HIDE DEF r
      <4>2. QED
        BY <4>1, EntriesAreNatural
    <3>2. PICK n \in Nat : Packing(p, n)
      <4>1. CASE p = <<>>
        BY <4>1 DEF Packing
      <4>2. CASE p # <<>>
        <5>1. Last(p) \in Chunk
          BY <4>2 DEF Last
        <5>2. Last(p).entries \in Nat
          BY <5>1 DEF Chunk
        <5>3. QED
          BY <5>2 DEF Packing
      <4>3. QED
        BY <4>1, <4>2
    <3>3. n + Entries(rows[k], c) \in Nat
      BY <3>1
    <3>4. Packing(PackOne(p, rows[k], c, workspace, logits), n + Entries(rows[k], c))
      BY <3>1, <3>2, <3>3, PackOneKeeps
    <3>5. QED
      BY <3>4 DEF Packing
  <2>2. QED
    BY <2>1
<1> HIDE DEF next
<1>3. PICK f \in [0 .. N -> X] : f[0] = <<>> /\ \A k \in 1 .. N : f[k] = next[k][f[k - 1]]
  <2>1. \A k \in 1 .. N : \A p \in X : next[k][p] \in X
    BY <1>2
  <2>2. Iterable(N, X, <<>>, next)
    BY <1>1, <2>1 DEF Iterable
  <2> HIDE DEF N, X
  <2>3. QED
    BY <2>2, Iteration
<1>4. \A k \in 1 .. N : k \in 0 .. N /\ k - 1 \in 0 .. N /\ k # 0
  BY <1>1
<1>5. \A k \in 1 .. N : f[k] = PackOne(f[k - 1], rows[k], c, workspace, logits)
  BY <1>2, <1>3, <1>4
<1>6. f = Body(f)
  <2>1. \A k \in 0 .. N : k = 0 \/ k \in 1 .. N
    BY <1>1
  <2>2. \A k \in 0 .. N : f[k] = Body(f)[k]
    BY <1>3, <1>5, <2>1, Zenon DEF PackOne
  <2>3. QED
    BY <1>3, <2>2
<1>7. packed = Body(packed)
  <2> HIDE DEF Body
  <2>1. QED
    BY <1>6
<1>8. Packed(rows, c, workspace, logits) = packed[Len(rows)]
  BY Zenon DEF Packed
<1> HIDE DEF packed
<1>9. /\ packed[0] = <<>>
      /\ \A k \in 1 .. N : packed[k] = PackOne(packed[k - 1], rows[k], c, workspace, logits)
  <2>1. \A k \in 0 .. N : packed[k] = Body(packed)[k]
    BY <1>7, Zenon
  <2>2. 0 \in 0 .. N
    BY <1>1
  <2>3. \A k \in 1 .. N : packed[k] = PackOne(packed[k - 1], rows[k], c, workspace, logits)
    BY <1>4, <2>1, Zenon DEF PackOne
  <2>4. QED
    BY <2>1, <2>2, <2>3
<1>10. packed \in [0 .. N -> X]
  <2> DEFINE S == {k \in 0 .. N : packed[k] \in X}
  <2>1. 0 \in S
    <3>1. <<>> \in X /\ 0 \in 0 .. N
      BY <1>1
    <3>2. QED
      BY <1>9, <3>1
  <2>2. ASSUME NEW k \in 1 .. N, k - 1 \in S
        PROVE  k \in S
    <3>1. packed[k - 1] \in X
      BY <2>2
    <3>2. packed[k] = next[k][packed[k - 1]]
      BY <1>2, <1>9, <3>1
    <3> HIDE DEF X
    <3>3. QED
      BY <1>2, <1>4, <3>1, <3>2
  <2> HIDE DEF S
  <2>3. \A k \in 0 .. N : k \in S
    BY <1>1, <2>1, <2>2, UpToInduction
  <2>4. DOMAIN packed = 0 .. N /\ packed = [k \in 0 .. N |-> packed[k]]
    BY <1>7, Zenon
  <2>5. QED
    BY <2>3, <2>4 DEF S
<1>11. QED
  BY <1>8, <1>9, <1>10


\* A workspace holds all entries of a step, whichever of its requests are longest.
HoldsAll(rows, c, workspace, most) ==
  /\ most \in Nat /\ \A k \in 1 .. Len(rows) : Entries(rows[k], c) <= most
  /\ workspace \in Nat /\ Len(rows) * most <= workspace

\* Two workspaces that both hold all entries of a step split it alike.
LEMMA PackedAlike ==
  ASSUME NEW rows \in Seq(Requests), NEW c, c.ratio \in Nat \ {0}, NEW logits, NEW most,
         NEW one, HoldsAll(rows, c, one, most), NEW other, HoldsAll(rows, c, other, most)
  PROVE  Packed(rows, c, one, logits) = Packed(rows, c, other, logits)
<1> USE DEF HoldsAll
<1> DEFINE N == Len(rows)
<1>1. N \in Nat
  OBVIOUS
<1>2. \A workspace : \E f \in [0 .. Len(rows) -> Seq(Chunk)] :
        /\ Packed(rows, c, workspace, logits) = f[Len(rows)]
        /\ f[0] = <<>>
        /\ \A k \in 1 .. Len(rows) : f[k] = PackOne(f[k - 1], rows[k], c, workspace, logits)
  BY PackedIs
<1>3. PICK f \in [0 .. N -> Seq(Chunk)] :
        /\ Packed(rows, c, one, logits) = f[N] /\ f[0] = <<>>
        /\ \A k \in 1 .. N : f[k] = PackOne(f[k - 1], rows[k], c, one, logits)
  BY <1>2
<1>4. PICK g \in [0 .. N -> Seq(Chunk)] :
        /\ Packed(rows, c, other, logits) = g[N] /\ g[0] = <<>>
        /\ \A k \in 1 .. N : g[k] = PackOne(g[k - 1], rows[k], c, other, logits)
  BY <1>2
<1> DEFINE S == {k \in 0 .. N : f[k] = g[k] /\ Packing(f[k], k * most)}
<1>5. 0 \in S
  BY <1>1, <1>3, <1>4 DEF Packing
<1>6. ASSUME NEW k \in 1 .. N, k - 1 \in S
      PROVE  k \in S
  <2> DEFINE p == f[k - 1]
             r == rows[k]
  <2>1. p = g[k - 1] /\ Packing(p, (k - 1) * most) /\ r \in Requests /\ Entries(r, c) <= most
    BY <1>6
  <2>2. Entries(r, c) \in Nat
    <3> HIDE DEF r
    <3>1. QED
      BY <2>1, EntriesAreNatural
  <2>3. /\ (k - 1) * most \in Nat /\ k * most \in Nat /\ (k - 1) * most + most = k * most
        /\ k * most <= one /\ k * most <= other
    <3>1. k * most <= N * most /\ N * most \in Nat /\ k * most \in Nat
      <4>1. k \in Nat /\ k <= N
        BY <1>1
      <4> HIDE DEF N
      <4>2. QED
        BY <1>1, <4>1, TimesMonotone
    <3>2. (k - 1) * most \in Nat /\ (k - 1) * most + most = k * most
      OBVIOUS
    <3> DEFINE a == N * most
    <3>3. a <= one /\ a <= other
      OBVIOUS
    <3>4. QED
      BY <3>1, <3>2, <3>3
  <2> DEFINE before == (k - 1) * most
             now == k * most
  <2> HIDE DEF before, now, p, r
  <2>4. before + Entries(r, c) <= now
    BY <2>1, <2>2, <2>3 DEF before, now
  <2>5. Packing(PackOne(p, r, c, one, logits), now)
    BY <2>1, <2>3, <2>4, PackOneKeeps DEF before, now
  <2>6. PackOne(p, r, c, one, logits) = PackOne(p, r, c, other, logits)
    <3>1. ASSUME p # <<>>
          PROVE  Joins(Last(p), r, c, one, logits) = Joins(Last(p), r, c, other, logits)
      <4> DEFINE e == Last(p).entries
                 a == Entries(r, c)
      <4>1. e <= before /\ e \in Nat /\ a \in Nat
        <5>1. Last(p) \in Chunk
          BY <2>1, <3>1 DEF Packing, Last
        <5>2. QED
          BY <2>1, <2>2, <3>1, <5>1 DEF Packing, Chunk, before
      <4> HIDE DEF e, a
      <4>2. e + a <= one /\ e + a <= other
        BY <2>3, <2>4, <4>1 DEF before, now, a
      <4>3. QED
        BY <4>2 DEF Joins, e, a
    <3>2. QED
      BY <3>1 DEF PackOne
  <2>7. k \in 0 .. N /\ f[k] = PackOne(p, r, c, one, logits) /\ g[k] = PackOne(p, r, c, other, logits)
    BY <1>1, <1>3, <1>4, <2>1 DEF p, r
  <2>8. QED
    BY <2>5, <2>6, <2>7 DEF now
<1> HIDE DEF S
<1>7. N \in S
  <2>1. \A k \in 0 .. N : k \in S
    BY <1>1, <1>5, <1>6, UpToInduction
  <2>2. QED
    BY <1>1, <2>1
<1>8. QED
  BY <1>3, <1>4, <1>7 DEF S


\* Every request of a step asks for at least one token.
LEMMA QueriesAtLeast ==
  ASSUME NEW rows \in Seq(Requests)
  PROVE  Queries(rows) \in Nat /\ Len(rows) <= Queries(rows)
<1> DEFINE N == Len(rows)
           next == [k \in 1 .. N |-> [x \in Nat |-> x + rows[k].query]]
           Body(h) == [n \in 0 .. Len(rows) |-> IF n = 0 THEN 0 ELSE h[n - 1] + rows[n].query]
           sum == CHOOSE h : h = Body(h)
           S == {k \in 0 .. N : sum[k] \in Nat /\ k <= sum[k]}
<1>1. N \in Nat /\ \A k \in 1 .. N : rows[k].query \in Nat /\ rows[k].query >= 1
  <2>1. \A k \in 1 .. N : rows[k] \in Requests
    OBVIOUS
  <2>2. \A r \in Requests : r.query \in Nat /\ r.query >= 1
    BY DEF Requests
  <2>3. QED
    BY <2>1, <2>2
<1>2. PICK f \in [0 .. N -> Nat] : f[0] = 0 /\ \A k \in 1 .. N : f[k] = next[k][f[k - 1]]
  <2>1. \A k \in 1 .. N : \A x \in Nat : next[k][x] \in Nat
    BY <1>1
  <2> HIDE DEF next
  <2>2. Iterable(N, Nat, 0, next)
    BY <1>1, <2>1 DEF Iterable
  <2> HIDE DEF N
  <2>3. QED
    BY <2>2, Iteration
<1>3. \A k \in 1 .. N : k \in 0 .. N /\ k - 1 \in 0 .. N /\ k # 0
  BY <1>1
<1>4. f = Body(f)
  <2>1. \A k \in 1 .. N : f[k] = f[k - 1] + rows[k].query
    BY <1>2, <1>3
  <2>2. \A k \in 0 .. N : k = 0 \/ k \in 1 .. N
    BY <1>1
  <2>3. QED
    BY <1>2, <2>1, <2>2
<1>5. sum = Body(sum)
  <2> HIDE DEF Body
  <2>1. QED
    BY <1>4
<1>6. Queries(rows) = sum[Len(rows)]
  BY Zenon DEF Queries
<1> HIDE DEF sum
<1>7. sum[0] = 0 /\ \A k \in 1 .. N : sum[k] = sum[k - 1] + rows[k].query
  <2>1. \A k \in 0 .. N : sum[k] = IF k = 0 THEN 0 ELSE sum[k - 1] + rows[k].query
    BY <1>5, Zenon
  <2>2. 0 \in 0 .. N
    BY <1>1
  <2>3. QED
    BY <1>3, <2>1, <2>2
<1>8. 0 \in S
  BY <1>1, <1>7
<1>9. ASSUME NEW k \in 1 .. N, k - 1 \in S
      PROVE  k \in S
  <2>1. sum[k] = sum[k - 1] + rows[k].query /\ rows[k].query \in Nat /\ rows[k].query >= 1
    BY <1>1, <1>7
  <2>2. QED
    BY <1>3, <1>9, <2>1
<1> HIDE DEF S
<1>10. N \in S
  <2>1. \A k \in 0 .. N : k \in S
    BY <1>1, <1>8, <1>9, UpToInduction
  <2>2. QED
    BY <1>1, <2>1
<1>11. QED
  BY <1>6, <1>10 DEF S

LEMMA ConfigsAre ==
  ASSUME NEW c \in Configs
  PROVE  /\ c.maxLen \in Nat /\ c.seqs \in Nat /\ c.budget \in Nat /\ c.spec \in Nat
         /\ c.kpool \in Nat /\ c.ratio \in Nat /\ c.ratio > 0
  BY EngineBootAssumption DEF EngineBootAssumption

\* A batch is no longer than the limits allow, and no request asks for more entries than
\* the longest one may.
LEMMA BatchFits ==
  ASSUME NEW c \in Configs, NEW rows \in Batches(c)
  PROVE  /\ rows \in Seq(Requests) /\ Len(rows) <= c.seqs /\ Len(rows) <= c.budget
         /\ CeilDiv(c.maxLen + c.spec, c.ratio) \in Nat
         /\ \A k \in 1 .. Len(rows) :
              Entries(rows[k], c) <= CeilDiv(c.maxLen + c.spec, c.ratio)
<1> USE ConfigsAre
<1>1. PICK n \in 1 .. Smaller(c.seqs, MaxBatch) : rows \in [1 .. n -> Rows(c)]
  BY DEF Batches
<1>2. n \in Nat /\ n <= c.seqs
  BY EngineBootAssumption DEF Smaller, EngineBootAssumption
<1>3. \A r \in Rows(c) : /\ r \in Requests /\ r.length \in Nat /\ r.length <= c.maxLen + c.spec
  BY DEF Rows, Requests
<1>4. rows \in Seq(Requests) /\ Len(rows) = n
  BY <1>1, <1>2, <1>3
<1>5. Queries(rows) <= c.budget
  BY DEF Batches
<1>6. Len(rows) <= c.budget
  BY <1>2, <1>4, <1>5, QueriesAtLeast
<1> DEFINE most == CeilDiv(c.maxLen + c.spec, c.ratio)
           top == c.maxLen + c.spec + c.ratio - 1
           q == c.ratio
<1>7. top \in Nat /\ q \in Nat \ {0} /\ most = top \div q
  BY DEF CeilDiv
<1>8. ASSUME NEW k \in 1 .. Len(rows)
      PROVE  Entries(rows[k], c) <= most
  <2> DEFINE l == rows[k].length
  <2>1. l \in Nat /\ l <= top /\ Entries(rows[k], c) = l \div q
    BY <1>1, <1>3, <1>4 DEF Entries
  <2> HIDE DEF l, top, q
  <2>2. QED
    BY <1>7, <2>1, DivMonotone
<1>9. most \in Nat
  <2> HIDE DEF top, q
  <2>1. QED
    BY <1>7, DivMonotone
<1>10. QED
  BY <1>2, <1>4, <1>6, <1>8, <1>9

LEMMA WorkspaceSuffices ==
  ASSUME NEW c \in Configs, CrossCheck(c), NEW rows \in Batches(c), NEW logits
  PROVE  Packed(rows, c, Workspace(c), logits) = Packed(rows, c, Stock(c), logits)
<1> USE ConfigsAre
<1> DEFINE most == CeilDiv(c.maxLen + c.spec, c.ratio)
           requests == Max({1, Smaller(c.seqs, c.budget)})
<1>1. CASE Workspace(c) = Stock(c)
  BY <1>1
<1>2. CASE Workspace(c) # Stock(c)
  <2>1. CompressRatio(c) = c.ratio /\ Workspace(c) = LegalMax(c)
    BY <1>2 DEF Workspace, CrossCheck
  <2>2. LegalMax(c) = Smaller(most * requests, Stock(c))
    BY <1>2, <2>1 DEF LegalMax
  <2>3. /\ rows \in Seq(Requests) /\ Len(rows) <= c.seqs /\ Len(rows) <= c.budget
        /\ most \in Nat /\ Len(rows) \in Nat
        /\ \A k \in 1 .. Len(rows) : Entries(rows[k], c) <= most
    BY BatchFits
  <2>4. Stock(c) \in Nat
    BY DEF Stock
  <2>5. requests \in Nat /\ Len(rows) <= requests
    <3>1. Smaller(c.seqs, c.budget) \in Nat /\ Len(rows) <= Smaller(c.seqs, c.budget)
      BY <2>3 DEF Smaller
    <3> DEFINE s == Smaller(c.seqs, c.budget)
    <3> HIDE DEF s
    <3>2. Max({1, s}) = IF 1 >= s THEN 1 ELSE s
      BY <3>1, MaxOfTwo DEF s
    <3>3. Max({1, s}) \in Nat /\ s <= Max({1, s})
      BY <3>1, <3>2 DEF s
    <3>4. QED
      BY <2>3, <3>1, <3>3 DEF s
  <2> HIDE DEF most, requests
  <2>6. Len(rows) * most \in Nat /\ Len(rows) * most <= requests * most /\ requests * most \in Nat
    BY <2>3, <2>5, TimesMonotone
  <2>7. most * requests = requests * most
    BY <2>3, <2>5
  <2>8. Len(rows) * most <= Workspace(c) /\ Len(rows) * most <= Stock(c) /\ Workspace(c) \in Nat
    <3> DEFINE a == Len(rows) * most
               b == most * requests
               s == Stock(c)
    <3>1. Smaller(b, s) # s /\ Workspace(c) = Smaller(b, s)
      BY <1>2, <2>1, <2>2
    <3>2. a \in Nat /\ a <= b /\ b \in Nat /\ s \in Nat
      BY <2>4, <2>6, <2>7
    <3> HIDE DEF a, b, s
    <3>3. a <= Smaller(b, s) /\ a <= s /\ Smaller(b, s) \in Nat
      BY <3>1, <3>2 DEF Smaller
    <3>4. QED
      BY <3>1, <3>3 DEF a, s
  <2>9. c.ratio \in Nat \ {0}
    OBVIOUS
  <2>10. HoldsAll(rows, c, Workspace(c), most) /\ HoldsAll(rows, c, Stock(c), most)
    BY <2>3, <2>4, <2>8 DEF HoldsAll
  <2>11. QED
    BY <2>3, <2>9, <2>10, PackedAlike
<1>3. QED
  BY <1>1, <1>2

BootInv ==
  /\ boot \in {"no", "laid", "sized", "refused", "up"}
  /\ boot = "laid" => geometry \in Geometries /\ LayoutAccepts(geometry)
  /\ boot \in {"sized", "up"} => config \in Configs
  /\ boot = "up" => CrossCheck(config)
  /\ batch # NoBatch => boot = "up" /\ batch \in Batches(config)

LEMMA BootInvInit == Init => BootInv
  BY DEF Init, BootInit, BootInv

LEMMA BootInvNext == BootInv /\ [Next]_vars => BootInv'
<1> SUFFICES ASSUME BootInv, [Next]_vars
             PROVE  BootInv'
  OBVIOUS
<1> USE DEF BootInv
<1>1. CASE UNCHANGED bootVars
  <2>1. /\ boot' = boot /\ geometry' = geometry /\ config' = config /\ batch' = batch
    BY <1>1 DEF bootVars
  <2>2. QED
    BY <2>1
<1>2. CASE LayOut
  BY <1>2, Zenon DEF LayOut
<1>3. CASE SizeWorkspace
  BY <1>3 DEF SizeWorkspace
<1>4. CASE BuildMetadata
  <2>1. /\ boot = "sized" /\ boot' = IF CrossCheck(config) THEN "up" ELSE "refused"
        /\ geometry' = geometry /\ config' = config /\ batch' = batch
    BY <1>4 DEF BuildMetadata
  <2>2. QED
    BY <2>1
<1>5. CASE PrefillStep
  <2>1. /\ boot = "up" /\ batch' \in Batches(config) /\ boot' = boot /\ geometry' = geometry
        /\ config' = config
    BY <1>5 DEF PrefillStep
  <2>2. QED
    BY <2>1
<1>6. CASE StepEnds
  BY <1>6 DEF StepEnds
<1>7. QED
  <2>1. UNCHANGED bootVars \/ BootStep
    BY DEF Next, Entry, LoadEngine, Engine, Serve, vars
  <2>2. QED
    BY <1>1, <1>2, <1>3, <1>4, <1>5, <1>6, <2>1 DEF BootStep

\* For every configuration the engine boots with, every batch the scheduler can form and
\* every limit on the logits, the sized workspace splits the batch as the stock one does
\* (patch_indexer_workspace.py:47-50).
THEOREM ChunksAreStock == Spec => []ChunksAsStock
<1>1. BootInv => ChunksAsStock
  <2> SUFFICES ASSUME BootInv, batch # NoBatch, NEW logits \in LogitsSizes
               PROVE  Chunks(batch, config, Workspace(config), logits)
                        = Chunks(batch, config, Stock(config), logits)
    BY DEF ChunksAsStock
  <2>1. Packed(batch, config, Workspace(config), logits) = Packed(batch, config, Stock(config), logits)
    BY WorkspaceSuffices DEF BootInv
  <2>2. QED
    BY <2>1, Zenon DEF Chunks
<1>2. QED
  BY <1>1, BootInvInit, BootInvNext, PTL DEF Spec

-----------------------------------------------------------------------------
(* The sizes of a set of tensors.                                           *)

SizeSum(S) == MapThenSumSet(LAMBDA t : t.size, S)
Pick(s) == CHOOSE x \in s : TRUE
Sized(S) == IsFiniteSet(S) /\ \A t \in S : t.size \in Nat

\* The sum over s, from the sums over smaller sets.
SumFrom(f, s) == IF s = {} THEN 0 ELSE Pick(s).size + f[s \ {Pick(s)}]
SumsUpTo(f, S, k) == \A s \in SUBSET S : Cardinality(s) <= k => f[s] = SumFrom(f, s)

LEMMA SizeSumIs ==
  ASSUME NEW S
  PROVE  SizeSum(S) = (CHOOSE iter : iter = [s \in SUBSET S |-> SumFrom(iter, s)])[S]
<1>1. SizeSum(S) =
        (CHOOSE iter : iter = [s \in SUBSET S |->
           IF s = {} THEN 0
           ELSE (CHOOSE x \in s : TRUE).size + iter[s \ {CHOOSE x \in s : TRUE}]])[S]
  BY Zenon DEF SizeSum, MapThenSumSet, MapThenFoldSet
<1>2. QED
  BY <1>1, Zenon DEF SumFrom, Pick

LEMMA Picked ==
  ASSUME NEW S, Sized(S), NEW s \in SUBSET S
  PROVE  /\ IsFiniteSet(s) /\ Cardinality(s) \in Nat /\ Sized(s)
         /\ s # {} => /\ Pick(s) \in s /\ Pick(s).size \in Nat
                      /\ s \ {Pick(s)} \in SUBSET S
                      /\ Cardinality(s \ {Pick(s)}) = Cardinality(s) - 1
         /\ Cardinality(s) = 0 => s = {}
         /\ s = {} => Cardinality(s) = 0
<1>1. IsFiniteSet(s) /\ Cardinality(s) \in Nat
  BY FS_Subset, FS_CardinalityType DEF Sized
<1>2. (Cardinality(s) = 0 => s = {}) /\ (s = {} => Cardinality(s) = 0)
  BY <1>1, FS_EmptySet
<1>3. ASSUME s # {}
      PROVE  /\ Pick(s) \in s /\ Pick(s).size \in Nat /\ s \ {Pick(s)} \in SUBSET S
             /\ Cardinality(s \ {Pick(s)}) = Cardinality(s) - 1
  <2>1. Pick(s) \in s
    BY <1>3 DEF Pick
  <2>2. QED
    BY <1>1, <2>1, FS_RemoveElement DEF Sized
<1>4. QED
  BY <1>1, <1>2, <1>3 DEF Sized

\* The sums of all subsets exist.
LEMMA SumsExist ==
  ASSUME NEW S, Sized(S)
  PROVE  \E f \in [SUBSET S -> Nat] : f = [s \in SUBSET S |-> SumFrom(f, s)]
<1> DEFINE N == Cardinality(S)
           All == {k \in 0 .. N : \E f \in [SUBSET S -> Nat] : SumsUpTo(f, S, k)}
<1>1. N \in Nat /\ \A s \in SUBSET S : Cardinality(s) \in Nat /\ Cardinality(s) <= N
  BY Picked, FS_Subset DEF Sized
<1>2. \A s \in SUBSET S :
        /\ Cardinality(s) = 0 => s = {}
        /\ s = {} => Cardinality(s) = 0
        /\ s # {} => /\ Pick(s).size \in Nat /\ s \ {Pick(s)} \in SUBSET S
                     /\ Cardinality(s \ {Pick(s)}) = Cardinality(s) - 1
  BY Picked
<1>3. 0 \in All
  <2> DEFINE f == [s \in SUBSET S |-> 0]
  <2>1. f \in [SUBSET S -> Nat]
    OBVIOUS
  <2>2. SumsUpTo(f, S, 0)
    <3>1. ASSUME NEW s \in SUBSET S, Cardinality(s) <= 0
          PROVE  s = {} /\ f[s] = 0
      <4>1. Cardinality(s) = 0
        BY <1>1, <3>1
      <4>2. QED
        BY <1>2, <4>1
    <3> HIDE DEF f
    <3>2. QED
      BY <3>1 DEF SumsUpTo, SumFrom
  <2> HIDE DEF f
  <2>3. 0 \in 0 .. N
    BY <1>1
  <2>4. QED
    BY <2>1, <2>2, <2>3
<1>4. ASSUME NEW k \in 1 .. N, k - 1 \in All
      PROVE  k \in All
  <2>1. PICK f \in [SUBSET S -> Nat] : SumsUpTo(f, S, k - 1)
    BY <1>4
  <2> DEFINE g == [s \in SUBSET S |-> IF Cardinality(s) = k THEN SumFrom(f, s) ELSE f[s]]
  <2>2. ASSUME NEW s \in SUBSET S
        PROVE  SumFrom(f, s) \in Nat
    <3>1. s # {} => Pick(s).size \in Nat /\ f[s \ {Pick(s)}] \in Nat
      BY <1>2
    <3>2. QED
      BY <3>1 DEF SumFrom
  <2>3. g \in [SUBSET S -> Nat]
    BY <2>2
  <2>4. ASSUME NEW s \in SUBSET S, Cardinality(s) <= k
        PROVE  SumFrom(g, s) = SumFrom(f, s)
    BY <1>1, <1>2, <2>4 DEF SumFrom
  <2>5. ASSUME NEW s \in SUBSET S, Cardinality(s) <= k
        PROVE  g[s] = SumFrom(f, s)
    BY <1>1, <2>1, <2>5 DEF SumsUpTo
  <2>6. SumsUpTo(g, S, k)
    BY <2>4, <2>5 DEF SumsUpTo
  <2> HIDE DEF g
  <2>7. QED
    BY <1>1, <2>3, <2>6
<1> HIDE DEF All
<1>5. N \in All
  <2> HIDE DEF N
  <2>1. \A k \in 0 .. N : k \in All
    BY <1>1, <1>3, <1>4, UpToInduction
  <2>2. QED
    BY <1>1, <2>1
<1>6. PICK f \in [SUBSET S -> Nat] : SumsUpTo(f, S, N)
  BY <1>5 DEF All
<1>7. f = [s \in SUBSET S |-> SumFrom(f, s)]
  BY <1>1, <1>6 DEF SumsUpTo
<1>8. QED
  BY <1>7

\* The sums over the subsets of S do not depend on S.
LEMMA SumsAgree ==
  ASSUME NEW S, Sized(S), NEW T \in SUBSET S,
         NEW f, \A s \in SUBSET S : f[s] = SumFrom(f, s),
         NEW g, \A s \in SUBSET T : g[s] = SumFrom(g, s)
  PROVE  f[T] = g[T] /\ g[T] \in Nat
<1> DEFINE N == Cardinality(T)
           All == {k \in 0 .. N : \A s \in SUBSET T : Cardinality(s) = k => f[s] = g[s] /\ g[s] \in Nat}
<1>1. N \in Nat /\ \A s \in SUBSET T : s \in SUBSET S
  BY Picked
<1>2. \A s \in SUBSET T :
        /\ Cardinality(s) = 0 => s = {}
        /\ s = {} => Cardinality(s) = 0
        /\ s # {} => /\ Pick(s) \in s /\ Pick(s).size \in Nat /\ s \ {Pick(s)} \in SUBSET T
                     /\ Cardinality(s \ {Pick(s)}) = Cardinality(s) - 1
  BY Picked
<1>3. 0 \in All
  <2>1. 0 \in 0 .. N /\ {} \in SUBSET S /\ {} \in SUBSET T
    BY <1>1
  <2>2. f[{}] = 0 /\ g[{}] = 0
    BY <2>1 DEF SumFrom
  <2>3. \A s \in SUBSET T : Cardinality(s) = 0 => f[s] = g[s] /\ g[s] \in Nat
    <3>1. \A s \in SUBSET T : Cardinality(s) = 0 => s = {}
      BY <1>2
    <3>2. ASSUME NEW s \in SUBSET T, Cardinality(s) = 0
          PROVE  f[s] = 0 /\ g[s] = 0
      BY <2>2, <3>1, <3>2, Zenon
    <3>3. QED
      BY <3>2
  <2>4. QED
    BY <2>1, <2>3
<1>4. ASSUME NEW k \in 1 .. N, k - 1 \in All
      PROVE  k \in All
  <2>1. SUFFICES ASSUME NEW s \in SUBSET T, Cardinality(s) = k
                 PROVE  f[s] = g[s] /\ g[s] \in Nat
    BY <1>1
  <2>2. s # {} /\ s \in SUBSET S
    BY <1>1, <1>2, <2>1
  <2> DEFINE x == Pick(s)
             r == s \ {Pick(s)}
  <2>3. x \in s /\ x.size \in Nat /\ r \in SUBSET T /\ Cardinality(r) = k - 1
    BY <1>2, <2>1, <2>2
  <2>4. f[r] = g[r] /\ g[r] \in Nat
    BY <1>4, <2>3
  <2>5. f[s] = x.size + f[r] /\ g[s] = x.size + g[r]
    BY <2>1, <2>2 DEF SumFrom
  <2>6. QED
    BY <2>3, <2>4, <2>5
<1> HIDE DEF All
<1>5. N \in All
  <2> HIDE DEF N
  <2>1. \A k \in 0 .. N : k \in All
    BY <1>1, <1>3, <1>4, UpToInduction
  <2>2. QED
    BY <1>1, <2>1
<1>6. QED
  BY <1>5 DEF All

LEMMA SizeSumFixed ==
  ASSUME NEW S, Sized(S)
  PROVE  \E f : /\ SizeSum(S) = f[S] /\ \A s \in SUBSET S : f[s] = SumFrom(f, s)
<1> DEFINE Body(h) == [s \in SUBSET S |-> SumFrom(h, s)]
           sums == CHOOSE h : h = Body(h)
<1>1. \E h : h = Body(h)
  <2>1. PICK f \in [SUBSET S -> Nat] : f = Body(f)
    BY SumsExist
  <2> HIDE DEF Body
  <2>2. QED
    BY <2>1
<1>2. sums = Body(sums)
  <2> HIDE DEF Body
  <2>1. QED
    BY <1>1
<1>3. SizeSum(S) = sums[S]
  BY SizeSumIs
<1> HIDE DEF sums
<1>4. \A s \in SUBSET S : sums[s] = SumFrom(sums, s)
  BY <1>2, Zenon
<1>5. QED
  BY <1>3, <1>4

LEMMA SizeSumPicked ==
  ASSUME NEW S, Sized(S)
  PROVE  /\ SizeSum(S) \in Nat
         /\ S = {} => SizeSum(S) = 0
         /\ S # {} => SizeSum(S) = Pick(S).size + SizeSum(S \ {Pick(S)})
<1>1. PICK f : SizeSum(S) = f[S] /\ \A s \in SUBSET S : f[s] = SumFrom(f, s)
  BY SizeSumFixed
<1>2. S \in SUBSET S /\ \A s \in SUBSET S : f[s] = SumFrom(f, s)
  BY <1>1
<1>3. SizeSum(S) \in Nat
  BY <1>1, <1>2, SumsAgree
<1>4. S = {} => SizeSum(S) = 0
  BY <1>1, <1>2 DEF SumFrom
<1>5. ASSUME S # {}
      PROVE  SizeSum(S) = Pick(S).size + SizeSum(S \ {Pick(S)})
  <2> DEFINE T == S \ {Pick(S)}
  <2>1. T \in SUBSET S
    OBVIOUS
  <2> HIDE DEF T
  <2>2. Sized(T)
    BY <2>1, Picked
  <2>3. PICK g : SizeSum(T) = g[T] /\ \A s \in SUBSET T : g[s] = SumFrom(g, s)
    BY <2>2, SizeSumFixed
  <2>4. f[T] = g[T]
    BY <1>2, <2>1, <2>3, SumsAgree
  <2>5. f[S] = Pick(S).size + f[T]
    BY <1>2, <1>5 DEF SumFrom, T
  <2>6. QED
    BY <1>1, <2>3, <2>4, <2>5 DEF T
<1>6. QED
  BY <1>3, <1>4, <1>5

\* Any tensor may be counted first.
LEMMA SizeSumRemove ==
  ASSUME NEW S, Sized(S), NEW t \in S
  PROVE  SizeSum(S) = t.size + SizeSum(S \ {t})
<1> DEFINE N == Cardinality(S)
           All == {k \in 0 .. N : \A s \in SUBSET S : Cardinality(s) = k =>
                     \A x \in s : SizeSum(s) = x.size + SizeSum(s \ {x})}
<1>1. N \in Nat /\ S \in SUBSET S
  BY Picked
<1>2. \A s \in SUBSET S : /\ IsFiniteSet(s) /\ Sized(s) /\ (Cardinality(s) = 0 => s = {})
                          /\ SizeSum(s) \in Nat
  BY Picked, SizeSumPicked
<1>3. 0 \in All
  <2>1. \A s \in SUBSET S : Cardinality(s) = 0 =>
          \A x \in s : SizeSum(s) = x.size + SizeSum(s \ {x})
    BY <1>2
  <2>2. 0 \in 0 .. N
    BY <1>1
  <2>3. QED
    BY <2>1, <2>2
<1>4. ASSUME NEW k \in 1 .. N, k - 1 \in All
      PROVE  k \in All
  <2>1. SUFFICES ASSUME NEW s \in SUBSET S, Cardinality(s) = k, NEW x \in s
                 PROVE  SizeSum(s) = x.size + SizeSum(s \ {x})
    BY <1>1
  <2> DEFINE y == Pick(s)
             a == s \ {x}
             b == s \ {y}
  <2>2. /\ y \in s /\ SizeSum(s) = y.size + SizeSum(b) /\ y.size \in Nat /\ x.size \in Nat
    BY <1>2, <2>1, Picked, SizeSumPicked DEF Sized
  <2>3. CASE x = y
    BY <2>2, <2>3
  <2>4. CASE x # y
    <3>1. /\ a \in SUBSET S /\ b \in SUBSET S /\ y \in a /\ x \in b /\ a \ {y} = b \ {x}
      BY <2>2, <2>4
    <3>2. Cardinality(a) = k - 1 /\ Cardinality(b) = k - 1
      BY <1>2, <2>1, <2>2, FS_RemoveElement
    <3>3. SizeSum(a) = y.size + SizeSum(a \ {y}) /\ SizeSum(b) = x.size + SizeSum(b \ {x})
      BY <1>4, <3>1, <3>2
    <3>4. SizeSum(a \ {y}) \in Nat
      BY <1>2, <3>1
    <3> HIDE DEF y, a, b
    <3>5. SizeSum(s) = x.size + SizeSum(a)
      BY <2>2, <3>1, <3>3, <3>4
    <3>6. QED
      BY <3>5 DEF a
  <2>5. QED
    BY <2>3, <2>4
<1> HIDE DEF All
<1>5. N \in All
  <2> HIDE DEF N
  <2>1. \A k \in 0 .. N : k \in All
    BY <1>1, <1>3, <1>4, UpToInduction
  <2>2. QED
    BY <1>1, <2>1
<1>6. QED
  BY <1>1, <1>5 DEF All


\* A family of tensors of one size beside a set of others.
Family(S, n, T, z) ==
  /\ Sized(S) /\ n \in Nat /\ z \in Nat
  /\ \A i \in 1 .. n : T[i].size = z /\ T[i] \notin S
  /\ \A i, j \in 1 .. n : T[i] = T[j] => i = j

LEMMA FamilySum ==
  ASSUME NEW S, NEW n, NEW T, NEW z, Family(S, n, T, z)
  PROVE  LET all == S \cup {T[i] : i \in 1 .. n} IN
         Sized(all) /\ SizeSum(all) = SizeSum(S) + n * z
<1> USE DEF Family
<1> DEFINE With1(k) == S \cup {T[i] : i \in 1 .. k}
           All == {k \in 0 .. n : Sized(With1(k)) /\ SizeSum(With1(k)) = SizeSum(S) + k * z}
<1>1. SizeSum(S) \in Nat
  BY SizeSumPicked
<1>2. 0 \in All
  <2>1. With1(0) = S
    OBVIOUS
  <2> HIDE DEF With1
  <2>2. SizeSum(S) = SizeSum(S) + 0 * z
    BY <1>1
  <2>3. QED
    BY <2>1, <2>2
<1>3. ASSUME NEW k \in 1 .. n, k - 1 \in All
      PROVE  k \in All
  <2> DEFINE s == With1(k - 1)
             t == T[k]
  <2>1. With1(k) = s \cup {t} /\ t \notin s
    <3>1. \A i \in 1 .. k : i = k \/ i \in 1 .. (k - 1)
      OBVIOUS
    <3>2. \A i \in 1 .. (k - 1) : i \in 1 .. k /\ i \in 1 .. n /\ i # k
      OBVIOUS
    <3>3. QED
      BY <3>1, <3>2
  <2>2. Sized(s) /\ SizeSum(s) = SizeSum(S) + (k - 1) * z /\ t.size = z
    BY <1>3
  <2> HIDE DEF s, t, With1
  <2>3. Sized(s \cup {t})
    BY <2>2, FS_AddElement DEF Sized
  <2>4. SizeSum(s \cup {t}) = z + SizeSum(s)
    <3>1. (s \cup {t}) \ {t} = s
      BY <2>1
    <3>2. QED
      BY <2>2, <2>3, <3>1, SizeSumRemove
  <2>5. SizeSum(With1(k)) = SizeSum(S) + k * z
    <3>1. k * z = (k - 1) * z + z /\ (k - 1) * z \in Nat
      OBVIOUS
    <3>2. QED
      BY <1>1, <2>1, <2>2, <2>4, <3>1
  <2>6. Sized(With1(k)) /\ k \in 0 .. n
    BY <2>1, <2>3
  <2>7. QED
    BY <2>5, <2>6
<1> HIDE DEF All
<1>4. n \in All
  <2>1. \A k \in 0 .. n : k \in All
    BY <1>2, <1>3, UpToInduction
  <2>2. QED
    BY <2>1
<1>5. QED
  BY <1>4 DEF All

-----------------------------------------------------------------------------
(* The layout of the KV pool.                                               *)

LEMMA GeometryIs ==
  ASSUME NEW g \in Geometries
  PROVE  /\ g.bytesPerToken \in Nat \ {0} /\ g.mlaPage \in Nat \ {0} /\ g.mlaBlock \in Nat \ {0}
         /\ g.drafts \in Nat /\ g.mlas \in Nat \ {0} /\ g.mambas \in Nat /\ g.idxPage \in Nat
         /\ g.mambas <= g.mlas
  BY EngineBootAssumption DEF EngineBootAssumption

LEMMA DraftSpecIs ==
  ASSUME NEW g \in Geometries
  PROVE  /\ DraftSpec(g).block \in Nat /\ DraftPage(g) \in Nat /\ RealPage(g) \in Nat
         /\ DraftSpec(g).block # CompactBlock => DraftSpec(g).padded = 0
<1> USE GeometryIs
<1>1. FitBlock(g) \in Nat
  <2>1. g.mlaPage \div g.bytesPerToken \in Nat
    OBVIOUS
  <2>2. QED
    BY <2>1 DEF FitBlock
<1>2. /\ DraftSpec(g).block \in Nat /\ DraftSpec(g).padded \in Nat
      /\ DraftSpec(g).block # CompactBlock => DraftSpec(g).padded = 0
  BY <1>1 DEF DraftSpec, CompactBlock
<1>3. RealPage(g) \in Nat
  BY <1>2 DEF RealPage
<1>4. DraftPage(g) \in Nat
  BY <1>2, <1>3 DEF DraftPage
<1>5. QED
  BY <1>2, <1>3, <1>4

LEMMA NumBlocksIs ==
  ASSUME NEW g \in Geometries
  PROVE  PoolBytes(g) \in Nat /\ NumBlocks(g) \in Nat
<1> USE GeometryIs
<1> DEFINE own == IF g.drafts > 0 /\ ~ Shared(g) THEN g.drafts * DraftPage(g) ELSE 0
           rest == g.mlas * (g.mlaPage + g.idxPage)
<1>1. own \in Nat
  BY DraftSpecIs
<1>2. rest \in Nat \ {0}
  <2>1. g.mlaPage + g.idxPage \in Nat \ {0}
    OBVIOUS
  <2>2. \A a, b \in Nat \ {0} : a * b \in Nat \ {0}
    OBVIOUS
  <2>3. QED
    BY <2>1, <2>2
<1>3. PoolBytes(g) = rest + own
  BY Zenon DEF PoolBytes
<1> HIDE DEF own, rest
<1>4. PoolBytes(g) \in Nat \ {0}
  BY <1>1, <1>2, <1>3
<1>5. Memory \in Nat
  BY EngineBootAssumption DEF EngineBootAssumption
<1>6. Memory \div PoolBytes(g) \in Nat
  BY <1>4, <1>5
<1>7. QED
  BY <1>4, <1>6 DEF NumBlocks

\* The three kinds of tensors, by their index.
MlaTensor(g, i) ==
  [size     |-> g.mlaPage * NumBlocks(g),
   sharedBy |-> {<<"mla", i>>}
                  \cup (Layers("mamba", g.mambas) \cap {<<"mamba", i>>})
                  \cup (IF Shared(g) THEN Layers("draft", g.drafts) \cap {<<"draft", i>>} ELSE {})]
IdxTensor(g, i) == [size |-> g.idxPage * NumBlocks(g), sharedBy |-> {<<"idx", i>>}]
DraftTensor(g, i) == [size |-> DraftPage(g) * NumBlocks(g), sharedBy |-> {<<"draft", i>>}]
OwnDrafts(g) == IF Shared(g) THEN 0 ELSE g.drafts

LEMMA TensorsAre ==
  ASSUME NEW g \in Geometries
  PROVE  Tensors(g) = {MlaTensor(g, i) : i \in 1 .. g.mlas}
                        \cup {IdxTensor(g, i) : i \in 1 .. g.mlas}
                        \cup {DraftTensor(g, i) : i \in 1 .. OwnDrafts(g)}
<1>1. (IF Shared(g) THEN {} ELSE 1 .. g.drafts) = 1 .. OwnDrafts(g)
  BY DEF OwnDrafts
<1>2. QED
  BY <1>1, Zenon DEF Tensors, MlaTensor, IdxTensor, DraftTensor

\* Which layers share a tensor.
LEMMA SharersAre ==
  ASSUME NEW g \in Geometries, NEW i \in Nat, NEW kind, NEW j \in Nat
  PROVE  /\ <<kind, j>> \in MlaTensor(g, i).sharedBy
              <=> /\ j = i
                  /\ \/ kind = "mla"
                     \/ kind = "mamba" /\ j \in 1 .. g.mambas
                     \/ kind = "draft" /\ Shared(g) /\ j \in 1 .. g.drafts
         /\ <<kind, j>> \in IdxTensor(g, i).sharedBy <=> j = i /\ kind = "idx"
         /\ <<kind, j>> \in DraftTensor(g, i).sharedBy <=> j = i /\ kind = "draft"
         /\ MlaTensor(g, i).size = g.mlaPage * NumBlocks(g)
         /\ IdxTensor(g, i).size = g.idxPage * NumBlocks(g)
         /\ DraftTensor(g, i).size = DraftPage(g) * NumBlocks(g)
  BY DEF MlaTensor, IdxTensor, DraftTensor, Layers


OwnersOf(g, layer) ==
  {t \in Tensors(g) : layer \in t.sharedBy /\ t.size = (IF layer[1] = "idx" THEN g.idxPage
                                             ELSE IF layer[1] = "draft" THEN DraftPage(g)
                                             ELSE g.mlaPage) * NumBlocks(g)}

LEMMA OneOwner ==
  ASSUME NEW g \in Geometries, LayoutAccepts(g),
         NEW layer \in Layers("mla", g.mlas) \cup Layers("idx", g.mlas)
                         \cup Layers("mamba", g.mambas) \cup Layers("draft", g.drafts)
  PROVE  \E t : OwnersOf(g, layer) = {t}
<1> USE GeometryIs
<1>1. PICK kind \in {"mla", "idx", "mamba", "draft"}, j \in Nat \ {0} :
        /\ layer = <<kind, j>>
        /\ kind \in {"mla", "idx"} => j <= g.mlas
        /\ kind = "mamba" => j <= g.mambas
        /\ kind = "draft" => j <= g.drafts
  BY DEF Layers
<1>2. layer[1] = kind
  BY <1>1
<1>3. kind = "draft" /\ Shared(g) => j <= g.mlas /\ DraftPage(g) = g.mlaPage
  BY <1>1 DEF LayoutAccepts, Shared
<1>4. \A i \in Nat : /\ layer \in MlaTensor(g, i).sharedBy
                         <=> j = i /\ (kind \in {"mla", "mamba"} \/ (kind = "draft" /\ Shared(g)))
                     /\ layer \in IdxTensor(g, i).sharedBy <=> j = i /\ kind = "idx"
                     /\ layer \in DraftTensor(g, i).sharedBy <=> j = i /\ kind = "draft"
  BY <1>1, SharersAre
<1> DEFINE size == (IF layer[1] = "idx" THEN g.idxPage
                    ELSE IF layer[1] = "draft" THEN DraftPage(g) ELSE g.mlaPage) * NumBlocks(g)
           M == {MlaTensor(g, i) : i \in 1 .. g.mlas}
           I == {IdxTensor(g, i) : i \in 1 .. g.mlas}
           D == {DraftTensor(g, i) : i \in 1 .. OwnDrafts(g)}
<1>5. Tensors(g) = M \cup I \cup D
  BY TensorsAre
<1>6. OwnDrafts(g) \in Nat /\ (kind = "draft" /\ ~ Shared(g) => j <= OwnDrafts(g))
      /\ (Shared(g) => OwnDrafts(g) = 0)
  BY <1>1 DEF OwnDrafts
<1>7. CASE kind \in {"mla", "mamba"} \/ (kind = "draft" /\ Shared(g))
  <2> DEFINE t == MlaTensor(g, j)
  <2>1. t \in M /\ layer \in t.sharedBy
    BY <1>1, <1>3, <1>4, <1>7
  <2>2. t.size = size
    <3>1. (IF layer[1] = "idx" THEN g.idxPage
           ELSE IF layer[1] = "draft" THEN DraftPage(g) ELSE g.mlaPage) = g.mlaPage
      BY <1>2, <1>3, <1>7
    <3>2. t.size = g.mlaPage * NumBlocks(g)
      BY SharersAre
    <3>3. QED
      BY <3>1, <3>2
  <2>3. ASSUME NEW u \in Tensors(g), layer \in u.sharedBy
        PROVE  u = t
    <3>1. CASE u \in M
      BY <1>4, <2>3, <3>1
    <3>2. CASE u \in I
      BY <1>4, <1>7, <2>3, <3>2
    <3>3. CASE u \in D
      BY <1>4, <1>6, <1>7, <2>3, <3>3
    <3>4. QED
      BY <1>5, <3>1, <3>2, <3>3
  <2> HIDE DEF t, size
  <2>4. OwnersOf(g, layer) = {t}
    BY <1>5, <2>1, <2>2, <2>3 DEF OwnersOf, size
  <2>5. QED
    BY <2>4
<1>8. CASE kind = "idx"
  <2> DEFINE t == IdxTensor(g, j)
  <2>1. t \in I /\ layer \in t.sharedBy
    BY <1>1, <1>4, <1>8
  <2>2. t.size = size
    BY <1>2, <1>8, SharersAre
  <2>3. ASSUME NEW u \in Tensors(g), layer \in u.sharedBy
        PROVE  u = t
    <3>1. CASE u \in M
      BY <1>4, <1>8, <2>3, <3>1
    <3>2. CASE u \in I
      BY <1>4, <2>3, <3>2
    <3>3. CASE u \in D
      BY <1>4, <1>6, <1>8, <2>3, <3>3
    <3>4. QED
      BY <1>5, <3>1, <3>2, <3>3
  <2> HIDE DEF t, size
  <2>4. OwnersOf(g, layer) = {t}
    BY <1>5, <2>1, <2>2, <2>3 DEF OwnersOf, size
  <2>5. QED
    BY <2>4
<1>9. CASE kind = "draft" /\ ~ Shared(g)
  <2> DEFINE t == DraftTensor(g, j)
  <2>1. t \in D /\ layer \in t.sharedBy
    BY <1>1, <1>4, <1>6, <1>9
  <2>2. t.size = size
    BY <1>2, <1>9, SharersAre
  <2>3. ASSUME NEW u \in Tensors(g), layer \in u.sharedBy
        PROVE  u = t
    <3>1. CASE u \in M
      BY <1>4, <1>9, <2>3, <3>1
    <3>2. CASE u \in I
      BY <1>4, <1>9, <2>3, <3>2
    <3>3. CASE u \in D
      BY <1>4, <1>6, <2>3, <3>3
    <3>4. QED
      BY <1>5, <3>1, <3>2, <3>3
  <2> HIDE DEF t, size
  <2>4. OwnersOf(g, layer) = {t}
    BY <1>5, <2>1, <2>2, <2>3 DEF OwnersOf, size
  <2>5. QED
    BY <2>4
<1>10. QED
  BY <1>7, <1>8, <1>9


LEMMA Distribute ==
  ASSUME NEW a \in Nat, NEW b \in Nat, NEW c \in Nat, NEW d \in Nat, NEW e \in Nat, NEW n \in Nat
  PROVE  a * (b * n) + a * (c * n) + d * (e * n) = n * (a * (b + c) + d * e)
<1>1. a * (b * n) = n * (a * b) /\ a * (c * n) = n * (a * c) /\ d * (e * n) = n * (d * e)
  OBVIOUS
<1>2. a * (b + c) = a * b + a * c
  OBVIOUS
<1> DEFINE x == a * b
           y == a * c
           z == d * e
<1>3. x \in Nat /\ y \in Nat /\ z \in Nat
  OBVIOUS
<1> HIDE DEF x, y, z
<1>4. n * x + n * y + n * z = n * (x + y + z)
  BY <1>3
<1>5. QED
  BY <1>1, <1>2, <1>4 DEF x, y, z

LEMMA PoolSum ==
  ASSUME NEW g \in Geometries
  PROVE  SizeSum(Tensors(g)) = NumBlocks(g) * PoolBytes(g)
<1> USE GeometryIs
<1> DEFINE n == NumBlocks(g)
           m == g.mlas
           d == OwnDrafts(g)
           T1 == [i \in 1 .. m |-> MlaTensor(g, i)]
           T2 == [i \in 1 .. m |-> IdxTensor(g, i)]
           T3 == [i \in 1 .. d |-> DraftTensor(g, i)]
           z1 == g.mlaPage * n
           z2 == g.idxPage * n
           z3 == DraftPage(g) * n
           S1 == {} \cup {T1[i] : i \in 1 .. m}
           S2 == S1 \cup {T2[i] : i \in 1 .. m}
           S3 == S2 \cup {T3[i] : i \in 1 .. d}
<1>1. n \in Nat /\ m \in Nat /\ d \in Nat /\ z1 \in Nat /\ z2 \in Nat /\ z3 \in Nat
  BY NumBlocksIs, DraftSpecIs DEF OwnDrafts
<1>2. \A i \in Nat : /\ MlaTensor(g, i).size = z1 /\ IdxTensor(g, i).size = z2
                     /\ DraftTensor(g, i).size = z3
  BY SharersAre
<1>3. \A i, j \in Nat : /\ MlaTensor(g, i) = MlaTensor(g, j) => i = j
                        /\ IdxTensor(g, i) = IdxTensor(g, j) => i = j
                        /\ DraftTensor(g, i) = DraftTensor(g, j) => i = j
                        /\ MlaTensor(g, i) # IdxTensor(g, j)
                        /\ MlaTensor(g, i) # DraftTensor(g, j)
                        /\ IdxTensor(g, i) # DraftTensor(g, j)
  <2>1. \A i, j \in Nat : /\ <<"mla", j>> \in MlaTensor(g, i).sharedBy <=> j = i
                          /\ <<"mla", j>> \notin IdxTensor(g, i).sharedBy
                          /\ <<"mla", j>> \notin DraftTensor(g, i).sharedBy
                          /\ <<"idx", j>> \in IdxTensor(g, i).sharedBy <=> j = i
                          /\ <<"idx", j>> \notin DraftTensor(g, i).sharedBy
                          /\ <<"draft", j>> \in DraftTensor(g, i).sharedBy <=> j = i
    BY SharersAre
  <2>2. QED
    BY <2>1, Zenon
<1> HIDE DEF n, z1, z2, z3
<1>4. Sized({}) /\ SizeSum({}) = 0
  <2>1. Sized({})
    BY FS_EmptySet DEF Sized
  <2>2. QED
    BY <2>1, SizeSumPicked
<1>5. Sized(S1) /\ SizeSum(S1) = SizeSum({}) + m * z1
  <2>1. Family({}, m, T1, z1)
    BY <1>1, <1>2, <1>3, <1>4 DEF Family
  <2> HIDE DEF T1, m
  <2>2. QED
    BY <2>1, FamilySum
<1>6. Sized(S2) /\ SizeSum(S2) = SizeSum(S1) + m * z2
  <2>1. ASSUME NEW t \in S1
        PROVE  \E j \in Nat : t = MlaTensor(g, j)
    <3>1. PICK i \in 1 .. m : t = T1[i]
      OBVIOUS
    <3>2. i \in Nat /\ T1[i] = MlaTensor(g, i)
      OBVIOUS
    <3>3. QED
      BY <3>1, <3>2
  <2> HIDE DEF S1
  <2>2. \A i \in 1 .. m : T2[i] = IdxTensor(g, i) /\ i \in Nat
    OBVIOUS
  <2> HIDE DEF T2, m
  <2>3. \A i \in 1 .. m : T2[i] \notin S1 /\ T2[i].size = z2
    BY <1>2, <1>3, <2>1, <2>2
  <2>4. \A i, j \in 1 .. m : T2[i] = T2[j] => i = j
    BY <1>3, <2>2
  <2>5. Family(S1, m, T2, z2)
    BY <1>1, <1>5, <2>3, <2>4 DEF Family
  <2>6. QED
    BY <2>5, FamilySum
<1>7. Sized(S3) /\ SizeSum(S3) = SizeSum(S2) + d * z3
  <2>1. ASSUME NEW t \in S2
        PROVE  \E j \in Nat : t = MlaTensor(g, j) \/ t = IdxTensor(g, j)
    <3>1. PICK i \in 1 .. m : t = T1[i] \/ t = T2[i]
      OBVIOUS
    <3>2. i \in Nat /\ T1[i] = MlaTensor(g, i) /\ T2[i] = IdxTensor(g, i)
      OBVIOUS
    <3>3. QED
      BY <3>1, <3>2
  <2> HIDE DEF S2
  <2>2. \A i \in 1 .. d : T3[i] = DraftTensor(g, i) /\ i \in Nat
    BY <1>1
  <2> HIDE DEF T3, d
  <2>3. \A i \in 1 .. d : T3[i] \notin S2 /\ T3[i].size = z3
    <3>1. \A i \in Nat : DraftTensor(g, i) \notin S2
      BY <1>3, <2>1
    <3>2. QED
      BY <1>2, <2>2, <3>1
  <2>4. \A i, j \in 1 .. d : T3[i] = T3[j] => i = j
    BY <1>3, <2>2
  <2>5. Family(S2, d, T3, z3)
    BY <1>1, <1>6, <2>3, <2>4 DEF Family
  <2>6. QED
    BY <2>5, FamilySum
<1>8. Tensors(g) = S3
  BY TensorsAre
<1>9. PoolBytes(g) = m * (g.mlaPage + g.idxPage) + d * DraftPage(g)
  BY DraftSpecIs DEF PoolBytes, OwnDrafts
<1> HIDE DEF S1, S2, S3, m, d
<1>10. SizeSum(Tensors(g)) = m * z1 + m * z2 + d * z3
  <2>1. m * z1 \in Nat /\ m * z2 \in Nat /\ d * z3 \in Nat
    BY <1>1
  <2>2. QED
    BY <1>4, <1>5, <1>6, <1>7, <1>8, <2>1
<1>11. m * z1 + m * z2 + d * z3 = n * (m * (g.mlaPage + g.idxPage) + d * DraftPage(g))
  <2>1. DraftPage(g) \in Nat /\ g.mlaPage \in Nat /\ g.idxPage \in Nat
    BY DraftSpecIs
  <2>2. QED
    BY <1>1, <2>1, Distribute DEF z1, z2, z3
<1>12. QED
  BY <1>9, <1>10, <1>11 DEF n

\* For every geometry of the model and its drafter that the layout accepts, every layer
\* has exactly one tensor with room for its pages, and the tensors are what the pool was
\* sized for (the docstring, :33-38 and :55-62).
THEOREM PoolIsExact == Spec => []PoolHoldsTheDrafter
<1>1. BootInv => PoolHoldsTheDrafter
  <2> SUFFICES ASSUME BootInv, boot = "laid"
               PROVE  PoolHoldsTheDrafter
    BY DEF PoolHoldsTheDrafter
  <2> DEFINE g == geometry
             layers == Layers("mla", g.mlas) \cup Layers("idx", g.mlas)
                         \cup Layers("mamba", g.mambas) \cup Layers("draft", g.drafts)
  <2>1. g \in Geometries /\ LayoutAccepts(g)
    BY DEF BootInv
  <2>2. ASSUME NEW layer \in layers
        PROVE  Cardinality(OwnersOf(g, layer)) = 1
    <3>1. PICK t : OwnersOf(g, layer) = {t}
      BY <2>1, OneOwner
    <3>2. QED
      BY <3>1, FS_Singleton
  <2>3. MapThenSumSet(LAMBDA t : t.size, Tensors(g)) = NumBlocks(g) * PoolBytes(g)
    <3>1. SizeSum(Tensors(g)) = NumBlocks(g) * PoolBytes(g)
      BY <2>1, PoolSum
    <3>2. QED
      BY <3>1, Zenon DEF SizeSum
  <2>4. RealPage(g) < DraftPage(g) => DraftSpec(g).block = CompactBlock
    BY <2>1, DraftSpecIs DEF DraftPage
  <2>5. QED
    BY <2>2, <2>3, <2>4, Zenon DEF PoolHoldsTheDrafter, OwnersOf
<1>2. QED
  BY <1>1, BootInvInit, BootInvNext, PTL DEF Spec


-----------------------------------------------------------------------------
(* Types.                                                                   *)

\* What the other invariants leave out: the image, and that no stage runs ahead.
StagesInv ==
  /\ baked \in {"none", "old", "new"} /\ bakedSpin \in SpinValues /\ touched \subseteq Names
  /\ stage \in {"entry", "refused", "exec", "loaded"}
  /\ geometry \in Geometries \cup {NoGeometry} /\ config \in Configs \cup {NoConfig}
  /\ boot # "no" => stage = "loaded"
  /\ batch # NoBatch \/ request # "none" => boot = "up"
  /\ request \in {"none", "text", "structured"}

LEMMA StagesInit == Init => StagesInv
<1> SUFFICES ASSUME Init
             PROVE  StagesInv
  OBVIOUS
<1>1. /\ baked \in {"none", "old", "new"} /\ bakedSpin \in SpinValues /\ touched = {}
      /\ stage = "entry"
  BY DEF Init, EntryInit, SpinValues
<1>2. /\ geometry = NoGeometry /\ config = NoConfig /\ boot = "no" /\ batch = NoBatch
      /\ request = "none"
  BY DEF Init, BootInit, DecodingInit
<1>3. QED
  BY <1>1, <1>2 DEF StagesInv

LEMMA StagesNext == StagesInv /\ ServedInv /\ [Next]_vars => StagesInv'
<1> SUFFICES ASSUME StagesInv, ServedInv, [Next]_vars
             PROVE  StagesInv'
  OBVIOUS
<1> USE DEF StagesInv
<1>1. CASE Entry
  <2>1. /\ UNCHANGED <<boot, geometry, config, batch, request>>
        /\ UNCHANGED <<baked, bakedSpin>> /\ stage = "entry"
        /\ stage' \in {"entry", "refused", "exec"}
    BY <1>1 DEF Entry, RunScript, ExecEngine, bootVars, decodingVars
  <2>2. CASE RunScript
    <3>1. Scripts[script] \in Names
      BY <2>2, TheNames DEF RunScript, ServedInv
    <3>2. touched' = touched \/ touched' = touched \cup {Scripts[script]}
      BY <2>2 DEF RunScript
    <3>3. touched' \subseteq Names
      BY <3>1, <3>2
    <3>4. QED
      BY <2>1, <3>3
  <2>3. CASE ExecEngine
    BY <2>1, <2>3 DEF ExecEngine
  <2>4. QED
    BY <1>1, <2>2, <2>3 DEF Entry
<1>2. CASE LoadEngine
  BY <1>2 DEF LoadEngine, bootVars, decodingVars, SpinValues
<1>3. CASE Engine
  <2>1. /\ UNCHANGED <<baked, bakedSpin, touched, stage, request>>
        /\ stage = "loaded" /\ request = "none" /\ BootStep
    BY <1>3 DEF Engine, entryVars, decodingVars
  <2>2. CASE LayOut
    BY <2>1, <2>2 DEF LayOut
  <2>3. CASE SizeWorkspace
    BY <2>1, <2>3 DEF SizeWorkspace
  <2>4. CASE BuildMetadata
    BY <2>1, <2>4 DEF BuildMetadata
  <2>5. CASE PrefillStep \/ StepEnds
    BY <2>1, <2>5 DEF PrefillStep, StepEnds
  <2>6. QED
    BY <2>1, <2>2, <2>3, <2>4, <2>5 DEF BootStep
<1>4. CASE Serve
  <2>1. /\ UNCHANGED <<baked, bakedSpin, touched, stage, boot, geometry, config, batch>>
        /\ boot = "up"
    BY <1>4 DEF Serve, entryVars, bootVars
  <2>2. request' \in {"none", "text", "structured"}
    BY <1>4 DEF Serve, DecodingStep, TextRequest, StructuredRequest, Detokenize, Draft,
                FillBitmask, Sample, ResetGrammar
  <2>3. QED
    BY <2>1, <2>2
<1>5. CASE UNCHANGED vars
  BY <1>5 DEF vars, entryVars, bootVars, decodingVars
<1>6. QED
  BY <1>1, <1>2, <1>3, <1>4, <1>5 DEF Next

\* Every variable has its type, and nothing runs ahead of the stage before it: the engine
\* boots only after it was executed, and serves only once it is up (airo-entry.sh).
THEOREM ContainerTypes == Spec => []TypeOK
<1>1. TextInv /\ GrammarInv /\ ServedInv /\ BootInv /\ StagesInv => TypeOK
  <2> SUFFICES ASSUME TextInv, GrammarInv, ServedInv, BootInv, StagesInv
               PROVE  TypeOK
    OBVIOUS
  <2>1. script \in 1 .. (Len(Scripts) + 1) /\ \A s \in Names : files[s] \in [Places(s) -> Texts]
    BY TheNames DEF ServedInv, FilesOf
  <2>2. matcher \in Seq({"g", "E"}) /\ isTerminated \in BOOLEAN /\ processed \in Nat
    BY GrammarVars DEF GrammarInv, GrammarStates, Accepts
  <2>3. QED
    BY <2>1, <2>2 DEF TypeOK, TextInv, GrammarInv, ServedInv, BootInv, StagesInv
<1>2. QED
  BY <1>1, TextAlways, GrammarInit, GrammarNext, ServedInit, ServedNext, BootInvInit, BootInvNext,
     StagesInit, StagesNext, PTL DEF Spec
=============================================================================
