---------------------------- MODULE EntryPatches ----------------------------
(***************************************************************************)
(* The start of a container of the GLM-5.3-Flash slot: airo-entry.sh runs  *)
(* nine scripts over the engine's own source files and then execs the      *)
(* engine.  The image may have been built with the same scripts or with an *)
(* older version of them, or not at all (deploy/overlays/glm53).           *)
(*                                                                         *)
(* A file is the text at each place a script edits:                        *)
(*   "anchor"    what the script expects to replace, once;                 *)
(*   "twice"     the same, at two places;  "other"  something else;        *)
(*   "upstream"  a fix of upstream's own, without the script's mark;       *)
(*   "new"       what the mounted script writes;                           *)
(*   "old"       what an older version of it wrote, with its mark;         *)
(*   "half"      replaced at the first of two places.                      *)
(* Containers run with --rm: a start always begins from the image, and a   *)
(* script that fails ends the container with everything written so far.    *)
(*                                                                         *)
(* RefusesNothing, VerifiedBare: mistaken variants; no action uses them.   *)
(***************************************************************************)
EXTENDS Naturals, FiniteSets, SequencesExt

VARIABLES
  stage,        \* how far the container has come
  files,        \* the text of the files, per script and place
  script,       \* the index of the next script
  baked,        \* the scripts the image was built with: "none", "old" or "new"
  spin,         \* GLM53_SPINWAIT_MS of the container
  bakedSpin,    \* the same, when the image was built
  touched       \* scripts that have rewritten their file in this container

entryVars == <<stage, files, script, baked, spin, bakedSpin, touched>>

\* The order of airo-entry.sh.
Scripts == <<"video", "stops", "decode_floor", "drafter", "hybrid", "xgrammar",
             "kpool", "spinwait", "indexer">>
Names == ToSet(Scripts)

Places(s) ==
  CASE s = "video"        -> {"hook", "topk"}
    [] s = "stops"        -> {"import", "factory", "init", "stop"}
    [] s = "decode_floor" -> {"import", "helper", "running", "waiting"}
    [] s = "drafter"      -> {"groups", "layout"}
    [] s = "hybrid"       -> {"helper", "eagle", "min", "log"}
    [] s = "xgrammar"     -> {"accept", "validate", "reset", "manager"}
    [] s = "kpool"        -> {"clamp"}
    [] s = "spinwait"     -> {"window"}
    [] s = "indexer"      -> {"import", "size", "guard"}

Texts == {"anchor", "twice", "other", "upstream", "new", "old", "half", "asis", "compact"}
SpinValues == {"stock", "new", "old", "bad"}

\* What the spinwait script calls by the same names: the stock line, the line for
\* the value the container asks for, and the line for another value.
SpinText(v) == IF v = "stock" THEN "anchor" ELSE v

Clean(s) == [x \in Places(s) |-> "anchor"]
Mine == {"old", "new"}

-----------------------------------------------------------------------------
(* Each script takes the text of its file to a new text, or fails.         *)

Done(f) == [ok |-> TRUE, file |-> f]
Fails(f) == [ok |-> FALSE, file |-> f]

\* Every "anchor" becomes "new"; of two, the first does.
Replaced(f) == [x \in DOMAIN f |-> CASE f[x] = "anchor" -> "new"
                                     [] f[x] = "twice"  -> "half"
                                     [] OTHER           -> f[x]]

\* The hook is copied at every start; the kernel choice is replaced where it is
\* found first.
PatchVideo(f) ==
  LET hooked == [f EXCEPT !["hook"] = "new"] IN
  CASE f["topk"] \in Mine               -> Done(hooked)
    [] f["topk"] \in {"anchor", "twice"} -> Done(Replaced(hooked))
    [] OTHER                            -> Fails(hooked)

\* apply_text: done before if the factory is patched; else every anchor must be
\* there, however often.
PatchStops(f) ==
  CASE f["factory"] \in Mine                           -> Done(f)
    [] \A x \in DOMAIN f : f[x] \in {"anchor", "twice"} -> Done(Replaced(f))
    [] OTHER                                           -> Fails(f)

\* decode_floor and hybrid: done before if the mark is anywhere in the file; else
\* every anchor must be there once, except the places that may be done already.
Marked(f, marks) == \E x \in marks : f[x] \in Mine
PatchOnce(f, marks, mayBeDone) ==
  LET ready(x) == f[x] = "anchor" \/ (x \in mayBeDone /\ f[x] = "upstream") IN
  IF Marked(f, marks) THEN Done(f)
  ELSE IF \A x \in DOMAIN f : ready(x) THEN Done(Replaced(f)) ELSE Fails(f)
PatchDecodeFloor(f) == PatchOnce(f, {"running", "waiting"}, {"import"})
PatchHybrid(f) == PatchOnce(f, {"eagle", "min", "log"}, {})

\* patch_file: the drafter's file may come from any earlier version of this script,
\* which left its layers as they were, in compact tensors, or padded with a layout
\* check that rejects padding.
PatchDrafter(f) ==
  LET loose == [f EXCEPT !["layout"] = "new"] IN
  CASE f["groups"] = "new"                 -> Done(loose)
    [] f["groups"] \in {"asis", "compact"} -> Done([loose EXCEPT !["groups"] = "new"])
    [] f = Clean("drafter")                -> Done(Replaced(f))
    [] OTHER                               -> Fails(f)

\* xgrammar, kpool, indexer: a marked file must be exactly what this script writes,
\* and a file without a mark must have every anchor once.  A replacement that
\* keeps its anchor (the indexer's guard) counts it.
Keeps(x) == IF x = "guard" THEN 1 ELSE 0
Anchors(f, x) ==
  CASE f[x] = "anchor" -> 1
    [] f[x] = "twice"  -> 2
    [] f[x] \in Mine   -> Keeps(x)
    [] OTHER           -> 0
VerifiedBare(f, part) == \A x \in part : f[x] = "new" /\ Anchors(f, x) = 0
Verified(f, part) == \A x \in part : f[x] = "new" /\ Anchors(f, x) = Keeps(x)

Prepare(f, part, marks) ==
  IF Marked(f, marks)
    THEN [ok |-> Verified(f, part), file |-> f]
    ELSE [ok |-> \A x \in part : Anchors(f, x) = 1,
          file |-> [x \in DOMAIN f |-> IF x \in part THEN "new" ELSE f[x]]]
\* Only the xgrammar script knows its fixes without its mark.
PrepareFixed(f, part, marks) ==
  IF \A x \in part : f[x] = "upstream" THEN Done(f) ELSE Prepare(f, part, marks)

\* Both files are prepared before either is written.
Backend == {"accept", "validate", "reset"}
PatchXgrammar(f) ==
  LET backend == PrepareFixed(f, Backend, {"accept"})
      manager == PrepareFixed(backend.file, {"manager"}, {"manager"}) IN
  IF backend.ok /\ manager.ok THEN Done(manager.file) ELSE Fails(f)

PatchChecked(f) ==
  LET p == Prepare(f, DOMAIN f, DOMAIN f) IN IF p.ok THEN p ELSE Fails(f)

\* The spin window: the stock line where stock is asked for; else the stock line
\* or the line asked for.
PatchSpinwait(f, value) ==
  CASE value = "stock" /\ f["window"] = "anchor" -> Done(f)
    [] value \in Mine /\ f["window"] \in {"anchor", value} -> Done([f EXCEPT !["window"] = value])
    [] OTHER -> Fails(f)

Patch(s, f, value) ==
  CASE s = "video"              -> PatchVideo(f)
    [] s = "stops"              -> PatchStops(f)
    [] s = "decode_floor"       -> PatchDecodeFloor(f)
    [] s = "drafter"            -> PatchDrafter(f)
    [] s = "hybrid"             -> PatchHybrid(f)
    [] s = "xgrammar"           -> PatchXgrammar(f)
    [] s \in {"kpool", "indexer"} -> PatchChecked(f)
    [] s = "spinwait"           -> PatchSpinwait(f, value)

-----------------------------------------------------------------------------
(* The image.                                                              *)

CleanFiles == [s \in Names |-> Clean(s)]

Spots == UNION {{s} \X Places(s) : s \in Names}
With(all, spot, text) == [all EXCEPT ![spot[1]] = [@ EXCEPT ![spot[2]] = text]]

\* Upstream as it is, or with one place that is not what the scripts expect, or with
\* the fixes of xgrammar's backend.
Drifts == {With(CleanFiles, spot, t) : spot \in Spots, t \in {"other", "twice", "upstream"}}
Fixed == {[CleanFiles EXCEPT !["xgrammar"] = [@ EXCEPT !["accept"] = "upstream",
             !["validate"] = "upstream", !["reset"] = "upstream", !["manager"] = t]] :
             t \in {"anchor", "upstream", "other"}}
Unbaked == {CleanFiles} \cup Drifts \cup Fixed

\* Patched at the build by the scripts as they are, or by older ones that differ
\* from them at one place.
Baked(value) == [s \in Names |-> Patch(s, Clean(s), value).file]
BakedOld(value) ==
  {With(Baked(value), spot, "old") :
     spot \in {p \in Spots : p[1] \notin {"drafter", "spinwait"}}}
  \cup {[Baked(value) EXCEPT !["drafter"] = [groups |-> g, layout |-> "old"]] :
          g \in {"asis", "compact", "new"}}

EntryInit ==
  /\ stage = "entry" /\ script = 1 /\ touched = {}
  /\ spin \in SpinValues
  /\ \/ baked = "none" /\ bakedSpin = "stock" /\ files \in Unbaked
     \/ baked = "new" /\ bakedSpin \in SpinValues \ {"bad"} /\ files = Baked(bakedSpin)
     \/ baked = "old" /\ bakedSpin = spin /\ spin # "bad" /\ files \in BakedOld(bakedSpin)

-----------------------------------------------------------------------------
(* The entry script.                                                       *)

\* set -e: a script that fails ends the container.
RefusesNothing(p) == FALSE
Refuses(p) == ~ p.ok

RunScript ==
  /\ stage = "entry" /\ script <= Len(Scripts)
  /\ LET s == Scripts[script]
         p == Patch(s, files[s], spin) IN
       /\ files' = [files EXCEPT ![s] = p.file]
       /\ touched' = IF p.file # files[s] THEN touched \cup {s} ELSE touched
       /\ IF Refuses(p) THEN stage' = "refused" /\ UNCHANGED script
                        ELSE script' = script + 1 /\ UNCHANGED stage
  /\ UNCHANGED <<baked, spin, bakedSpin>>

ExecEngine ==
  /\ stage = "entry" /\ script > Len(Scripts)
  /\ stage' = "exec"
  /\ UNCHANGED <<files, script, baked, spin, bakedSpin, touched>>

-----------------------------------------------------------------------------
\* What each script may leave in its file when the engine is started: those that
\* verify leave only their own text or upstream's; those that look for a mark also
\* what an older version wrote; those that do not count, an anchor's second place.
MayServe(s) ==
  CASE s \in {"kpool", "indexer", "drafter"} -> {"new"}
    [] s = "xgrammar"                       -> {"new", "upstream"}
    [] s = "decode_floor"                   -> {"new", "old", "upstream"}
    [] s = "hybrid"                         -> {"new", "old"}
    [] s \in {"stops", "video"}             -> {"new", "old", "half"}
    [] s = "spinwait"                       -> {SpinText(spin)}

(* The engine is never started on a file that is unpatched, drifted or patched
   in part ("fail closed", in every script), nor on what an older version of a
   verifying script wrote, nor with another spin window than the container's. *)
ServedCodeIsPatched ==
  stage = "exec" => \A s \in Names : \A x \in Places(s) : files[s][x] \in MayServe(s)

(* Where image and container have the same scripts and the same spin window, the
   entry script changes nothing and refuses nothing (README.md:26-28: "an
   idempotent guard"; the hook file is copied onto itself). *)
RerunIsANoop ==
  baked = "new" /\ spin = bakedSpin => stage # "refused" /\ touched = {}
=============================================================================
