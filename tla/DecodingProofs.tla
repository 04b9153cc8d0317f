--------------------------- MODULE DecodingProofs ---------------------------
(***************************************************************************)
(* Proofs about the decoding of a request in a GLM-5.3 container, for      *)
(* texts, chunks, drafts, outputs and contents of any length:              *)
(*   StopsAreExact       a stop string ends the request exactly when it is *)
(*                       completed behind the end of the reasoning         *)
(*                       (StopsExactlyAfterReasoning);                     *)
(*   FlagAgrees          the cached flag and count are the matcher's       *)
(*                       (FlagIsTheMatchers);                              *)
(*   GrammarIsFedRight   the grammar is given nothing it must reject       *)
(*                       (GrammarIsNotMisfed).                             *)
(*                                                                         *)
(* A function that the model defines by recursion over a sequence has the  *)
(* values its equation says once it exists: Iteration shows that it does,  *)
(* UpToInduction what holds of all of them.                                *)
(***************************************************************************)
EXTENDS Glm53, FiniteSetTheorems, SequenceTheorems, WellFoundedInduction, TLAPS

-----------------------------------------------------------------------------
(* Minima and positions.                                                   *)

LEMMA MinOfNaturals ==
  ASSUME NEW S \in SUBSET Nat, S # {}
  PROVE  Min(S) \in S /\ \A y \in S : Min(S) <= y
<1> DEFINE below == {ss \in Nat \X Nat : ss[1] < ss[2]}
<1>1. IsWellFoundedOn(below, Nat)
  BY NatLessThanWellFounded DEF OpToRel
<1>2. \A x, y \in Nat : <<y, x>> \in below <=> y < x
  OBVIOUS
<1> HIDE DEF below
<1>3. PICK x \in S : \A y \in S : ~ (<<y, x>> \in below)
  BY <1>1, WFMin
<1>4. x \in Nat /\ \A y \in S : y \in Nat /\ ~ (y < x)
  BY <1>2, <1>3, Zenon
<1>5. \A y \in S : x <= y
  BY <1>4
<1>6. QED
  BY <1>5, Zenon DEF Min

LEMMA MaxOfNaturals ==
  ASSUME NEW n \in Nat, NEW S \in SUBSET (0 .. n), S # {}
  PROVE  Max(S) \in S /\ \A y \in S : y <= Max(S)
<1> DEFINE R == {n - x : x \in S}
<1>1. R \in SUBSET Nat /\ R # {}
  <2>1. \A x \in S : n - x \in Nat
    OBVIOUS
  <2>2. QED
    BY <2>1
<1>2. Min(R) \in R /\ \A y \in R : Min(R) <= y
  BY <1>1, MinOfNaturals
<1>3. PICK x \in S : Min(R) = n - x
  BY <1>2
<1>4. ASSUME NEW y \in S
      PROVE  x >= y
  <2>1. n - y \in R
    OBVIOUS
  <2>2. n - x <= n - y
    BY <1>2, <1>3, <2>1
  <2> HIDE DEF R
  <2>3. QED
    BY <2>2
<1>5. x \in S /\ \A y \in S : x >= y
  BY <1>4
<1>6. Max(S) \in S /\ \A y \in S : Max(S) >= y
  BY <1>5, Zenon DEF Max
<1>7. QED
  BY <1>6

LEMMA MaxOfTwo ==
  ASSUME NEW a \in Int, NEW b \in Int
  PROVE  Max({a, b}) = IF a >= b THEN a ELSE b
  BY DEF Max

\* Induction over the numbers up to n, for a set of numbers.
LEMMA UpToInduction ==
  ASSUME NEW n \in Nat, NEW S, 0 \in S, \A k \in 1 .. n : k - 1 \in S => k \in S
  PROVE  \A k \in 0 .. n : k \in S
<1> DEFINE T == {k \in 0 .. n : k \notin S}
<1> SUFFICES ASSUME T # {}
             PROVE  FALSE
  OBVIOUS
<1>1. Min(T) \in T /\ \A y \in T : Min(T) <= y
  <2>1. T \in SUBSET Nat
    OBVIOUS
  <2> HIDE DEF T
  <2>2. QED
    BY <2>1, MinOfNaturals
<1>2. PICK m \in T : \A y \in T : m <= y
  BY <1>1
<1>3. m \in 1 .. n /\ m - 1 \in 0 .. n /\ ~ (m <= m - 1)
  BY <1>2
<1>4. QED
  BY <1>2, <1>3

\* A function that is defined by recursion over 0 .. n exists, if every step stays in X.
Iterable(n, X, base, after) ==
  n \in Nat /\ base \in X /\ \A k \in 1 .. n : \A x \in X : after[k][x] \in X

LEMMA Iteration ==
  ASSUME NEW n, NEW X, NEW base, NEW after, Iterable(n, X, base, after)
  PROVE  \E f \in [0 .. n -> X] : f[0] = base /\ \A k \in 1 .. n : f[k] = after[k][f[k - 1]]
<1> USE DEF Iterable
<1> DEFINE Solves(f, m) == f[0] = base /\ \A k \in 1 .. m : f[k] = after[k][f[k - 1]]
           S == {m \in 0 .. n : \E f \in [0 .. m -> X] : Solves(f, m)}
<1>1. 0 \in S
  <2> DEFINE f == [k \in 0 .. 0 |-> base]
  <2>1. f \in [0 .. 0 -> X] /\ Solves(f, 0) /\ 0 \in 0 .. n
    OBVIOUS
  <2>2. QED
    BY <2>1
<1>2. ASSUME NEW m \in 1 .. n, m - 1 \in S
      PROVE  m \in S
  <2>1. PICK f \in [0 .. (m - 1) -> X] : Solves(f, m - 1)
    BY <1>2
  <2> DEFINE g == [k \in 0 .. m |-> IF k = m THEN after[m][f[m - 1]] ELSE f[k]]
  <2>2. f[m - 1] \in X /\ 0 \in 0 .. m /\ 0 # m /\ g[0] = f[0]
    OBVIOUS
  <2>3. g \in [0 .. m -> X]
    BY <2>2
  <2>4. ASSUME NEW k \in 1 .. m
        PROVE  g[k] = after[k][g[k - 1]]
    <3>1. k - 1 \in 0 .. m /\ k - 1 # m /\ g[k - 1] = f[k - 1]
      OBVIOUS
    <3>2. CASE k = m
      BY <3>1, <3>2
    <3>3. CASE k # m
      <4>1. k \in 1 .. (m - 1) /\ g[k] = f[k]
        BY <3>3
      <4>2. QED
        BY <2>1, <3>1, <4>1
    <3>4. QED
      BY <3>2, <3>3
  <2> HIDE DEF g
  <2>5. QED
    BY <2>1, <2>2, <2>3, <2>4
<1> HIDE DEF S
<1>3. n \in S
  BY <1>1, <1>2, UpToInduction
<1>4. QED
  BY <1>3 DEF S

LEMMA FoundAt ==
  ASSUME NEW string \in Seq(Chars), NEW part \in Seq(Chars), Len(part) = 2, NEW from \in Nat
  PROVE  \A i : i \in Found(string, part, from)
                  <=> /\ i \in Nat /\ from <= i /\ i + 2 <= Len(string)
                      /\ SubSeq(string, i + 1, i + 2) = part
<1>1. Len(string) \in Nat
  OBVIOUS
<1>2. \A i : i \in from .. (Len(string) - 2) <=> i \in Nat /\ from <= i /\ i + 2 <= Len(string)
  BY <1>1
<1>3. QED
  BY <1>2, Zenon DEF Found

\* What is found are positions; a part found in the text is found in every longer
\* output, and what is found there lies in the text or reaches behind its end.
LEMMA FoundInLonger ==
  ASSUME NEW string \in Seq(Chars), NEW chunk \in Seq(Chars), NEW part \in Seq(Chars),
         Len(part) = 2, NEW from \in Nat
  PROVE  /\ Found(string, part, from) \subseteq Nat
         /\ \A i : i \in Found(string, part, from)
                     <=> i \in Found(string, part, 0) /\ i >= from
         /\ \A i : i \in Found(string, part, 0)
                     <=> i \in Found(string \o chunk, part, 0) /\ i + 2 <= Len(string)
<1> DEFINE output == string \o chunk
<1>1. /\ output \in Seq(Chars) /\ Len(string) \in Nat /\ Len(output) \in Nat
      /\ Len(string) <= Len(output)
  OBVIOUS
<1>2. ASSUME NEW i \in Nat, i + 2 <= Len(string)
      PROVE  SubSeq(output, i + 1, i + 2) = SubSeq(string, i + 1, i + 2)
  BY <1>1, <1>2
<1>3. \A i : i \in Found(string, part, from) => i \in Nat
  BY FoundAt
<1>4. \A i : i \in Found(string, part, from)
               <=> /\ i \in Nat /\ from <= i /\ i + 2 <= Len(string)
                   /\ SubSeq(string, i + 1, i + 2) = part
  BY FoundAt
<1>5. \A i : i \in Found(output, part, 0)
               <=> /\ i \in Nat /\ 0 <= i /\ i + 2 <= Len(output)
                   /\ SubSeq(output, i + 1, i + 2) = part
  BY <1>1, FoundAt
<1>6. \A i : i \in Found(string, part, 0)
               <=> /\ i \in Nat /\ 0 <= i /\ i + 2 <= Len(string)
                   /\ SubSeq(string, i + 1, i + 2) = part
  BY FoundAt
<1> HIDE DEF output
<1>7. ASSUME NEW i
      PROVE  /\ i \in Found(string, part, from)
                  <=> i \in Found(string, part, 0) /\ i >= from
             /\ i \in Found(string, part, 0)
                  <=> i \in Found(output, part, 0) /\ i + 2 <= Len(string)
  <2>1. CASE i \notin Nat
    BY <2>1, <1>4, <1>5, <1>6
  <2>2. CASE i \in Nat
    <3> 0 <= i
      BY <2>2
    <3>1. i \in Found(string, part, from)
            <=> from <= i /\ i + 2 <= Len(string) /\ SubSeq(string, i + 1, i + 2) = part
      BY <2>2, <1>4
    <3>2. i \in Found(string, part, 0)
            <=> i + 2 <= Len(string) /\ SubSeq(string, i + 1, i + 2) = part
      BY <2>2, <1>6, Zenon
    <3>3. i \in Found(output, part, 0)
            <=> i + 2 <= Len(output) /\ SubSeq(output, i + 1, i + 2) = part
      BY <2>2, <1>5, Zenon
    <3>4. i + 2 <= Len(string) => /\ SubSeq(output, i + 1, i + 2) = SubSeq(string, i + 1, i + 2)
                                  /\ i + 2 <= Len(output)
      BY <2>2, <1>1, <1>2
    <3>5. QED
      BY <2>2, <3>1, <3>2, <3>3, <3>4
  <2>3. QED
    BY <2>1, <2>2
<1>8. QED
  BY <1>3, <1>7 DEF output

LEMMA FindIsFound ==
  ASSUME NEW string \in Seq(Chars), NEW part \in Seq(Chars), Len(part) = 2, NEW from \in Nat
  PROVE  /\ Found(string, part, from) = {} => Find(string, part, from) = -1
         /\ Found(string, part, from) # {} =>
              /\ Find(string, part, from) \in Found(string, part, from)
              /\ Find(string, part, from) \in Nat
              /\ \A i \in Found(string, part, from) : Find(string, part, from) <= i
<1>1. Found(string, part, from) \in SUBSET Nat
  BY FoundInLonger
<1>2. QED
  BY <1>1, MinOfNaturals DEF Find

LEMMA Parts ==
  /\ Marker \in Seq(Chars) /\ Len(Marker) = 2
  /\ StopString \in Seq(Chars) /\ Len(StopString) = 2
  BY DEF Marker, StopString, Chars

-----------------------------------------------------------------------------
(* The invariant: the flag says whether the end of the reasoning was seen. *)

ClosedIsSeen ==
  request = "text" => (closed <=> armed /\ Found(text, Marker, 0) # {})
TextInv ==
  /\ text \in Seq(Chars) /\ armed \in BOOLEAN /\ closed \in BOOLEAN /\ stopped \in BOOLEAN
  /\ ClosedIsSeen
  /\ StopsExactlyAfterReasoning

LEMMA TextRequestKeeps ==
  ASSUME TextInv, NEW guard \in BOOLEAN, TextRequest(guard)
  PROVE  TextInv'
<1>1. /\ armed' = guard /\ closed' = FALSE /\ text' = <<>> /\ stopped' = FALSE
      /\ <<>> \in Seq(Chars)
  BY DEF TextRequest
<1>2. Found(<<>>, Marker, 0) = {} /\ Found(<<>>, StopString, 0) = {}
  BY <1>1, Parts DEF Found
<1>3. ClosedIsSeen' /\ StopsExactlyAfterReasoning'
  BY <1>1, <1>2, Zenon DEF ClosedIsSeen, StopsExactlyAfterReasoning
<1>4. QED
  BY <1>1, <1>3 DEF TextInv

LEMMA DetokenizeKeeps ==
  ASSUME TextInv, NEW chunk \in Seq(Chars), Detokenize(chunk)
  PROVE  TextInv'
<1> DEFINE output == text \o chunk
           L == Len(text)
           found == IF armed /\ ~ closed THEN Find(output, Marker, Window(L)) ELSE -1
           behind == IF found # -1 THEN OffsetBehind(L, found) ELSE L
           end == Find(output, Marker, 0)
           oldEnd == Find(text, Marker, 0)
           M == Found(output, Marker, 0)
           S == Found(output, StopString, 0)
<1>1. /\ text \in Seq(Chars) /\ output \in Seq(Chars) /\ L \in Nat
      /\ Len(output) \in Nat /\ L <= Len(output)
      /\ armed \in BOOLEAN /\ closed \in BOOLEAN
  BY DEF TextInv
<1>2. /\ text' = output /\ armed' = armed /\ request = "text" /\ request' = "text"
      /\ closed' = (closed \/ found # -1)
      /\ stopped' = ((~ armed \/ closed') /\ StopBehind(output, behind))
      /\ ~ stopped
  BY DEF Detokenize
<1>3. /\ M \subseteq Nat /\ S \subseteq Nat
      /\ \A i : i \in Found(text, Marker, 0) <=> i \in M /\ i + 2 <= L
      /\ \A i : i \in Found(text, StopString, 0) <=> i \in S /\ i + 2 <= L
  BY <1>1, Parts, FoundInLonger
<1>4. \A i \in S : i + 2 <= Len(output)
  BY <1>1, Parts DEF Found
<1>5. closed <=> armed /\ Found(text, Marker, 0) # {}
  BY <1>2 DEF TextInv, ClosedIsSeen
<1>6. Window(L) \in Nat /\ \A i \in Nat : i >= Window(L) <=> i + 2 > L
  <2>1. Window(L) = Max({0, L - 1})
    BY Parts DEF Window
  <2>2. Max({0, L - 1}) = IF 0 >= L - 1 THEN 0 ELSE L - 1
    BY <1>1, MaxOfTwo
  <2>3. Window(L) = IF 0 >= L - 1 THEN 0 ELSE L - 1
    BY <2>1, <2>2, Zenon
  <2> HIDE DEF L
  <2>4. QED
    BY <2>3, <1>1
\* The stops behind an offset.
<1>7. ASSUME NEW n \in Nat
      PROVE  StopBehind(output, n) <=> \E i \in S : i + 2 > n
  <2>1. /\ Max({0, n + 1 - Len(StopString)}) \in Nat
        /\ \A i \in Nat : i >= Max({0, n + 1 - Len(StopString)}) <=> i + 2 > n
    BY Parts, MaxOfTwo
  <2>2. \A i : i \in Found(output, StopString, Max({0, n + 1 - Len(StopString)}))
                 <=> i \in S /\ i >= Max({0, n + 1 - Len(StopString)})
    BY <2>1, <1>1, Parts, FoundInLonger
  <2>3. QED
    BY <2>1, <2>2, <1>3 DEF StopBehind
\* A marker that was not in the text reaches behind its end: the window has it.
<1>8. armed /\ ~ closed => found = end /\ \A i \in M : i + 2 > L
  <2> SUFFICES ASSUME armed, ~ closed
               PROVE  found = end /\ \A i \in M : i + 2 > L
    OBVIOUS
  <2>1. \A i \in M : i + 2 > L
    BY <1>1, <1>3, <1>5
  <2>2. \A i : i \in Found(output, Marker, Window(L)) <=> i \in M /\ i >= Window(L)
    BY <1>1, <1>6, Parts, FoundInLonger
  <2>3. Found(output, Marker, Window(L)) = M
    BY <2>1, <2>2, <1>3, <1>6
  <2>4. QED
    BY <2>1, <2>3 DEF Find
<1>9. /\ M = {} => end = -1
      /\ M # {} => end \in M /\ end \in Nat /\ \A i \in M : end <= i
  BY <1>1, Parts, FindIsFound
<1>10. closed' <=> armed /\ M # {}
  <2>1. CASE armed /\ ~ closed
    <3>1. found # -1 <=> M # {}
      BY <2>1, <1>8, <1>9
    <3>2. QED
      BY <2>1, <3>1, <1>2
  <2>2. CASE ~ armed \/ closed
    BY <2>2, <1>1, <1>2, <1>3, <1>5
  <2>3. QED
    BY <1>1, <2>1, <2>2
<1>11. \A i \in Found(text, StopString, 0) :
          ~ i + 2 > IF ~ armed THEN 0 ELSE IF oldEnd = -1 THEN L ELSE oldEnd + 2
  BY <1>2, Parts DEF TextInv, StopsExactlyAfterReasoning
<1>12. stopped' <=> \E i \in S : i + 2 > IF ~ armed THEN 0
                                         ELSE IF end = -1 THEN Len(output) ELSE end + 2
  <2>1. CASE ~ armed
    <3>1. ~ closed /\ found = -1 /\ behind = L
      BY <2>1, <1>5
    <3>2. stopped' <=> \E i \in S : i + 2 > L
      BY <2>1, <3>1, <1>1, <1>2, <1>7
    <3>3. \A i \in S : i + 2 > L
      BY <2>1, <1>1, <1>3, <1>11
    <3>4. QED
      BY <2>1, <3>2, <3>3, <1>3
  <2>2. CASE armed /\ ~ closed /\ M = {}
    BY <2>2, <1>1, <1>2, <1>3, <1>4, <1>9, <1>10
  <2>3. CASE armed /\ ~ closed /\ M # {}
    <3>1. end \in Nat /\ end + 2 > L /\ found = end
      BY <2>3, <1>8, <1>9
    <3>2. behind = end + 2 /\ end + 2 \in Nat
      <4>1. behind = Max({L, end + 2})
        <5>1. found # -1
          BY <3>1
        <5>2. behind = OffsetBehind(L, end)
          BY <3>1, <5>1, Zenon
        <5>3. QED
          BY <5>2, Parts, Zenon DEF OffsetBehind
      <4>2. Max({L, end + 2}) = IF L >= end + 2 THEN L ELSE end + 2
        BY <3>1, <1>1, MaxOfTwo
      <4>3. QED
        BY <3>1, <4>1, <4>2, <1>1
    <3>3. stopped' <=> \E i \in S : i + 2 > end + 2
      <4>1. stopped' <=> StopBehind(output, end + 2)
        BY <2>3, <3>2, <1>2, <1>10, Zenon
      <4>2. QED
        BY <3>2, <4>1, <1>7
    <3>4. QED
      BY <2>3, <3>1, <3>3
  <2>4. CASE armed /\ closed
    <3>1. M # {} /\ Found(text, Marker, 0) # {}
      BY <2>4, <1>3, <1>5
    <3>2. oldEnd \in Found(text, Marker, 0) /\ oldEnd \in Nat
      BY <3>1, <1>1, Parts, FindIsFound
    <3>3. end \in Nat /\ end + 2 <= L /\ end = oldEnd
      <4>1. end \in M /\ end \in Nat /\ end <= oldEnd
        BY <3>1, <3>2, <1>3, <1>9
      <4>2. end \in Found(text, Marker, 0)
        BY <4>1, <3>2, <1>1, <1>3
      <4>3. oldEnd <= end
        BY <4>2, <3>1, <1>1, Parts, FindIsFound
      <4>4. QED
        BY <4>1, <4>2, <4>3, <3>2, <1>3
    <3>4. found = -1 /\ behind = L
      BY <2>4
    <3>5. stopped' <=> \E i \in S : i + 2 > L
      BY <2>4, <3>4, <1>1, <1>2, <1>7
    <3>6. \A i \in S : i + 2 > end + 2 => i + 2 > L
      BY <2>4, <3>2, <3>3, <1>1, <1>3, <1>11
    <3>7. \A i \in S : i + 2 > L => i + 2 > end + 2
      BY <3>3, <1>1, <1>3
    <3>8. QED
      BY <2>4, <3>3, <3>5, <3>6, <3>7
  <2>5. QED
    BY <1>1, <2>1, <2>2, <2>3, <2>4
<1>13. closed' \in BOOLEAN /\ stopped' \in BOOLEAN
  BY <1>2
<1>14. StopsExactlyAfterReasoning'
  BY <1>2, <1>12, Parts DEF StopsExactlyAfterReasoning
<1>15. QED
  BY <1>1, <1>2, <1>10, <1>13, <1>14 DEF TextInv, ClosedIsSeen

\* Steps that do not touch the text, and leave a text request one.
LEMMA UntouchedKeeps ==
  ASSUME TextInv, UNCHANGED textVars, request' = "text" => request = "text"
  PROVE  TextInv'
  BY DEF TextInv, textVars, ClosedIsSeen, StopsExactlyAfterReasoning

LEMMA TextAlways == Spec => []TextInv
<1>1. Init => TextInv
  <2> SUFFICES ASSUME Init
               PROVE  TextInv
    OBVIOUS
  <2>1. /\ request = "none" /\ text = <<>> /\ <<>> \in Seq(Chars)
        /\ armed = FALSE /\ closed = FALSE /\ stopped = FALSE
    BY DEF Init, DecodingInit
  <2>2. request # "text"
    BY <2>1
  <2>3. QED
    BY <2>1, <2>2, Zenon DEF TextInv, ClosedIsSeen, StopsExactlyAfterReasoning
<1>2. TextInv /\ [Next]_vars => TextInv'
  <2> SUFFICES ASSUME TextInv, [Next]_vars
               PROVE  TextInv'
    OBVIOUS
  <2>1. CASE Entry \/ LoadEngine \/ Engine \/ UNCHANGED vars
    <3>1. UNCHANGED textVars /\ request' = request
      BY <2>1 DEF Entry, LoadEngine, Engine, vars, decodingVars, textVars
    <3>2. QED
      BY <3>1, UntouchedKeeps
  <2>2. ASSUME DecodingStep
        PROVE  TextInv'
    <3>1. ASSUME NEW yes \in BOOLEAN, TextRequest(yes)
          PROVE  TextInv'
      BY <3>1, TextRequestKeeps
    <3>2. ASSUME NEW chunk \in UpTo(Chars, MaxChunk), Detokenize(chunk)
          PROVE  TextInv'
      <4>1. chunk \in Seq(Chars)
        BY DEF UpTo
      <4>2. QED
        BY <4>1, <3>2, DetokenizeKeeps
    <3>3. CASE (\E yes \in BOOLEAN : StructuredRequest(yes)) \/ FillBitmask \/ ResetGrammar
      <4>1. UNCHANGED textVars /\ (request' = "text" => request = "text")
        BY <3>3 DEF StructuredRequest, FillBitmask, ResetGrammar
      <4>2. QED
        BY <4>1, UntouchedKeeps
    <3>4. CASE \/ \E proposed \in UpTo(Tokens, MaxChunk) : Draft(proposed)
               \/ \E tokens \in UpTo(Tokens, MaxChunk + 1), stops \in BOOLEAN :
                    Sample(tokens, stops)
      <4>1. UNCHANGED textVars /\ request' = request
        BY <3>4 DEF Draft, Sample
      <4>2. QED
        BY <4>1, UntouchedKeeps
    <3>5. QED
      BY <2>2, <3>1, <3>2, <3>3, <3>4 DEF DecodingStep
  <2>3. QED
    BY <2>1, <2>2 DEF Next, Serve
<1>3. QED
  BY <1>1, <1>2, PTL DEF Spec

\* However the output is cut into chunks, of any length, a stop string ends the
\* request exactly when it is completed behind the end of the reasoning
\* (patch_suppress_stops_in_reasoning.py:143-161).
THEOREM StopsAreExact == Spec => []StopsExactlyAfterReasoning
<1>1. TextInv => StopsExactlyAfterReasoning
  BY DEF TextInv
<1>2. QED
  BY <1>1, TextAlways, PTL

-----------------------------------------------------------------------------
(* What the grammar accepts.                                               *)

Accepts == {"g", "E"}
GrammarStates == [matcher : Seq(Accepts), isTerminated : BOOLEAN, processed : Nat]
Complaints == {"given a token after termination"}
Calls == [g : GrammarStates, on : BOOLEAN, ok : BOOLEAN, bad : SUBSET Complaints]

\* The flag and the count of g are its matcher's.
Agrees(g) == g.isTerminated = Over(g.matcher) /\ g.processed = Len(g.matcher)

Begins(m, w) == Len(m) <= Len(w) /\ \A j \in 1 .. Len(m) : w[j] = m[j]

\* The bitmask lets only tokens of the grammar through, up to its end.
Obeyed(m, part) ==
  \A i \in 1 .. Len(part) :
    (\A j \in 1 .. (i - 1) : part[j] # "E") /\ ~ Over(m) =>
      Allows(m \o SubSeq(part, 1, i - 1), part[i])

LEMMA OneMore ==
  ASSUME NEW m \in Seq(Accepts), NEW t, Allows(m, t)
  PROVE  /\ Append(m, t) \in Seq(Accepts) /\ Len(Append(m, t)) = Len(m) + 1
         /\ \A j \in 1 .. Len(m) : Append(m, t)[j] = m[j]
         /\ Over(Append(m, t)) <=> t = "E"
         /\ ~ Over(m) /\ Over(m) \in BOOLEAN /\ Over(Append(m, t)) \in BOOLEAN
<1>1. t \in Accepts /\ ~ Over(m)
  BY DEF Allows, Accepts
<1>2. /\ Append(m, t) \in Seq(Accepts) /\ Len(Append(m, t)) = Len(m) + 1
      /\ \A j \in 1 .. Len(m) : Append(m, t)[j] = m[j]
      /\ Append(m, t)[Len(m) + 1] = t /\ Append(m, t) # <<>>
  BY <1>1
<1>3. Over(Append(m, t)) <=> t = "E"
  BY <1>2 DEF Over, Last
<1>4. Over(m) \in BOOLEAN /\ Over(Append(m, t)) \in BOOLEAN
  BY DEF Over
<1>5. QED
  BY <1>1, <1>2, <1>3, <1>4

\* accept_tokens, token by token, after n tokens of part.
Taken(m, part, n, r) ==
  /\ r \in Calls /\ Agrees(r.g) /\ Begins(m, r.g.matcher)
  /\ r.on => ~ Over(r.g.matcher)
  /\ Obeyed(m, part) =>
       /\ r.ok /\ r.bad = {}
       /\ r.on => /\ r.g.matcher = m \o SubSeq(part, 1, n)
                  /\ ~ Over(m) /\ \A j \in 1 .. n : part[j] # "E"

LEMMA AcceptOneInCalls ==
  ASSUME NEW r \in Calls, NEW t
  PROVE  AcceptOne(r, t) \in Calls
<1> DEFINE m == Append(r.g.matcher, t)
<1>1. CASE ~ r.on
  BY <1>1 DEF AcceptOne
<1>2. CASE r.on /\ ~ Allows(r.g.matcher, t)
  <2>1. AcceptOne(r, t) = [r EXCEPT !.on = FALSE, !.ok = FALSE,
                                    !.bad = @ \cup Misfed(r.g.matcher)]
    BY <1>2 DEF AcceptOne
  <2>2. Misfed(r.g.matcher) \subseteq Complaints
    BY DEF Misfed, Complaints
  <2>3. QED
    BY <2>1, <2>2 DEF Calls
<1>3. CASE r.on /\ Allows(r.g.matcher, t)
  <2>1. AcceptOne(r, t) =
          [r EXCEPT !.on = ~ Over(m),
                    !.g = [matcher |-> m, isTerminated |-> Over(m), processed |-> @.processed + 1]]
    BY <1>3 DEF AcceptOne
  <2>2. r.g.matcher \in Seq(Accepts) /\ r.g.processed + 1 \in Nat
    BY DEF Calls, GrammarStates
  <2>3. m \in Seq(Accepts) /\ Over(m) \in BOOLEAN
    BY <1>3, <2>2, OneMore
  <2> HIDE DEF m
  <2>4. [matcher |-> m, isTerminated |-> Over(m), processed |-> r.g.processed + 1] \in GrammarStates
    BY <2>2, <2>3 DEF GrammarStates
  <2>5. QED
    BY <2>1, <2>3, <2>4 DEF Calls
<1>4. QED
  BY <1>1, <1>2, <1>3

LEMMA AcceptOneTakes ==
  ASSUME NEW m \in Seq(Accepts), NEW part \in Seq(Tokens), NEW n \in 1 .. Len(part),
         NEW r, Taken(m, part, n - 1, r)
  PROVE  Taken(m, part, n, AcceptOne(r, part[n]))
<1> DEFINE t == part[n]
           w == r.g.matcher
           a == AcceptOne(r, t)
<1>1. r \in Calls /\ w \in Seq(Accepts) /\ r.g.processed = Len(w) /\ Len(m) <= Len(w)
  BY DEF Taken, Calls, GrammarStates, Agrees, Begins
<1>2. a \in Calls
  BY <1>1, AcceptOneInCalls
<1>3. CASE ~ r.on
  <2>1. a = r
    BY <1>3 DEF AcceptOne
  <2>2. QED
    BY <1>3, <2>1 DEF Taken
<1>4. /\ n - 1 \in 0 .. Len(part) /\ \A j \in 1 .. n : j = n \/ j \in 1 .. (n - 1)
      /\ n \in 1 .. Len(part) /\ n \in Nat
  OBVIOUS
<1>5. Obeyed(m, part) /\ r.on => Allows(w, t)
  <2> SUFFICES ASSUME Obeyed(m, part), r.on
               PROVE  Allows(w, t)
    OBVIOUS
  <2>1. w = m \o SubSeq(part, 1, n - 1) /\ ~ Over(m) /\ \A j \in 1 .. (n - 1) : part[j] # "E"
    BY DEF Taken
  <2>2. QED
    BY <2>1, <1>4 DEF Obeyed
<1>6. CASE r.on /\ ~ Allows(w, t)
  <2>1. a = [r EXCEPT !.on = FALSE, !.ok = FALSE, !.bad = @ \cup Misfed(w)]
    BY <1>6 DEF AcceptOne
  <2>2. a.g = r.g /\ ~ a.on
    BY <1>1, <2>1 DEF Calls
  <2>3. ~ Obeyed(m, part)
    BY <1>5, <1>6
  <2> HIDE DEF a
  <2>4. QED
    BY <1>2, <2>2, <2>3 DEF Taken, a
<1>7. CASE r.on /\ Allows(w, t)
  <2> DEFINE v == Append(w, t)
  <2>1. a = [r EXCEPT !.on = ~ Over(v),
                      !.g = [matcher |-> v, isTerminated |-> Over(v), processed |-> @.processed + 1]]
    BY <1>7 DEF AcceptOne
  <2>2. /\ v \in Seq(Accepts) /\ Len(v) = Len(w) + 1 /\ \A j \in 1 .. Len(w) : v[j] = w[j]
        /\ Over(v) <=> t = "E"
    BY <1>1, <1>7, OneMore
  <2> HIDE DEF v
  <2>3. /\ a.on = (~ Over(v)) /\ a.g.matcher = v /\ a.g.isTerminated = Over(v)
        /\ a.g.processed = r.g.processed + 1 /\ a.ok = r.ok /\ a.bad = r.bad
    BY <1>1, <2>1 DEF Calls
  <2> HIDE DEF a
  <2>4. Agrees(a.g)
    BY <1>1, <2>2, <2>3 DEF Agrees
  <2>5. Begins(m, v)
    <3>1. Begins(m, w) /\ Len(m) \in Nat /\ Len(w) \in Nat
      BY <1>1 DEF Taken
    <3>2. QED
      BY <2>2, <3>1 DEF Begins
  <2>6. ASSUME Obeyed(m, part), a.on
        PROVE  v = m \o SubSeq(part, 1, n) /\ ~ Over(m) /\ \A j \in 1 .. n : part[j] # "E"
    <3>1. w = m \o SubSeq(part, 1, n - 1) /\ ~ Over(m) /\ \A j \in 1 .. (n - 1) : part[j] # "E"
      BY <1>7, <2>6 DEF Taken
    <3>2. v = m \o SubSeq(part, 1, n)
      <4>1. SubSeq(part, 1, n) = Append(SubSeq(part, 1, n - 1), t)
        BY <1>4
      <4>2. m \o Append(SubSeq(part, 1, n - 1), t) = Append(m \o SubSeq(part, 1, n - 1), t)
        <5>1. SubSeq(part, 1, n - 1) \in Seq(Tokens) /\ t \in Tokens
          BY <1>4
        <5> DEFINE u == SubSeq(part, 1, n - 1)
        <5> HIDE DEF u, t
        <5>2. m \in Seq(Accepts \cup Tokens) /\ u \in Seq(Accepts \cup Tokens)
          BY <5>1 DEF u
        <5>3. m \o Append(u, t) = Append(m \o u, t)
          BY <5>1, <5>2
        <5>4. QED
          BY <5>3 DEF u
      <4>3. QED
        BY <3>1, <4>1, <4>2 DEF v
    <3>3. QED
      BY <2>2, <2>3, <2>6, <3>1, <3>2, <1>4
  <2>7. QED
    BY <1>2, <1>7, <2>3, <2>4, <2>5, <2>6 DEF Taken, a
<1>8. QED
  BY <1>3, <1>6, <1>7

LEMMA AcceptTokensTakes ==
  ASSUME NEW g \in GrammarStates, Agrees(g), NEW part \in Seq(Tokens)
  PROVE  Taken(g.matcher, part, Len(part), AcceptTokens(g, part))
<1> DEFINE N == Len(part)
           m == g.matcher
           next == [k \in 1 .. N |-> [r \in Calls |-> AcceptOne(r, part[k])]]
           Body(h) == [n \in 0 .. Len(part) |->
                         IF n = 0 THEN Begin(g) ELSE AcceptOne(h[n - 1], part[n])]
           after == CHOOSE h : h = Body(h)
           S == {k \in 0 .. N : Taken(m, part, k, after[k])}
<1>1. N \in Nat /\ m \in Seq(Accepts) /\ g.isTerminated \in BOOLEAN
  BY DEF GrammarStates
<1>2. Begin(g) \in Calls
  BY DEF Begin, Calls
<1>3. \A k \in 1 .. N : \A r \in Calls : next[k][r] = AcceptOne(r, part[k]) /\ next[k][r] \in Calls
  BY AcceptOneInCalls
<1> HIDE DEF next
<1>4. PICK f \in [0 .. N -> Calls] : f[0] = Begin(g) /\ \A k \in 1 .. N : f[k] = next[k][f[k - 1]]
  <2>1. \A k \in 1 .. N : \A r \in Calls : next[k][r] \in Calls
    BY <1>3
  <2>2. Iterable(N, Calls, Begin(g), next)
    BY <1>1, <1>2, <2>1 DEF Iterable
  <2> HIDE DEF N
  <2>3. QED
    BY <2>2, Iteration
<1>5. \A k \in 1 .. N : k \in 0 .. N /\ k - 1 \in 0 .. N /\ k # 0
  BY <1>1
<1>6. f = Body(f)
  <2>1. \A k \in 1 .. N : f[k] = AcceptOne(f[k - 1], part[k])
    BY <1>3, <1>4, <1>5
  <2>2. \A k \in 0 .. N : k = 0 \/ k \in 1 .. N
    BY <1>1
  <2>3. QED
    BY <1>4, <2>1, <2>2
<1>7. after = Body(after)
  <2> HIDE DEF Body
  <2>1. QED
    BY <1>6
<1>8. AcceptTokens(g, part) = after[Len(part)]
  BY Zenon DEF AcceptTokens
<1> HIDE DEF after
<1>9. /\ after[0] = Begin(g) /\ 0 \in 0 .. N
      /\ \A k \in 1 .. N : after[k] = AcceptOne(after[k - 1], part[k])
  <2>1. \A k \in 0 .. N : after[k] = IF k = 0 THEN Begin(g) ELSE AcceptOne(after[k - 1], part[k])
    BY <1>7, Zenon
  <2>2. 0 \in 0 .. N
    BY <1>1
  <2>3. QED
    BY <1>5, <2>1, <2>2
<1>10. Taken(m, part, 0, Begin(g))
  <2>1. /\ Begin(g).g = g /\ Begin(g).on = ~ g.isTerminated /\ Begin(g).ok /\ Begin(g).bad = {}
    BY DEF Begin
  <2>2. m = m \o SubSeq(part, 1, 0)
    BY <1>1
  <2>3. Begins(m, m)
    BY <1>1 DEF Begins
  <2>4. g.isTerminated = Over(m)
    BY DEF Agrees
  <2>5. \A j \in 1 .. 0 : part[j] # "E"
    OBVIOUS
  <2> HIDE DEF m
  <2>6. QED
    BY <1>2, <2>1, <2>2, <2>3, <2>4, <2>5 DEF Taken, m
<1>11. 0 \in S
  BY <1>9, <1>10
<1>12. ASSUME NEW k \in 1 .. N, k - 1 \in S
       PROVE  k \in S
  <2>1. Taken(m, part, k - 1, after[k - 1])
    BY <1>12
  <2>2. Taken(m, part, k, AcceptOne(after[k - 1], part[k]))
    BY <1>1, <2>1, AcceptOneTakes
  <2>3. QED
    BY <1>5, <1>9, <2>2
<1> HIDE DEF S
<1>13. \A k \in 0 .. N : k \in S
  BY <1>1, <1>11, <1>12, UpToInduction
<1>14. N \in S
  BY <1>1, <1>13
<1>15. QED
  BY <1>8, <1>14 DEF S

\* One token that the matcher allows is accepted.
LEMMA AcceptTokensOne ==
  ASSUME NEW g \in GrammarStates, Agrees(g), NEW t \in Tokens, Allows(g.matcher, t)
  PROVE  /\ AcceptTokens(g, <<t>>).ok /\ AcceptTokens(g, <<t>>).bad = {}
         /\ AcceptTokens(g, <<t>>).g =
              [matcher |-> Append(g.matcher, t), isTerminated |-> Over(Append(g.matcher, t)),
               processed |-> g.processed + 1]
<1> DEFINE Body(h) == [n \in 0 .. Len(<<t>>) |->
                         IF n = 0 THEN Begin(g) ELSE AcceptOne(h[n - 1], <<t>>[n])]
           after == CHOOSE h : h = Body(h)
           one == [n \in 0 .. 1 |-> IF n = 0 THEN Begin(g) ELSE AcceptOne(Begin(g), t)]
<1>1. one = Body(one)
  OBVIOUS
<1>2. after = Body(after)
  <2> HIDE DEF Body, one
  <2>1. QED
    BY <1>1
<1>3. AcceptTokens(g, <<t>>) = after[Len(<<t>>)]
  BY Zenon DEF AcceptTokens
<1> HIDE DEF after
<1>4. Len(<<t>>) = 1 /\ <<t>>[1] = t
  OBVIOUS
<1>5. after[1] = AcceptOne(after[0], t) /\ after[0] = Begin(g)
  <2>1. \A n \in 0 .. 1 : after[n] = IF n = 0 THEN Begin(g) ELSE AcceptOne(after[n - 1], <<t>>[n])
    BY <1>2, <1>4
  <2>2. QED
    BY <2>1, <1>4
<1>6. Begin(g).on /\ Begin(g).g = g /\ Begin(g).ok /\ Begin(g).bad = {}
  BY OneMore DEF Begin, Agrees, GrammarStates
<1>7. AcceptTokens(g, <<t>>) = AcceptOne(Begin(g), t) /\ Begin(g) \in Calls
  BY <1>3, <1>4, <1>5 DEF Begin, Calls, GrammarStates
<1> DEFINE v == Append(g.matcher, t)
<1>8. AcceptOne(Begin(g), t) =
        [Begin(g) EXCEPT !.on = ~ Over(v),
                         !.g = [matcher |-> v, isTerminated |-> Over(v),
                                processed |-> @.processed + 1]]
  BY <1>6 DEF AcceptOne
<1> HIDE DEF v
<1>9. QED
  BY <1>6, <1>7, <1>8 DEF Calls, v

-----------------------------------------------------------------------------
(* What the manager validates, and where its window takes the grammar.     *)

\* The matcher allows the tokens one after the other.
Passes(m, tokens) == \A i \in 1 .. Len(tokens) : Allows(m \o SubSeq(tokens, 1, i - 1), tokens[i])

LEMMA ValidatedPass ==
  ASSUME NEW g, NEW tokens \in Seq(Tokens)
  PROVE  ValidateTokens(g, tokens) \in Seq(Tokens) /\ Passes(g.matcher, ValidateTokens(g, tokens))
<1> DEFINE S == {n \in 0 .. Len(tokens) :
                   \A i \in 1 .. n : Allows(g.matcher \o SubSeq(tokens, 1, i - 1), tokens[i])}
           k == Accepted(g.matcher, tokens)
           v == SubSeq(tokens, 1, k)
<1>1. k \in S
  <2>1. S \in SUBSET (0 .. Len(tokens)) /\ 0 \in S /\ Len(tokens) \in Nat
    OBVIOUS
  <2>2. k = Max(S)
    BY DEF Accepted
  <2> HIDE DEF S, k
  <2>3. QED
    BY <2>1, <2>2, MaxOfNaturals
<1>2. k \in 0 .. Len(tokens)
  BY <1>1
<1> HIDE DEF k
<1>3. v \in Seq(Tokens) /\ Len(v) = k /\ \A i \in 1 .. k : v[i] = tokens[i]
  BY <1>2
<1>4. \A i \in 1 .. k : SubSeq(v, 1, i - 1) = SubSeq(tokens, 1, i - 1)
  <2> SUFFICES ASSUME NEW i \in 1 .. k
               PROVE  SubSeq(v, 1, i - 1) = SubSeq(tokens, 1, i - 1)
    OBVIOUS
  <2>1. /\ SubSeq(v, 1, i - 1) \in Seq(Tokens) /\ Len(SubSeq(v, 1, i - 1)) = i - 1
        /\ SubSeq(tokens, 1, i - 1) \in Seq(Tokens) /\ Len(SubSeq(tokens, 1, i - 1)) = i - 1
        /\ \A j \in 1 .. (i - 1) : SubSeq(v, 1, i - 1)[j] = SubSeq(tokens, 1, i - 1)[j]
    BY <1>2, <1>3
  <2>2. QED
    BY <2>1, SeqEqual
<1>5. Passes(g.matcher, v)
  BY <1>1, <1>3, <1>4 DEF Passes
<1>6. <<>> \in Seq(Tokens) /\ Passes(g.matcher, <<>>)
  BY DEF Passes
<1>7. QED
  BY <1>3, <1>5, <1>6 DEF ValidateTokens, k

LEMMA ValidatedOne ==
  ASSUME NEW g \in GrammarStates, NEW t \in Tokens, ValidateTokens(g, <<t>>) # <<>>
  PROVE  Allows(g.matcher, t)
<1> DEFINE v == ValidateTokens(g, <<t>>)
           k == Accepted(g.matcher, <<t>>)
<1>1. <<t>> \in Seq(Tokens) /\ Len(<<t>>) = 1
  OBVIOUS
<1>2. v \in Seq(Tokens) /\ Passes(g.matcher, v)
  BY <1>1, ValidatedPass
<1>3. v = SubSeq(<<t>>, 1, k)
  BY DEF ValidateTokens
<1>4. k \in 0 .. 1
  <2> DEFINE S == {n \in 0 .. Len(<<t>>) :
                   \A i \in 1 .. n : Allows(g.matcher \o SubSeq(<<t>>, 1, i - 1), <<t>>[i])}
  <2>1. S \in SUBSET (0 .. 1) /\ 0 \in S /\ 1 \in Nat
    BY <1>1
  <2>2. k = Max(S)
    BY DEF Accepted
  <2> HIDE DEF S, k
  <2>3. QED
    BY <2>1, <2>2, MaxOfNaturals
<1>5. k = 1
  BY <1>3, <1>4
<1>6. v = <<t>>
  <2> HIDE DEF k
  <2>1. v = SubSeq(<<t>>, 1, 1)
    BY <1>3, <1>5
  <2>2. SubSeq(<<t>>, 1, 1) = <<t>>
    <3>1. <<t>> \in Seq(Tokens) /\ Len(<<t>>) = 1 /\ <<t>>[1] = t
      OBVIOUS
    <3> DEFINE one == <<t>>
    <3> HIDE DEF one
    <3>2. /\ SubSeq(one, 1, 1) \in Seq(Tokens) /\ Len(SubSeq(one, 1, 1)) = 1
          /\ SubSeq(one, 1, 1)[1] = one[1]
      BY <3>1 DEF one
    <3>3. one \in Seq(Tokens) /\ Len(one) = 1 /\ \A i \in 1 .. 1 : i = 1
      BY <3>1 DEF one
    <3>4. SubSeq(one, 1, 1) = one
      BY <3>2, <3>3, SeqEqual
    <3>5. QED
      BY <3>4 DEF one
  <2>3. QED
    BY <2>1, <2>2, Zenon
<1>7. g.matcher \o SubSeq(<<t>>, 1, 0) = g.matcher
  BY DEF GrammarStates
<1> HIDE DEF v
<1>8. Allows(g.matcher \o SubSeq(<<t>>, 1, 1 - 1), <<t>>[1])
  <2>1. Passes(g.matcher, <<t>>) /\ 1 \in 1 .. Len(<<t>>)
    BY <1>1, <1>2, <1>6
  <2>2. QED
    BY <2>1, Zenon DEF Passes
<1>9. 1 - 1 = 0 /\ <<t>>[1] = t
  OBVIOUS
<1>10. QED
  BY <1>7, <1>8, <1>9, Zenon

Walks ==
  {r \in [g : GrammarStates, bad : SUBSET (Complaints \cup {"failed to advance"})] : Agrees(r.g)}

LEMMA AdvanceInWalks ==
  ASSUME NEW r \in Walks, NEW t \in Tokens, NEW behindEnd
  PROVE  Advance(r, t, behindEnd) \in Walks
<1> DEFINE a == AcceptTokens(r.g, <<t>>)
           lost == IF a.ok THEN {} ELSE {"failed to advance"}
           w == [g |-> a.g, bad |-> r.bad \cup a.bad \cup lost]
<1>1. r.g \in GrammarStates /\ Agrees(r.g) /\ r.bad \subseteq Complaints \cup {"failed to advance"}
  BY DEF Walks
<1>2. a.g \in GrammarStates /\ a.bad \subseteq Complaints /\ Agrees(a.g)
  <2>1. <<t>> \in Seq(Tokens)
    OBVIOUS
  <2>2. a \in Calls /\ Agrees(a.g)
    BY <1>1, <2>1, AcceptTokensTakes DEF Taken
  <2>3. QED
    BY <2>2 DEF Calls
<1>3. Advance(r, t, behindEnd) \in {r, w}
  BY DEF Advance
<1> HIDE DEF a
<1>4. w \in Walks
  BY <1>1, <1>2 DEF Walks
<1>5. QED
  BY <1>3, <1>4

LEMMA AdvanceKeeps ==
  ASSUME NEW r \in Walks, r.bad = {}, NEW t \in Tokens, NEW behindEnd \in BOOLEAN,
         behindEnd \/ Allows(r.g.matcher, t)
  PROVE  /\ Advance(r, t, behindEnd).bad = {}
         /\ Begins(r.g.matcher, Advance(r, t, behindEnd).g.matcher)
         /\ ~ behindEnd => Advance(r, t, behindEnd).g.matcher = Append(r.g.matcher, t)
<1> DEFINE a == AcceptTokens(r.g, <<t>>)
           lost == IF a.ok THEN {} ELSE {"failed to advance"}
           invalid == behindEnd /\ ValidateTokens(r.g, <<t>>) = <<>>
           m == r.g.matcher
<1>1. r.g \in GrammarStates /\ Agrees(r.g) /\ m \in Seq(Accepts)
  BY DEF Walks, GrammarStates
<1>2. CASE r.g.isTerminated \/ invalid
  <2>1. Advance(r, t, behindEnd) = r
    BY <1>2 DEF Advance
  <2>2. behindEnd
    <3>1. Allows(m, t) => ~ r.g.isTerminated
      BY <1>1, OneMore DEF Agrees
    <3>2. QED
      BY <1>2, <3>1
  <2>3. Begins(m, m)
    BY <1>1 DEF Begins
  <2>4. QED
    BY <2>1, <2>2, <2>3
<1>3. CASE ~ (r.g.isTerminated \/ invalid)
  <2>1. Advance(r, t, behindEnd) = [g |-> a.g, bad |-> r.bad \cup a.bad \cup lost]
    BY <1>3 DEF Advance
  <2>2. Allows(m, t)
    BY <1>1, <1>3, ValidatedOne
  <2>3. a.ok /\ a.bad = {} /\ a.g.matcher = Append(m, t)
    <3>1. /\ a.ok /\ a.bad = {}
          /\ a.g = [matcher |-> Append(m, t), isTerminated |-> Over(Append(m, t)),
                    processed |-> r.g.processed + 1]
      BY <1>1, <2>2, AcceptTokensOne, Zenon
    <3> HIDE DEF a
    <3>2. QED
      BY <3>1
  <2>4. Begins(m, Append(m, t))
    BY <1>1, <2>2, OneMore DEF Begins
  <2>5. r.bad \cup a.bad \cup lost = {}
    BY <2>3
  <2> HIDE DEF a, lost, m
  <2>6. /\ Advance(r, t, behindEnd).bad = {}
        /\ Advance(r, t, behindEnd).g.matcher = Append(m, t)
    BY <2>1, <2>3, <2>5
  <2>7. QED
    BY <2>4, <2>6 DEF m
<1>4. QED
  BY <1>2, <1>3

LEMMA BeginsIsTransitive ==
  ASSUME NEW u \in Seq(Accepts), NEW v \in Seq(Accepts), NEW w \in Seq(Accepts),
         Begins(u, v), Begins(v, w)
  PROVE  Begins(u, w)
  BY DEF Begins

LEMMA OnePastPrefix ==
  ASSUME NEW m \in Seq(Accepts), NEW part \in Seq(Tokens), NEW n \in 1 .. Len(part)
  PROVE  m \o SubSeq(part, 1, n) = Append(m \o SubSeq(part, 1, n - 1), part[n])
<1> DEFINE u == SubSeq(part, 1, n - 1)
           t == part[n]
<1>1. SubSeq(part, 1, n) = Append(u, t) /\ u \in Seq(Tokens) /\ t \in Tokens
  OBVIOUS
<1> HIDE DEF u, t
<1>2. m \in Seq(Accepts \cup Tokens) /\ u \in Seq(Accepts \cup Tokens)
  BY <1>1
<1>3. m \o Append(u, t) = Append(m \o u, t)
  BY <1>1, <1>2
<1>4. QED
  BY <1>1, <1>3 DEF u, t

\* Over the drafts of a window the matcher is only ever extended, and nothing goes
\* wrong: the drafts were validated, or are as the manager comes to them.
LEMMA AdvanceOverKeeps ==
  ASSUME Grammar \in GrammarStates, Agrees(Grammar), inReasoning \in BOOLEAN,
         NEW part \in Seq(Tokens), ~ inReasoning => Passes(matcher, part)
  PROVE  /\ AdvanceOver(part) \in Walks /\ AdvanceOver(part).bad = {}
         /\ Begins(matcher, AdvanceOver(part).g.matcher)
<1> DEFINE N == Len(part)
           base == [g |-> Grammar, bad |-> {}]
           next == [k \in 1 .. N |-> [r \in Walks |-> Advance(r, part[k], inReasoning)]]
           Body(h) == [n \in 0 .. Len(part) |->
                         IF n = 0 THEN [g |-> Grammar, bad |-> {}]
                         ELSE Advance(h[n - 1], part[n], inReasoning)]
           after == CHOOSE h : h = Body(h)
           Good(k, r) == /\ r \in Walks /\ r.bad = {} /\ Begins(matcher, r.g.matcher)
                         /\ ~ inReasoning => r.g.matcher = matcher \o SubSeq(part, 1, k)
           S == {k \in 0 .. N : Good(k, after[k])}
<1>1. N \in Nat /\ matcher \in Seq(Accepts) /\ Grammar.matcher = matcher
  BY DEF Grammar, GrammarStates
<1>2. base \in Walks
  BY DEF Walks
<1>3. \A k \in 1 .. N : \A r \in Walks : /\ next[k][r] = Advance(r, part[k], inReasoning)
                                         /\ next[k][r] \in Walks
  BY AdvanceInWalks
<1> HIDE DEF next, base
<1>4. PICK f \in [0 .. N -> Walks] : f[0] = base /\ \A k \in 1 .. N : f[k] = next[k][f[k - 1]]
  <2>1. \A k \in 1 .. N : \A r \in Walks : next[k][r] \in Walks
    BY <1>3
  <2>2. Iterable(N, Walks, base, next)
    BY <1>1, <1>2, <2>1 DEF Iterable
  <2> HIDE DEF N
  <2>3. QED
    BY <2>2, Iteration
<1>5. \A k \in 1 .. N : k \in 0 .. N /\ k - 1 \in 0 .. N /\ k # 0
  BY <1>1
<1>6. f = Body(f)
  <2>1. \A k \in 1 .. N : f[k] = Advance(f[k - 1], part[k], inReasoning)
    BY <1>3, <1>4, <1>5
  <2>2. \A k \in 0 .. N : k = 0 \/ k \in 1 .. N
    BY <1>1
  <2>3. QED
    BY <1>4, <2>1, <2>2 DEF base
<1>7. after = Body(after)
  <2> HIDE DEF Body
  <2>1. QED
    BY <1>6
<1>8. AdvanceOver(part) = after[Len(part)]
  BY Zenon DEF AdvanceOver
<1> HIDE DEF after
<1>9. /\ after[0] = base /\ 0 \in 0 .. N
      /\ \A k \in 1 .. N : after[k] = Advance(after[k - 1], part[k], inReasoning)
  <2>1. \A k \in 0 .. N : after[k] = IF k = 0 THEN base
                                     ELSE Advance(after[k - 1], part[k], inReasoning)
    BY <1>7, Zenon DEF base
  <2>2. 0 \in 0 .. N
    BY <1>1
  <2>3. QED
    BY <1>5, <2>1, <2>2
<1>10. 0 \in S
  <2>1. matcher = matcher \o SubSeq(part, 1, 0)
    BY <1>1
  <2>2. base.g.matcher = matcher /\ base.bad = {}
    BY <1>1 DEF base
  <2>3. Begins(matcher, matcher)
    BY <1>1 DEF Begins
  <2>4. QED
    BY <1>2, <1>9, <2>1, <2>2, <2>3
<1>11. ASSUME NEW k \in 1 .. N, k - 1 \in S
       PROVE  k \in S
  <2> DEFINE r == after[k - 1]
             t == part[k]
             a == Advance(r, t, inReasoning)
  <2>1. Good(k - 1, r)
    BY <1>11
  <2>2. t \in Tokens /\ r.g.matcher \in Seq(Accepts)
    <3>1. t \in Tokens
      OBVIOUS
    <3>2. r \in Walks
      BY <2>1
    <3> HIDE DEF r
    <3>3. r.g.matcher \in Seq(Accepts)
      BY <3>2 DEF Walks, GrammarStates
    <3>4. QED
      BY <3>1, <3>3
  <2>3. ~ inReasoning => Allows(r.g.matcher, t)
    BY <2>1 DEF Passes
  <2>4. /\ a.bad = {} /\ Begins(r.g.matcher, a.g.matcher)
        /\ ~ inReasoning => a.g.matcher = Append(r.g.matcher, t)
    BY <2>1, <2>2, <2>3, AdvanceKeeps
  <2>5. a \in Walks /\ a.g.matcher \in Seq(Accepts)
    BY <2>1, <2>2, AdvanceInWalks DEF Walks, GrammarStates
  <2>6. Begins(matcher, a.g.matcher)
    BY <1>1, <2>1, <2>2, <2>4, <2>5, BeginsIsTransitive
  <2>7. ~ inReasoning => a.g.matcher = matcher \o SubSeq(part, 1, k)
    BY <1>1, <2>1, <2>4, OnePastPrefix
  <2> HIDE DEF a
  <2>8. Good(k, a)
    BY <2>4, <2>5, <2>6, <2>7
  <2> HIDE DEF Good
  <2>9. QED
    BY <1>5, <1>9, <2>8 DEF a
<1> HIDE DEF S
<1>12. N \in S
  <2>1. N \in 0 .. N
    BY <1>1
  <2>2. QED
    BY <1>1, <1>10, <1>11, <2>1, UpToInduction
<1>13. QED
  BY <1>8, <1>12 DEF S

-----------------------------------------------------------------------------
(* The tokens of a step that the grammar sees.                             *)

LEMMA ShorterPrefix ==
  ASSUME NEW T, NEW s \in Seq(T), NEW k \in 0 .. Len(s)
  PROVE  /\ SubSeq(s, 1, k) \in Seq(T) /\ Len(SubSeq(s, 1, k)) = k
         /\ \A j \in 1 .. k : SubSeq(s, 1, k)[j] = s[j]
         /\ \A i \in 1 .. k : SubSeq(SubSeq(s, 1, k), 1, i - 1) = SubSeq(s, 1, i - 1)
<1> DEFINE v == SubSeq(s, 1, k)
<1>1. v \in Seq(T) /\ Len(v) = k /\ \A j \in 1 .. k : v[j] = s[j]
  OBVIOUS
<1> HIDE DEF v
<1>2. ASSUME NEW i \in 1 .. k
      PROVE  SubSeq(v, 1, i - 1) = SubSeq(s, 1, i - 1)
  <2>1. /\ SubSeq(v, 1, i - 1) \in Seq(T) /\ Len(SubSeq(v, 1, i - 1)) = i - 1
        /\ SubSeq(s, 1, i - 1) \in Seq(T) /\ Len(SubSeq(s, 1, i - 1)) = i - 1
        /\ \A j \in 1 .. (i - 1) : SubSeq(v, 1, i - 1)[j] = SubSeq(s, 1, i - 1)[j]
    BY <1>1
  <2>2. QED
    BY <2>1, SeqEqual
<1>3. QED
  BY <1>1, <1>2 DEF v

LEMMA ObeyedPrefix ==
  ASSUME NEW m, NEW part \in Seq(Tokens), NEW k \in 0 .. Len(part), Obeyed(m, part)
  PROVE  Obeyed(m, SubSeq(part, 1, k))
<1>1. /\ Len(SubSeq(part, 1, k)) = k
      /\ \A j \in 1 .. k : SubSeq(part, 1, k)[j] = part[j]
      /\ \A i \in 1 .. k : SubSeq(SubSeq(part, 1, k), 1, i - 1) = SubSeq(part, 1, i - 1)
  BY ShorterPrefix
<1>2. \A i \in 1 .. k : /\ i \in 1 .. Len(part)
                        /\ \A j \in 1 .. (i - 1) : j \in 1 .. k
  OBVIOUS
<1> DEFINE v == SubSeq(part, 1, k)
<1> HIDE DEF v
<1>3. \A i \in 1 .. k : (\A j \in 1 .. (i - 1) : v[j] # "E") /\ ~ Over(m) =>
        Allows(m \o SubSeq(v, 1, i - 1), v[i])
  <2> SUFFICES ASSUME NEW i \in 1 .. k, \A j \in 1 .. (i - 1) : v[j] # "E", ~ Over(m)
               PROVE  Allows(m \o SubSeq(v, 1, i - 1), v[i])
    OBVIOUS
  <2>1. \A j \in 1 .. (i - 1) : part[j] # "E"
    BY <1>1, <1>2 DEF v
  <2>2. Allows(m \o SubSeq(part, 1, i - 1), part[i])
    BY <1>2, <2>1 DEF Obeyed
  <2>3. QED
    BY <1>1, <2>2 DEF v
<1>4. QED
  BY <1>1, <1>3 DEF Obeyed, v

\* Where x comes first in s, or 0.
First(s, x) == SelectInSeq(s, LAMBDA t : t = x)

LEMMA FirstIsFirst ==
  ASSUME NEW T, NEW s \in Seq(T), NEW x
  PROVE  /\ First(s, x) \in 0 .. Len(s)
         /\ First(s, x) = 0 => \A j \in 1 .. Len(s) : s[j] # x
         /\ First(s, x) # 0 => /\ s[First(s, x)] = x
                               /\ \A j \in 1 .. (First(s, x) - 1) : s[j] # x
<1> DEFINE I == {i \in 1 .. Len(s) : s[i] = x}
<1>1. First(s, x) = IF I # {} THEN Min(I) ELSE 0
  BY DEF First, SelectInSeq
<1>2. I \in SUBSET Nat /\ Len(s) \in Nat
  OBVIOUS
<1>3. CASE I = {}
  BY <1>1, <1>3
<1>4. CASE I # {}
  <2>1. Min(I) \in I /\ \A j \in I : Min(I) <= j
    <3> HIDE DEF I
    <3>1. QED
      BY <1>2, <1>4, MinOfNaturals
  <2> DEFINE e == First(s, x)
  <2>2. e \in I /\ \A j \in I : e <= j
    BY <1>1, <1>4, <2>1
  <2> HIDE DEF e
  <2>3. e \in 1 .. Len(s) /\ s[e] = x
    BY <2>2
  <2>4. ASSUME NEW j \in 1 .. (e - 1)
        PROVE  s[j] # x
    <3>1. j \in 1 .. Len(s) /\ ~ (e <= j)
      BY <2>3
    <3>2. QED
      BY <2>2, <3>1
  <2>5. QED
    BY <2>3, <2>4 DEF e
<1>5. QED
  BY <1>3, <1>4

LEMMA PartIsTokens ==
  ASSUME NEW tokens \in Seq(Tokens)
  PROVE  /\ GrammarPart(tokens) \in Seq(Tokens)
         /\ ~ inReasoning => GrammarPart(tokens) = tokens
<1>1. First(tokens, "/") \in 0 .. Len(tokens)
  BY FirstIsFirst
<1>2. GrammarPart(tokens) =
        IF ~ inReasoning THEN tokens
        ELSE IF First(tokens, "/") = 0 THEN <<>>
        ELSE SubSeq(tokens, First(tokens, "/") + 1, Len(tokens))
  BY DEF GrammarPart, First
<1> DEFINE e == First(tokens, "/")
<1> HIDE DEF e
<1>3. SubSeq(tokens, e + 1, Len(tokens)) \in Seq(Tokens)
  BY <1>1 DEF e
<1>4. QED
  BY <1>2, <1>3 DEF e

\* A request that is cut behind its stop token gives the grammar a prefix of the rest.
LEMMA TrimmedPart ==
  ASSUME NEW tokens \in Seq(Tokens)
  PROVE  /\ Trimmed(tokens) \in Seq(Tokens)
         /\ \E k \in 0 .. Len(GrammarPart(tokens)) :
              GrammarPart(Trimmed(tokens)) = SubSeq(GrammarPart(tokens), 1, k)
<1> DEFINE e == First(tokens, "E")
           part == GrammarPart(tokens)
           v == SubSeq(tokens, 1, e)
<1>1. Trimmed(tokens) = IF e = 0 THEN tokens ELSE v
  BY DEF Trimmed, First
<1>2. e \in 0 .. Len(tokens) /\ Len(tokens) \in Nat
  BY FirstIsFirst
<1>3. /\ v \in Seq(Tokens) /\ Len(v) = e /\ \A j \in 1 .. e : v[j] = tokens[j]
  BY <1>2, ShorterPrefix
<1>4. part \in Seq(Tokens) /\ Len(part) \in Nat
  BY PartIsTokens
<1> HIDE DEF v, e
<1>5. CASE e = 0
  <2>1. GrammarPart(Trimmed(tokens)) = part
    BY <1>1, <1>5
  <2> HIDE DEF part
  <2>2. part = SubSeq(part, 1, Len(part)) /\ Len(part) \in 0 .. Len(part)
    BY <1>4
  <2>3. QED
    BY <1>1, <1>5, <2>1, <2>2 DEF part
<1>6. CASE e # 0 /\ ~ inReasoning
  <2>1. GrammarPart(v) = v /\ part = tokens
    BY <1>3, <1>6, PartIsTokens
  <2>2. QED
    BY <1>1, <1>2, <1>3, <1>6, <2>1 DEF v
<1>7. CASE e # 0 /\ inReasoning
  <2> DEFINE a == First(tokens, "/")
             b == First(v, "/")
  <2>1. /\ a \in 0 .. Len(tokens)
        /\ a = 0 => \A j \in 1 .. Len(tokens) : tokens[j] # "/"
        /\ a # 0 => tokens[a] = "/" /\ \A j \in 1 .. (a - 1) : tokens[j] # "/"
    BY FirstIsFirst
  <2>2. /\ b \in 0 .. e
        /\ b = 0 => \A j \in 1 .. e : v[j] # "/"
        /\ b # 0 => v[b] = "/" /\ \A j \in 1 .. (b - 1) : v[j] # "/"
    BY <1>3, FirstIsFirst
  <2>3. GrammarPart(v) = IF b = 0 THEN <<>> ELSE SubSeq(v, b + 1, Len(v))
    BY <1>7 DEF GrammarPart, First
  <2>4. part = IF a = 0 THEN <<>> ELSE SubSeq(tokens, a + 1, Len(tokens))
    BY <1>7 DEF GrammarPart, First
  <2> HIDE DEF a, b, part
  <2>5. CASE b = 0
    <3>1. SubSeq(part, 1, 0) = <<>> /\ 0 \in 0 .. Len(part)
      BY <1>4
    <3>2. GrammarPart(Trimmed(tokens)) = <<>>
      BY <1>1, <1>7, <2>3, <2>5
    <3>3. QED
      BY <1>1, <1>3, <1>7, <3>1, <3>2 DEF part
  <2>6. CASE b # 0
    <3>1. a = b
      <4>1. b \in 1 .. Len(tokens) /\ tokens[b] = "/"
        BY <1>2, <1>3, <2>2, <2>6
      <4>2. a # 0 /\ ~ (b \in 1 .. (a - 1))
        BY <2>1, <4>1
      <4>3. ~ (a \in 1 .. (b - 1))
        BY <1>2, <1>3, <2>1, <2>2, <2>6, <4>2
      <4>4. QED
        BY <1>2, <2>1, <2>2, <2>6, <4>2, <4>3
    <3>2. part = SubSeq(tokens, b + 1, Len(tokens)) /\ b \in 1 .. e
      BY <2>2, <2>4, <2>6, <3>1
    <3>3. GrammarPart(v) = SubSeq(v, b + 1, e)
      BY <1>3, <2>3, <2>6
    <3>4. SubSeq(v, b + 1, e) = SubSeq(part, 1, e - b) /\ e - b \in 0 .. Len(part)
      <4>1. /\ Len(part) = Len(tokens) - b /\ \A j \in 1 .. Len(part) : part[j] = tokens[b + j]
        BY <1>2, <3>2
      <4>2. e - b \in 0 .. Len(part)
        BY <1>2, <3>2, <4>1
      <4>3. /\ SubSeq(v, b + 1, e) \in Seq(Tokens) /\ Len(SubSeq(v, b + 1, e)) = e - b
            /\ \A j \in 1 .. (e - b) : SubSeq(v, b + 1, e)[j] = v[b + j]
        BY <1>2, <1>3, <3>2
      <4>4. /\ SubSeq(part, 1, e - b) \in Seq(Tokens) /\ Len(SubSeq(part, 1, e - b)) = e - b
            /\ \A j \in 1 .. (e - b) : SubSeq(part, 1, e - b)[j] = part[j]
        BY <1>4, <4>2
      <4>5. \A j \in 1 .. (e - b) : v[b + j] = part[j]
        BY <1>2, <1>3, <3>2, <4>1, <4>2
      <4>6. QED
        BY <4>2, <4>3, <4>4, <4>5, SeqEqual
    <3>5. QED
      BY <1>1, <1>3, <1>7, <3>3, <3>4 DEF part
  <2>7. QED
    BY <2>5, <2>6
<1>8. QED
  BY <1>5, <1>6, <1>7

-----------------------------------------------------------------------------
(* The invariant of a structured request.                                  *)

\* The drafts that wait for their bitmasks were validated against the grammar as it is.
Validated == step = "mask" /\ ~ inReasoning => Passes(matcher, drafts)

GrammarInv ==
  /\ Grammar \in GrammarStates /\ Agrees(Grammar)
  /\ drafts \in Seq(Tokens) /\ inReasoning \in BOOLEAN /\ step \in {"drafts", "mask", "sample"}
  /\ Validated
  /\ GrammarIsNotMisfed

LEMMA GrammarVars ==
  /\ Grammar.matcher = matcher /\ Grammar.isTerminated = isTerminated
  /\ Grammar.processed = processed
  /\ Grammar.matcher' = matcher' /\ Grammar.isTerminated' = isTerminated'
  /\ Grammar.processed' = processed'
  BY DEF Grammar

LEMMA GrammarUntouched ==
  ASSUME GrammarInv, UNCHANGED structuredVars
  PROVE  GrammarInv'
  BY DEF GrammarInv, structuredVars, grammarVars, Grammar, Validated, GrammarIsNotMisfed

\* A grammar that is set is in agreement, if it was.
LEMMA SetAgrees ==
  ASSUME NEW g \in GrammarStates, SetGrammar(g), Agrees(g)
  PROVE  Grammar' \in GrammarStates /\ Agrees(Grammar')
<1>1. /\ matcher' = g.matcher /\ isTerminated' = g.isTerminated /\ processed' = g.processed
  BY DEF SetGrammar
<1>2. Grammar' = g
  BY <1>1 DEF Grammar, GrammarStates
<1>3. QED
  BY <1>2

\* A grammar at its start.
LEMMA FreshAgrees ==
  /\ Fresh \in GrammarStates /\ Agrees(Fresh)
  /\ Fresh = [matcher |-> <<>>, isTerminated |-> FALSE, processed |-> 0]
  /\ <<>> \in Seq(Tokens)
<1>1. <<>> \in Seq(Accepts) /\ Len(<<>>) = 0 /\ <<>> \in Seq(Tokens)
  OBVIOUS
<1>2. Over(<<>>) = FALSE
  BY Zenon DEF Over
<1>3. /\ Fresh.matcher = <<>> /\ Fresh.isTerminated = FALSE /\ Fresh.processed = 0
      /\ Fresh = [matcher |-> <<>>, isTerminated |-> FALSE, processed |-> 0]
  BY DEF Fresh
<1>4. Agrees(Fresh)
  BY <1>1, <1>2, <1>3 DEF Agrees
<1> DEFINE empty == <<>>
<1>5. empty \in Seq(Accepts) /\ Fresh = [matcher |-> empty, isTerminated |-> FALSE, processed |-> 0]
  BY <1>1, <1>3
<1> HIDE DEF empty
<1>6. Fresh \in GrammarStates
  BY <1>5 DEF GrammarStates
<1>7. QED
  BY <1>1, <1>3, <1>4, <1>6

LEMMA StructuredRequestKeeps ==
  ASSUME GrammarInv, NEW reasons \in BOOLEAN, StructuredRequest(reasons)
  PROVE  GrammarInv'
<1>1. Fresh \in GrammarStates /\ Agrees(Fresh) /\ <<>> \in Seq(Tokens)
  BY FreshAgrees
<1>2. SetGrammar(Fresh) /\ inReasoning' = reasons /\ drafts' = <<>> /\ step' = "drafts"
      /\ complaints' = {}
  BY DEF StructuredRequest
<1>3. Grammar' \in GrammarStates /\ Agrees(Grammar')
  BY <1>1, <1>2, SetAgrees
<1>4. drafts' \in Seq(Tokens) /\ Validated'
  BY <1>1, <1>2 DEF Validated
<1>5. QED
  BY <1>2, <1>3, <1>4 DEF GrammarInv, GrammarIsNotMisfed

LEMMA DraftKeeps ==
  ASSUME GrammarInv, NEW proposed \in Seq(Tokens), Draft(proposed)
  PROVE  GrammarInv'
<1>1. /\ drafts' = IF inReasoning THEN proposed ELSE ValidateTokens(Grammar, proposed)
      /\ step' = "mask" /\ UNCHANGED <<matcher, isTerminated, processed, inReasoning, complaints>>
  BY DEF Draft, grammarVars
<1>2. /\ ValidateTokens(Grammar, proposed) \in Seq(Tokens)
      /\ Passes(matcher, ValidateTokens(Grammar, proposed))
  BY ValidatedPass, GrammarVars
<1>3. Grammar' = Grammar
  BY <1>1 DEF Grammar
<1>4. drafts' \in Seq(Tokens) /\ Validated'
  BY <1>1, <1>2 DEF Validated
<1>5. QED
  BY <1>1, <1>3, <1>4 DEF GrammarInv, GrammarIsNotMisfed

LEMMA FillBitmaskKeeps ==
  ASSUME GrammarInv, FillBitmask
  PROVE  GrammarInv'
<1> DEFINE r == AdvanceOver(GrammarPart(drafts))
           w == r.g.matcher
           back == SubSeq(w, 1, Len(w) - (r.g.processed - processed))
<1>1. /\ SetGrammar([matcher |-> back, isTerminated |-> Over(back), processed |-> processed])
      /\ complaints' = complaints \cup r.bad /\ step' = "sample"
      /\ UNCHANGED <<inReasoning, drafts>> /\ step = "mask"
  BY DEF FillBitmask
<1>2. /\ Grammar \in GrammarStates /\ Agrees(Grammar) /\ drafts \in Seq(Tokens)
      /\ inReasoning \in BOOLEAN /\ complaints = {}
  BY DEF GrammarInv, GrammarIsNotMisfed
<1>3. ~ inReasoning => Passes(matcher, GrammarPart(drafts))
  BY <1>1, <1>2, PartIsTokens DEF GrammarInv, Validated
<1>4. r \in Walks /\ r.bad = {} /\ Begins(matcher, w)
  BY <1>2, <1>3, PartIsTokens, AdvanceOverKeeps
<1>5. /\ matcher \in Seq(Accepts) /\ processed = Len(matcher) /\ isTerminated = Over(matcher)
      /\ Over(matcher) \in BOOLEAN
  BY <1>2, GrammarVars DEF GrammarStates, Agrees, Over
<1> HIDE DEF r
<1>6. w \in Seq(Accepts) /\ r.g.processed = Len(w)
  BY <1>4 DEF Walks, GrammarStates, Agrees
<1> HIDE DEF w
<1>7. back = matcher
  <2>1. Len(w) - (r.g.processed - processed) = Len(matcher)
    BY <1>5, <1>6
  <2>2. /\ SubSeq(w, 1, Len(matcher)) \in Seq(Accepts)
        /\ Len(SubSeq(w, 1, Len(matcher))) = Len(matcher)
        /\ \A j \in 1 .. Len(matcher) : SubSeq(w, 1, Len(matcher))[j] = matcher[j]
    BY <1>4, <1>5, <1>6, ShorterPrefix DEF Begins
  <2>3. QED
    BY <1>5, <2>1, <2>2, SeqEqual
<1> HIDE DEF back
<1>8. matcher' = matcher /\ isTerminated' = isTerminated /\ processed' = processed
  BY <1>1, <1>5, <1>7 DEF SetGrammar
<1>9. Grammar' = Grammar
  BY <1>8 DEF Grammar
<1>10. complaints' = {}
  BY <1>1, <1>2, <1>4
<1>11. QED
  BY <1>1, <1>2, <1>9, <1>10 DEF GrammarInv, Validated, GrammarIsNotMisfed

LEMMA SampleKeeps ==
  ASSUME GrammarInv, NEW tokens \in Seq(Tokens), NEW stopsAtEnd \in BOOLEAN,
         Sample(tokens, stopsAtEnd)
  PROVE  GrammarInv'
<1> DEFINE seen == IF stopsAtEnd THEN Trimmed(tokens) ELSE tokens
           part == GrammarPart(seen)
           all == GrammarPart(tokens)
           r == AcceptTokens(Grammar, part)
<1>1. /\ SetGrammar(r.g) /\ Obeys(tokens)
      /\ complaints' = complaints \cup r.bad \cup (IF r.ok THEN {} ELSE {"rejected its own tokens"})
      /\ inReasoning' = (inReasoning /\ ~ Contains(tokens, "/"))
      /\ drafts' = <<>> /\ step' = "drafts"
  BY DEF Sample
<1>2. /\ Grammar \in GrammarStates /\ Agrees(Grammar) /\ inReasoning \in BOOLEAN
      /\ complaints = {}
  BY DEF GrammarInv, GrammarIsNotMisfed
<1>3. all \in Seq(Tokens) /\ Obeyed(matcher, all)
  <2>1. all \in Seq(Tokens)
    BY PartIsTokens
  <2>2. DOMAIN all = 1 .. Len(all)
    BY <2>1
  <2>3. QED
    BY <1>1, <2>1, <2>2, Zenon DEF Obeys, Obeyed
<1>4. part \in Seq(Tokens) /\ Obeyed(matcher, part)
  <2>1. CASE ~ stopsAtEnd
    BY <1>3, <2>1
  <2>2. CASE stopsAtEnd
    <3>1. /\ Trimmed(tokens) \in Seq(Tokens)
          /\ \E k \in 0 .. Len(all) : part = SubSeq(all, 1, k)
      BY <2>2, TrimmedPart
    <3>2. part \in Seq(Tokens)
      BY <2>2, <3>1, PartIsTokens
    <3> HIDE DEF part, all
    <3>3. QED
      BY <1>3, <3>1, <3>2, ObeyedPrefix
  <2>3. QED
    BY <2>1, <2>2
<1>5. Taken(matcher, part, Len(part), r)
  BY <1>2, <1>4, AcceptTokensTakes, GrammarVars
<1> HIDE DEF r
<1>6. r.g \in GrammarStates /\ Agrees(r.g) /\ r.ok /\ r.bad = {}
  BY <1>4, <1>5 DEF Taken, Calls
<1>7. Grammar' \in GrammarStates /\ Agrees(Grammar')
  BY <1>1, <1>6, SetAgrees
<1>8. complaints' = {} /\ inReasoning' \in BOOLEAN
  BY <1>1, <1>2, <1>6
<1>9. drafts' \in Seq(Tokens) /\ Validated' /\ step' \in {"drafts", "mask", "sample"}
  BY <1>1, FreshAgrees DEF Validated
<1>10. QED
  BY <1>7, <1>8, <1>9 DEF GrammarInv, GrammarIsNotMisfed

LEMMA ResetKeeps ==
  ASSUME GrammarInv, ResetGrammar
  PROVE  GrammarInv'
<1>1. /\ SetGrammar(Reset(Grammar)) /\ step = "drafts"
      /\ UNCHANGED <<inReasoning, drafts, step, complaints>>
  BY DEF ResetGrammar
<1> DEFINE g == Grammar
<1>2. g \in GrammarStates
  BY DEF GrammarInv
<1> HIDE DEF g
<1>3. Reset(g) = Fresh
  <2> DEFINE empty == <<>>
             three == {"matcher", "isTerminated", "processed"}
             again == [g EXCEPT !.matcher = empty, !.processed = 0, !.isTerminated = FALSE]
  <2>1. DOMAIN g = three
    BY <1>2 DEF GrammarStates
  <2>2. Reset(g) = again /\ Fresh = [matcher |-> empty, isTerminated |-> FALSE, processed |-> 0]
    BY DEF Reset, Fresh
  <2> HIDE DEF empty
  <2>3. /\ again = [x \in three |-> again[x]] /\ again.matcher = empty
        /\ again.isTerminated = FALSE /\ again.processed = 0
    BY <2>1
  <2>4. QED
    BY <2>2, <2>3
<1>4. SetGrammar(Fresh)
  BY <1>1, <1>3 DEF g
<1>5. Grammar' \in GrammarStates /\ Agrees(Grammar')
  BY <1>4, FreshAgrees, SetAgrees
<1>6. QED
  BY <1>1, <1>5 DEF GrammarInv, Validated, GrammarIsNotMisfed

LEMMA GrammarInit == Init => GrammarInv
<1> SUFFICES ASSUME Init
             PROVE  GrammarInv
  OBVIOUS
<1>1. /\ Grammar = [matcher |-> <<>>, isTerminated |-> FALSE, processed |-> 0]
      /\ drafts = <<>> /\ inReasoning = FALSE /\ step = "drafts" /\ complaints = {}
  BY DEF Init, DecodingInit, Grammar
<1>2. Grammar = Fresh
  BY <1>1, FreshAgrees
<1>3. Grammar \in GrammarStates /\ Agrees(Grammar)
  BY <1>2, FreshAgrees
<1>4. drafts \in Seq(Tokens) /\ Validated
  BY <1>1, FreshAgrees DEF Validated
<1>5. QED
  BY <1>1, <1>3, <1>4 DEF GrammarInv, GrammarIsNotMisfed

LEMMA GrammarNext == GrammarInv /\ [Next]_vars => GrammarInv'
<1> SUFFICES ASSUME GrammarInv, [Next]_vars
             PROVE  GrammarInv'
  OBVIOUS
<1>1. CASE Entry \/ LoadEngine \/ Engine \/ UNCHANGED vars
  <2>1. UNCHANGED structuredVars
    BY <1>1 DEF Entry, LoadEngine, Engine, vars, decodingVars
  <2>2. QED
    BY <2>1, GrammarUntouched
<1>2. ASSUME DecodingStep
      PROVE  GrammarInv'
  <2>1. ASSUME NEW yes \in BOOLEAN, StructuredRequest(yes)
        PROVE  GrammarInv'
    BY <2>1, StructuredRequestKeeps
  <2>2. CASE \/ \E yes \in BOOLEAN : TextRequest(yes)
             \/ \E chunk \in UpTo(Chars, MaxChunk) : Detokenize(chunk)
    <3>1. UNCHANGED structuredVars
      BY <2>2 DEF TextRequest, Detokenize
    <3>2. QED
      BY <3>1, GrammarUntouched
  <2>3. ASSUME NEW proposed \in UpTo(Tokens, MaxChunk), Draft(proposed)
        PROVE  GrammarInv'
    <3>1. proposed \in Seq(Tokens)
      BY DEF UpTo
    <3>2. QED
      BY <2>3, <3>1, DraftKeeps
  <2>4. ASSUME NEW tokens \in UpTo(Tokens, MaxChunk + 1), NEW stops \in BOOLEAN,
               Sample(tokens, stops)
        PROVE  GrammarInv'
    <3>1. tokens \in Seq(Tokens)
      BY DEF UpTo
    <3>2. QED
      BY <2>4, <3>1, SampleKeeps
  <2>5. QED
    BY <1>2, <2>1, <2>2, <2>3, <2>4, FillBitmaskKeeps, ResetKeeps DEF DecodingStep
<1>3. QED
  BY <1>1, <1>2 DEF Next, Serve

\* Between two calls the cached termination flag and the token count are the matcher's,
\* whatever drafts, windows, rollbacks, outputs and resets came before
\* (patch_xgrammar_termination.py:6-8).
THEOREM FlagAgrees == Spec => []FlagIsTheMatchers
<1>1. GrammarInv => FlagIsTheMatchers
  BY GrammarVars DEF GrammarInv, Agrees, FlagIsTheMatchers
<1>2. QED
  BY <1>1, GrammarInit, GrammarNext, PTL DEF Spec

\* No token is given to a terminated matcher, no draft makes an error, and no step's
\* tokens are rejected, for windows and outputs of any length
\* (patch_xgrammar_termination.py:15-19).
THEOREM GrammarIsFedRight == Spec => []GrammarIsNotMisfed
<1>1. GrammarInv => GrammarIsNotMisfed
  BY DEF GrammarInv
<1>2. QED
  BY <1>1, GrammarInit, GrammarNext, PTL DEF Spec
=============================================================================
