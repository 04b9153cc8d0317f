------------------------------ MODULE MCScheduler ----------------------------
EXTENDS Scheduler, TLC

CONSTANTS a, l, s, b1, b2, b3, b4

MCRequests == {a, l, s}
MCPromptLen == (a :> 3) @@ (l :> 4) @@ (s :> 3)
MCMaxTokens == (a :> 2) @@ (l :> 2) @@ (s :> 1)
MCRemote == (a :> 0) @@ (l :> 4) @@ (s :> 0)
MCSyncRemote == (a :> 2) @@ (l :> 0) @@ (s :> 0)

BlockSymmetry == Permutations(Blocks)

\* Only the distance of a step to the last processed one matters, and only while
\* it is not yet processed.
Ahead(seq) == IF seq > processedSeq THEN seq - processedSeq ELSE 0
View ==
  <<queueVars, countVars, chunk, preempts, inflight, streamVars, free, held,
    {<<Ahead(d[1]), d[2]>> : d \in deferred}, Ahead(schedSeq),
    [r \in Requests |-> Ahead(lastSeq[r])], xferVars, miscVars, pc, call,
    [upd EXCEPT !.step.seq = 0],
    [i \in 1 .. Len(flight) |-> [flight[i] EXCEPT !.seq = Ahead(@)]], upsets>>
=============================================================================
