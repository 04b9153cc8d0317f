------------------------------- MODULE MCGlm53 -------------------------------
EXTENDS Glm53

\* An MLA page of 512 is filled exactly by blocks of 64 or 128 tokens; 1000 by none of
\* the right size; 24 bytes a token make a compact block larger than the page.
MCGeometries ==
  [bytesPerToken : {4, 8, 24}, mlaPage : {512, 1000}, mlaBlock : {64, 96}, drafts : 0..3,
   mlas : {1, 2}, mambas : {1}, idxPage : {16}]

\* A model of 4 tokens with compression or none, ratios that agree or do not, and one
\* whose legal maximum is above stock.
MCConfigs ==
  [maxLen : {4}, seqs : {2}, budget : {3}, spec : {0, 2}, kpool : {0, 2}, ratio : {1, 2},
   mode : {"unset", "rightsize", "typo"}]
    \cup [maxLen : {1}, seqs : {81}, budget : {3, 81}, spec : {0}, kpool : {2}, ratio : {2},
          mode : {"stock", "rightsize"}]
MCLogitsSizes == {6, 100}
=============================================================================
