--------------------------- MODULE MCPrefillReader ---------------------------
EXTENDS PrefillReader
MCRanked == <<2, 1>>
MCRankedOne == <<2>>
\* Every choice, for the configurations run by hand.
MCAnything == (1..MaxJobs) \X (SUBSET Experts \ {{}})
\* The guess is not chosen for the first layer, so that its read may be slow;
\* it is one of two for the second layer, and alone for the third.
MCChosen == {<<1, {1}>>, <<2, {1, 2}>>, <<3, {2}>>}
=============================================================================
