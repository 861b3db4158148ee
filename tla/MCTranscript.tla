---------------------------- MODULE MCTranscript ----------------------------
\* A run of a few iterations under limits so low that every layer is reached.
EXTENDS Transcript

MCTailBudget == [emergency \in BOOLEAN |-> IF emergency THEN 3 ELSE 5]
MCSummaryLimit == [emergency \in BOOLEAN |-> IF emergency THEN 2 ELSE 6]
=============================================================================
