---------------------------- MODULE MCMemoryIndex ----------------------------
EXTENDS MemoryIndex, SequencesExt
MCLines == {[kind |-> "head", size |-> 1], [kind |-> "text", size |-> 1], [kind |-> "text", size |-> 4],
            [kind |-> "blank", size |-> 0]}
MCDocuments == UNION {[1 .. n -> MCLines] : n \in 0 .. 5}
MCEdits == {<<>>, <<[kind |-> "head", size |-> 1], [kind |-> "text", size |-> 1]>>}
===============================================================================
