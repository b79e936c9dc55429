--------------------------- MODULE MCMemorySearch ---------------------------
(* An instance of MemorySearch for TLC: three memories, one chunk that two  *)
(* sources share, and a query that each text answers in a way of its own.   *)
EXTENDS MemorySearch

OneChunk == [r \in {4, 5} |-> 4]

AllTexts == {"titled", "tagged", "worded", "meant"}
TextHits ==
    [titled |-> [exact |-> 35, substring |-> 900, lexical |-> 400, semantic |-> 700, boost |-> 10000],
     tagged |-> [exact |-> 20, substring |-> 0,   lexical |-> 300, semantic |-> -50, boost |-> 10000],
     worded |-> [exact |-> 0,  substring |-> 600, lexical |-> 400, semantic |-> 1000, boost |-> 80000],
     meant  |-> [exact |-> 0,  substring |-> 0,   lexical |-> 0,   semantic |-> 600, boost |-> 30000]]
RowContents ==
    [r \in Rows |-> CASE r = 1 -> {"titled", "meant"}
                      [] r = 2 -> {"tagged"}
                      [] r = 3 -> {"worded", "meant"}
                      [] OTHER -> {"worded"}]

\* One selector above every row, one above a part of them.
Nested == <<{1, 3, 4}, 1 .. 5>>

\* The memories were written at 1 or 2 and the chunks at 2; of the oldest
\* memories some may be deleted.
Starts ==
    {t \in [Rows -> [text: AllTexts, visible: BOOLEAN, stamp: 1 .. 2, embedded: {TRUE}]] :
        /\ \A r \in ChunkRows : t[r].text = "worded" /\ t[r].visible /\ t[r].stamp = 2
        /\ t[1].text = "titled" /\ t[2].text = "tagged" /\ t[3].text = "worded"
        /\ t[3].visible /\ t[1].visible = t[2].visible
        /\ ~t[1].visible => \A m \in MemoryRows : t[m].stamp = 1}
=============================================================================
