---------------------------- MODULE MCEventPlane ----------------------------
EXTENDS EventPlane, Sequences, TLC

\* The first n requests make the asks of one combination, none of them twice in
\* another order; the first of the asks is to do nothing, and the other requests'.
Combine(n, asks) ==
    {[r \in Request |-> asks[IF r <= n THEN f[r] ELSE 1]] :
        f \in {g \in [1 .. n -> 1 .. Len(asks)] :
                 \A q, r \in 1 .. n : q <= r => g[q] <= g[r]}}

At0(op) == IF op = "none" THEN "done" ELSE "start"

-----------------------------------------------------------------------------
EventAsk(op, e) ==
    [op |-> op, event |-> e, at |-> At0(op), todo |-> Nothing, cur |-> NoEvent,
     cutoff |-> 0, batches |-> 0, clean |-> FALSE]

MCEventMix ==
    Combine(2, <<EventAsk("none", "d1"),
                 EventAsk("ingest", "e1"),
                 EventAsk("replay", "d1"),
                 EventAsk("replayAll", "d1"),
                 EventAsk("discard", "d1"),
                 EventAsk("discardAll", "d1"),
                 EventAsk("relog", "d1"),
                 EventAsk("sweep", "d1")>>)

-----------------------------------------------------------------------------
MCInitialConfig == [w \in Watched |-> "c1"]
MCDedup == [c \in Config |-> IF c = "c1" THEN "hash" ELSE "field"]

StreamAsk(at, x, known) ==
    [run |-> x, known |-> known, at |-> at, ended |-> FALSE, sub |-> "none",
     polling |-> FALSE]

MCStreamMix ==
    Combine(3, <<StreamAsk("none", "x1", TRUE),
                 StreamAsk("start", "x1", TRUE),
                 StreamAsk("start", "x1", FALSE)>>)
=============================================================================
