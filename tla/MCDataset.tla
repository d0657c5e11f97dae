------------------------------ MODULE MCDataset ------------------------------
EXTENDS Dataset
\* The third version has a row less than the second.
MCRelease ==
    [v \in 1 .. MaxVersion |->
        CASE v = 1 -> {[key |-> 1, val |-> 1], [key |-> 2, val |-> 1]}
          [] v = 2 -> {[key |-> 1, val |-> 1], [key |-> 2, val |-> 2], [key |-> 3, val |-> 2]}
          [] OTHER -> {[key |-> 1, val |-> 3], [key |-> 2, val |-> 2]}]
=============================================================================
