-------------------------- MODULE MCWebTurnAttempt --------------------------
EXTENDS WebTurnAttempt

CONSTANTS p1, p2, p3, d1, d2, w1, r1

TwoPosts == {p1, p2}
ThreePosts == {p1, p2, p3}
TwoPods == {d1, d2}
OneWorker == {w1}
OneReconciler == {r1}

\* The replicas are alike, and so are the posts: it is enough that the first post runs
\* on the first replica and looks at the row before the second one does.
InitPlaced == Init /\ pod[p1] = d1
FirstPlaced == InitPlaced /\ [][Next]_vars /\ Fairness
FirstLooks == pc'[p2] # "idle" => pc[p1] # "idle"
=============================================================================
