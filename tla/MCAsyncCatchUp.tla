--------------------------- MODULE MCAsyncCatchUp ---------------------------
EXTENDS AsyncCatchUp, TLC

CONSTANTS s1, s2, t1, t2, t3

OneScheduler == {s1}
TwoSchedulers == {s1, s2}
TwoTokens == {t1, t2}
ThreeTokens == {t1, t2, t3}

EndsEitherWay == {"completed", "failed"}
EndsWell == {"completed"}

AnyScheduler == Permutations(Schedulers)
=============================================================================
