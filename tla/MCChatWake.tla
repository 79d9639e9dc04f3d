----------------------------- MODULE MCChatWake -----------------------------
EXTENDS ChatWake, TLC

CONSTANTS c1, c2, t1, t2, h1, h2, s1, s2

OneChat == {c1}
BothChats == {c1, c2}
TwoTurns == {t1, t2}
OneHandle == {h1}
TwoHandles == {h1, h2}
OneScheduler == {s1}
TwoSchedulers == {s1, s2}

\* Two turns of one web chat, the second without a clientTurnId.
OverlappingKinds == t1 :> "web" @@ t2 :> "sync"
OneHome == t1 :> c1 @@ t2 :> c1 @@ h1 :> c1

\* A turn in a Telegram chat, and one in a web chat.
MixedKinds == t1 :> "telegram" @@ t2 :> "web"
TwoHomes == t1 :> c1 @@ t2 :> c2 @@ h1 :> c1 @@ h2 :> c2

AnyScheduler == Permutations(Schedulers)
=============================================================================
