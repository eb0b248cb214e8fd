------------------------------ MODULE MCButex ------------------------------
EXTENDS Butex, TLC

CONSTANTS t1, c1, h1, h2, k1, k2

MCThreads == {t1}
MCCoroutines == {c1}
MCWakers == {h1, h2}
MCKeys == {k1, k2}

\* h1 calls lm_butex_wake(word, 1), h2 lm_butex_wake_all(word).
MCSingles == {h1}
=============================================================================
