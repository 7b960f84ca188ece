----------------------------- MODULE MCBinding -----------------------------
(***************************************************************************)
(* Two threads and one object.                                             *)
(***************************************************************************)
EXTENDS Binding

CONSTANTS t1, t2, o1, l1, l2

MCThreads == {t1, t2}

MCObjects == {o1}

MCLanguages == {l1, l2}

\* The names of feature functions, and the six features that look them up.
MCComponents == <<"continuous-bag-of-ngrams", "continuous-bag-of-relevant-scripts", "script">>

MCFeatures ==
  <<"continuous-bag-of-ngrams", "continuous-bag-of-ngrams",
    "continuous-bag-of-relevant-scripts", "script",
    "continuous-bag-of-ngrams", "continuous-bag-of-ngrams">>

\* The largest int is 3, and 4 becomes -4.
MCSizes == {<<0, 3>>, <<2, 2>>, <<1, 4>>}

MCNumLangs == {0, 1, 3}

=============================================================================
