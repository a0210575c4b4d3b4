------------------------------ MODULE MCLogger ------------------------------
(* Configurations of one or two loggers, with good, bad and empty patterns, *)
(* with and without appenders.                                             *)
EXTENDS Logger, TLC

Def(level, p, A) == [level |-> level, formatter |-> p, appenders |-> A]
Out(p) == [sink |-> "stdout", formatter |-> p]
File(p) == [sink |-> "file", formatter |-> p]

Config(f) == [n \in Loggers |-> IF n \in DOMAIN f THEN f[n] ELSE None]

\* No two of these differ in the appenders of a logger alone.
Distinct ==
    {Config([system |-> Def(1, "good", <<Out(None), File("bad")>>)]),
     Config([system |-> Def(2, "bad", <<File("other")>>), http |-> Def(0, None, <<>>)]),
     Config([http |-> Def(2, "other", <<Out("good")>>)]),
     Config(<<>>)}

\* The first of these differs from one of the above in its appenders only.
AppendersOnly ==
    Distinct \union {Config([system |-> Def(1, "good", <<File(None)>>)])}

\* These configure the root logger.
RootConfigs ==
    {Config([root |-> Def(1, None, <<File(None)>>)]), Config([root |-> Def(2, None, <<File(None)>>)])}

LoggerSymmetry == Permutations(Threads) \union Permutations(Setters)
=============================================================================
