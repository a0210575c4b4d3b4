---------------------------- MODULE LoggerProofs ----------------------------
(***************************************************************************)
(* Proofs about the loggers: the pointers log() follows, and the events a  *)
(* reconfiguration may not lose, for every set of loggers, of threads that *)
(* log, of setters and of configurations.                                  *)
(***************************************************************************)
EXTENDS Logger, FiniteSetTheorems, TLAPS

-----------------------------------------------------------------------------
(* Every appender has a formatter.                                         *)

\* A sequence of appenders that have a formatter.
Elements(A) == {A[i] : i \in DOMAIN A}
Formatted(A) ==
    /\ A \in Seq(Elements(A))
    /\ \A i \in DOMAIN A : "formatter" \in DOMAIN A[i] /\ A[i].formatter # None

FormatInv ==
    /\ m_formatter \in [Loggers -> Elements(m_formatter)]
    /\ \A n \in Loggers : m_formatter[n] # None
    /\ m_appenders \in [Loggers -> Elements(m_appenders)]
    /\ \A n \in Loggers : Formatted(m_appenders[n])

\* A sequence of anything is one of its own elements.
LEMMA OwnElements ==
    ASSUME NEW S, NEW A \in Seq(S)
    PROVE  A \in Seq(Elements(A)) /\ DOMAIN A = 1 .. Len(A) /\ Len(A) \in Nat
<1>1. A \in [1 .. Len(A) -> S] /\ Len(A) \in Nat /\ DOMAIN A = 1 .. Len(A) OBVIOUS
<1>2. A \in [1 .. Len(A) -> Elements(A)] BY <1>1 DEF Elements
<1> QED BY <1>1, <1>2

\* An appender is added at the end.
LEMMA FormattedAppend ==
    ASSUME NEW A, Formatted(A), NEW a, "formatter" \in DOMAIN a, a.formatter # None
    PROVE  Formatted(Append(A, a))
<1> DEFINE S == Elements(A) \union {a}
<1>1. A \in Seq(S) /\ a \in S BY DEF Formatted
<1>2. Append(A, a) \in Seq(S) BY <1>1
<1>3. DOMAIN A = 1 .. Len(A) /\ Len(A) \in Nat BY <1>1, OwnElements
<1>4. /\ DOMAIN Append(A, a) = 1 .. Len(A) + 1
      /\ \A i \in 1 .. Len(A) + 1 : Append(A, a)[i] = IF i <= Len(A) THEN A[i] ELSE a
    BY <1>1, <1>3
<1>5. \A i \in 1 .. Len(A) : "formatter" \in DOMAIN A[i] /\ A[i].formatter # None
    BY <1>3 DEF Formatted
<1>6. Append(A, a) \in Seq(Elements(Append(A, a))) BY <1>2, OwnElements
<1>7. ASSUME NEW i \in DOMAIN Append(A, a)
      PROVE  "formatter" \in DOMAIN Append(A, a)[i] /\ Append(A, a)[i].formatter # None
    <2>1. i \in 1 .. Len(A) + 1 BY <1>4, <1>7
    <2>2. CASE i <= Len(A)
        <3>1. Append(A, a)[i] = A[i] /\ i \in 1 .. Len(A) BY <1>3, <1>4, <2>1, <2>2
        <3> QED BY <1>5, <3>1
    <2>3. CASE ~(i <= Len(A))
        <3>1. Append(A, a)[i] = a BY <1>4, <2>1, <2>3
        <3> QED BY <3>1
    <2> QED BY <2>2, <2>3
<1> QED BY <1>6, <1>7 DEF Formatted

\* An appender is taken out.
LEMMA FormattedRemove ==
    ASSUME NEW A, Formatted(A), NEW i \in DOMAIN A
    PROVE  Formatted(SubSeq(A, 1, i - 1) \o SubSeq(A, i + 1, Len(A)))
<1> DEFINE S == Elements(A)
<1> DEFINE B == SubSeq(A, 1, i - 1) \o SubSeq(A, i + 1, Len(A))
<1>1. /\ A \in Seq(S) /\ DOMAIN A = 1 .. Len(A) /\ Len(A) \in Nat /\ i \in 1 .. Len(A)
    BY OwnElements DEF Formatted
<1>2. SubSeq(A, 1, i - 1) \in Seq(S) /\ SubSeq(A, i + 1, Len(A)) \in Seq(S) BY <1>1
<1>3. B \in Seq(S) BY <1>2
<1> HIDE DEF B
<1>4. \A j \in DOMAIN B : B[j] \in S BY <1>3
<1>5. \A a \in S : "formatter" \in DOMAIN a /\ a.formatter # None BY DEF Formatted, Elements
<1>6. Formatted(B) BY <1>3, <1>4, <1>5, OwnElements DEF Formatted
<1> QED BY <1>6 DEF B

LEMMA FormattedDefaults ==
    ASSUME NEW n
    PROVE  Formatted(Defaults(n)) /\ Formatted(Defaults(n) \o Defaults(n))
<1> DEFINE new(sink) == [Appender(sink, DEBUG, None) EXCEPT !.formatter = DefaultPattern,
                                                            !.m_hasFormatter = TRUE]
<1> DEFINE S == {new("stdout"), new(n)}
<1>1. \A s : "formatter" \in DOMAIN new(s) /\ new(s).formatter = DefaultPattern
    BY DEF Appender
<1> HIDE DEF new
<1>2. Defaults(n) = <<new("stdout"), new(n)>> BY DEF Defaults, new
<1>3. Defaults(n) \in Seq(S) BY <1>2
<1>4. Defaults(n) \o Defaults(n) \in Seq(S) BY <1>3
<1>5. \A a \in S : "formatter" \in DOMAIN a /\ a.formatter # None BY <1>1, LoggerAssumption
<1>6. \A A \in Seq(S) : Formatted(A)
    <2> SUFFICES ASSUME NEW A \in Seq(S) PROVE Formatted(A) OBVIOUS
    <2>1. \A i \in DOMAIN A : A[i] \in S OBVIOUS
    <2> QED BY <2>1, <1>5, OwnElements DEF Formatted
<1> QED BY <1>3, <1>4, <1>6

\* The ways a logger is changed keep the formatters.
LEMMA FormatFrame ==
    ASSUME FormatInv, UNCHANGED <<m_formatter, m_appenders>>
    PROVE  FormatInv'
BY DEF FormatInv, Elements, Formatted

\* A change of one logger's appenders.
LEMMA FormatOne ==
    ASSUME FormatInv, NEW n, NEW A, n \in Loggers => Formatted(A),
           m_appenders' = [m_appenders EXCEPT ![n] = A], UNCHANGED m_formatter
    PROVE  FormatInv'
<1>1. DOMAIN m_appenders' = Loggers /\ m_appenders' = [k \in Loggers |-> m_appenders'[k]]
    BY DEF FormatInv
<1>2. m_appenders' \in [Loggers -> Elements(m_appenders')] BY <1>1 DEF Elements
<1>3. ASSUME NEW k \in Loggers PROVE Formatted(m_appenders'[k])
    <2>1. CASE k = n BY <2>1 DEF FormatInv
    <2>2. CASE k # n BY <2>2 DEF FormatInv
    <2> QED BY <2>1, <2>2
<1>4. /\ m_formatter' \in [Loggers -> Elements(m_formatter')]
      /\ \A k \in Loggers : m_formatter'[k] # None
    BY DEF FormatInv
<1>5. \A k \in Loggers : Formatted(m_appenders[k])' BY <1>3 DEF Formatted, Elements
<1> QED BY <1>2, <1>4, <1>5 DEF FormatInv, Elements

LEMMA FormatGetLoggers ==
    ASSUME FormatInv, NEW L, GetLoggers(L), UNCHANGED m_formatter
    PROVE  FormatInv'
<1>1. m_appenders' = [n \in Loggers |->
                        IF n \in L \ loggers THEN Defaults(n) ELSE m_appenders[n]]
    BY DEF GetLoggers
<1>2. m_appenders' \in [Loggers -> Elements(m_appenders')] BY <1>1 DEF Elements
<1>3. ASSUME NEW k \in Loggers PROVE Formatted(m_appenders'[k])
    <2>1. m_appenders'[k] = Defaults(k) \/ m_appenders'[k] = m_appenders[k] BY <1>1
    <2> QED BY <2>1, FormattedDefaults DEF FormatInv
<1>4. /\ m_formatter' \in [Loggers -> Elements(m_formatter')]
      /\ \A k \in Loggers : m_formatter'[k] # None
    BY DEF FormatInv
<1>5. \A k \in Loggers : Formatted(m_appenders[k])' BY <1>3 DEF Formatted, Elements
<1> QED BY <1>2, <1>4, <1>5 DEF FormatInv, Elements

LEMMA FormatSet ==
    ASSUME FormatInv, NEW n, NEW p, p # None, SetFormatter(n, p)
    PROVE  FormatInv'
<1> DEFINE B == [i \in DOMAIN m_appenders[n] |->
                    IF m_appenders[n][i].m_hasFormatter THEN m_appenders[n][i]
                    ELSE [m_appenders[n][i] EXCEPT !.formatter = p]]
<1>1. /\ m_formatter' = [m_formatter EXCEPT ![n] = p]
      /\ m_appenders' = [m_appenders EXCEPT ![n] = B]
    BY DEF SetFormatter
<1>2. ASSUME n \in Loggers PROVE Formatted(B)
    <2> DEFINE A == m_appenders[n]
    <2>1. Formatted(A) BY <1>2 DEF FormatInv
    <2>2. DOMAIN A = 1 .. Len(A) /\ Len(A) \in Nat BY <2>1, OwnElements DEF Formatted
    <2>3. ASSUME NEW i \in DOMAIN A
          PROVE  "formatter" \in DOMAIN B[i] /\ B[i].formatter # None
        <3>1. "formatter" \in DOMAIN A[i] /\ A[i].formatter # None BY <2>1, <2>3 DEF Formatted
        <3>2. CASE A[i].m_hasFormatter BY <3>1, <3>2
        <3>3. CASE ~A[i].m_hasFormatter
            <4>1. B[i] = [A[i] EXCEPT !.formatter = p] BY <3>3
            <4>2. "formatter" \in DOMAIN B[i] /\ B[i].formatter = p BY <3>1, <4>1
            <4> QED BY <4>2
        <3> QED BY <3>2, <3>3
    <2>4. DOMAIN B = DOMAIN A OBVIOUS
    <2>5. B \in [1 .. Len(A) -> Elements(B)] BY <2>2, <2>4 DEF Elements
    <2> HIDE DEF B
    <2>6. B \in Seq(Elements(B)) BY <2>2, <2>5
    <2> QED BY <2>3, <2>4, <2>6 DEF Formatted
<1> HIDE DEF B
<1>3. DOMAIN m_appenders' = Loggers /\ m_appenders' = [k \in Loggers |-> m_appenders'[k]]
    BY <1>1 DEF FormatInv
<1>4. m_appenders' \in [Loggers -> Elements(m_appenders')] BY <1>3 DEF Elements
<1>5. ASSUME NEW k \in Loggers PROVE Formatted(m_appenders'[k])
    <2>1. CASE k = n BY <1>1, <1>2, <2>1 DEF FormatInv
    <2>2. CASE k # n BY <1>1, <2>2 DEF FormatInv
    <2> QED BY <2>1, <2>2
<1>6. DOMAIN m_formatter' = Loggers /\ m_formatter' = [k \in Loggers |-> m_formatter'[k]]
    BY <1>1 DEF FormatInv
<1>7. m_formatter' \in [Loggers -> Elements(m_formatter')] BY <1>6 DEF Elements
<1>8. \A k \in Loggers : m_formatter'[k] # None BY <1>1 DEF FormatInv
<1>9. \A k \in Loggers : Formatted(m_appenders[k])' BY <1>5 DEF Formatted, Elements
<1> QED BY <1>4, <1>7, <1>8, <1>9 DEF FormatInv, Elements

LEMMA FormatAdd ==
    ASSUME FormatInv, NEW n, NEW sink, NEW level, NEW p, AddAppender(n, Appender(sink, level, p))
    PROVE  FormatInv'
<1> DEFINE a == Appender(sink, level, p)
<1>1. ASSUME n \in Loggers
      PROVE  "formatter" \in DOMAIN Attached(n, a) /\ Attached(n, a).formatter # None
    <2>1. "formatter" \in DOMAIN a /\ a.formatter = p BY DEF Appender
    <2>2. m_formatter[n] # None BY <1>1 DEF FormatInv
    <2>3. CASE p # None BY <2>1, <2>3 DEF Attached
    <2>4. CASE p = None
        <3>1. Attached(n, a) = [a EXCEPT !.formatter = m_formatter[n], !.m_hasFormatter = TRUE]
            BY <2>1, <2>4 DEF Attached
        <3>2. "formatter" \in DOMAIN Attached(n, a) /\ Attached(n, a).formatter = m_formatter[n]
            BY <3>1 DEF Appender
        <3> QED BY <2>2, <3>2
    <2> QED BY <2>3, <2>4
<1> HIDE DEF a
<1>2. /\ m_appenders' = [m_appenders EXCEPT ![n] = Append(m_appenders[n], Attached(n, a))]
      /\ UNCHANGED m_formatter
    BY DEF AddAppender, a
<1>3. n \in Loggers => Formatted(Append(m_appenders[n], Attached(n, a)))
    BY <1>1, FormattedAppend DEF FormatInv
<1> QED BY <1>2, <1>3, FormatOne

LEMMA FormatClear ==
    ASSUME FormatInv, NEW n, ClearAppenders(n)
    PROVE  FormatInv'
<1>1. Formatted(<<>>) BY DEF Formatted, Elements
<1> QED BY <1>1, FormatOne DEF ClearAppenders

LEMMA FormatDel ==
    ASSUME FormatInv, NEW n, NEW i \in DOMAIN m_appenders[n], DelAppender(n, i)
    PROVE  FormatInv'
<1>1. n \in Loggers => Formatted(SubSeq(m_appenders[n], 1, i - 1)
                                    \o SubSeq(m_appenders[n], i + 1, Len(m_appenders[n])))
    BY FormattedRemove DEF FormatInv
<1> QED BY <1>1, FormatOne DEF DelAppender

LEMMA FormatInvInit == Init => FormatInv
<1> SUFFICES ASSUME Init PROVE FormatInv OBVIOUS
<1>1. m_formatter \in [Loggers -> Elements(m_formatter)] BY DEF Init, Elements
<1>2. \A n \in Loggers : m_formatter[n] # None BY LoggerAssumption DEF Init
<1>3. m_appenders \in [Loggers -> Elements(m_appenders)] BY DEF Init, Elements
<1>4. Formatted(<<>>) BY DEF Formatted, Elements
<1>5. ASSUME NEW n \in Loggers PROVE Formatted(m_appenders[n])
    <2>1. m_appenders[n] = <<>> \/ m_appenders[n] = Defaults(n) \o Defaults(n) BY DEF Init
    <2> QED BY <1>4, <2>1, FormattedDefaults
<1> QED BY <1>1, <1>2, <1>3, <1>5 DEF FormatInv

LEMMA FormatInvStep == FormatInv /\ [Next]_vars => FormatInv'
<1> SUFFICES ASSUME FormatInv, [Next]_vars PROVE FormatInv'
    OBVIOUS
<1>1. ASSUME NEW t \in Threads, NEW n \in Loggers, NEW l \in Levels, LogAccept(t, n, l)
      PROVE  FormatInv'
    BY <1>1, FormatFrame DEF LogAccept
<1>2. ASSUME NEW t \in Threads, LogWrite(t) \/ LogToRoot(t) \/ RootWrite(t)
      PROVE  FormatInv'
    BY <1>2, FormatFrame DEF LogWrite, LogToRoot, RootWrite, LogDone
<1>3. CASE AppCall
    <2>1. ASSUME NEW n \in AppNames \ loggers, GetLoggers({n}), UNCHANGED m_formatter
          PROVE  FormatInv'
        BY <2>1, FormatGetLoggers
    <2>2. ASSUME NEW n \in AppNames \cap loggers, NEW l \in Levels, SetLevel(n, l)
          PROVE  FormatInv'
        BY <2>2, FormatFrame DEF SetLevel
    <2>3. ASSUME NEW n \in AppNames \cap loggers, NEW p \in Patterns, SetFormatter(n, p)
          PROVE  FormatInv'
        BY <2>3, FormatSet, LoggerAssumption
    <2>4. ASSUME NEW n \in AppNames \cap loggers, NEW p, AddAppender(n, Appender("app", DEBUG, p))
          PROVE  FormatInv'
        BY <2>4, FormatAdd
    <2>5. ASSUME NEW n \in AppNames \cap loggers, NEW i \in DOMAIN m_appenders[n], DelAppender(n, i)
          PROVE  FormatInv'
        BY <2>5, FormatDel
    <2>6. ASSUME NEW n \in AppNames \cap loggers, ClearAppenders(n)
          PROVE  FormatInv'
        BY <2>6, FormatClear
    <2> QED BY <1>3, <2>1, <2>2, <2>3, <2>4, <2>5, <2>6 DEF AppCall
<1>4. ASSUME NEW s \in Setters, NEW c \in Configs, ConfSame(s, c) \/ ConfBegin(s, c)
      PROVE  FormatInv'
    BY <1>4, FormatFrame DEF ConfSame, ConfBegin, SetValue
<1>5. ASSUME NEW s \in Setters, NEW n \in Loggers, ConfLevel(s, n)
      PROVE  FormatInv'
    BY <1>5, FormatGetLoggers DEF ConfLevel
<1>6. ASSUME NEW s \in Setters, NEW n \in Loggers, ConfGone(s, n)
      PROVE  FormatInv'
    BY <1>6, FormatFrame DEF ConfGone, SetLevel
<1>7. ASSUME NEW s \in Setters, ConfFormatter(s) PROVE FormatInv'
    <2> DEFINE p == reconf[s].conf[reconf[s].at].formatter
    <2>1. CASE p = None \/ p \in BadPatterns BY <1>7, <2>1, FormatFrame DEF ConfFormatter
    <2>2. CASE ~(p = None \/ p \in BadPatterns)
        <3>1. SetFormatter(reconf[s].at, p) BY <1>7, <2>2 DEF ConfFormatter
        <3> QED BY <2>2, <3>1, FormatSet
    <2> QED BY <2>1, <2>2
<1>8. ASSUME NEW s \in Setters, ConfClear(s) \/ ConfGoneClear(s) PROVE FormatInv'
    BY <1>8, FormatClear DEF ConfClear, ConfGoneClear
<1>9. ASSUME NEW s \in Setters, ConfAppender(s) PROVE FormatInv'
    <2> DEFINE n == reconf[s].at
    <2> DEFINE a == reconf[s].conf[n].appenders[reconf[s].i]
    <2>1. CASE UNCHANGED <<loggers, m_level, m_formatter, m_appenders>> BY <2>1, FormatFrame
    <2>2. CASE AddAppender(n, DefinedAppender(a)) BY <2>2, FormatAdd DEF DefinedAppender
    <2> QED BY <1>9, <2>1, <2>2 DEF ConfAppender
<1>10. ASSUME NEW s \in Setters, ConfEnd(s) \/ ConfStore(s) PROVE FormatInv'
    BY <1>10, FormatFrame DEF ConfEnd, ConfStore
<1>11. CASE UNCHANGED vars BY <1>11, FormatFrame DEF vars
<1> QED BY <1>1, <1>2, <1>3, <1>4, <1>5, <1>6, <1>7, <1>8, <1>9, <1>10, <1>11 DEF Next

\* log() never follows a null formatter: every appender of every logger has
\* one, whatever the patterns of the configurations and of the application,
\* with any number of threads and setters at once.
THEOREM FormattersPresent == Spec => []FormatterPresent
<1>1. Init => FormatInv BY FormatInvInit
<1>2. FormatInv /\ [Next]_vars => FormatInv' BY FormatInvStep
<1>3. FormatInv => FormatterPresent BY DEF FormatInv, Formatted, FormatterPresent
<1> QED BY <1>1, <1>2, <1>3, PTL DEF Spec

-----------------------------------------------------------------------------
(* No event is lost.                                                       *)

JobInv ==
    /\ reconf \in [Setters -> {None} \union Jobs]
    /\ m_val \in Configs \union {[n \in Loggers |-> None]}

\* Neither the application nor a configuration changes the root logger.
RootLeftAlone ==
    /\ Root \notin AppNames
    /\ \A c \in Configs : c[Root] = None

RootInv ==
    /\ JobInv
    /\ m_val[Root] = None
    /\ \A s \in Setters : Busy(s) => Root \notin reconf[s].todo \union reconf[s].gone \union {reconf[s].at}
    /\ Root \in loggers
    /\ m_appenders \in [Loggers -> Elements(m_appenders)]
    /\ m_appenders[Root] # <<>>
    /\ EventKept

\* An event that was accepted has one of the levels of events.
EventInv ==
    /\ pc = [t \in Threads |-> pc[t]] /\ event = [t \in Threads |-> event[t]]
    /\ \A t \in Threads : pc[t] = "log" => event[t].level \in Levels

\* The root logger drops nothing.
LevelInv == m_level = [n \in Loggers |-> m_level[n]] /\ m_level[Root] = DEBUG

\* The job of setter s after a step of it.
Job(s, T, G, n, p, i) ==
    [conf |-> reconf[s].conf, todo |-> T, gone |-> G, at |-> n, step |-> p, i |-> i]
Becomes(s, r) == reconf' = [reconf EXCEPT ![s] = r]

\* A job taken apart, and put together again.
LEMMA JobFields ==
    ASSUME JobInv, NEW s \in Setters, Busy(s)
    PROVE  /\ reconf[s] \in Jobs /\ reconf[s].conf \in Configs
           /\ reconf[s].todo \subseteq Loggers /\ reconf[s].gone \subseteq Loggers
           /\ reconf[s].at \in Loggers \union {None} /\ reconf[s].i \in Nat
           /\ reconf[s] = Job(s, reconf[s].todo, reconf[s].gone, reconf[s].at, reconf[s].step,
                              reconf[s].i)
BY DEF JobInv, Jobs, Busy, Job

\* What each step of the listener makes of the job.
LEMMA JobLevel ==
    ASSUME JobInv, NEW s \in Setters, NEW n, ConfLevel(s, n)
    PROVE  Becomes(s, Job(s, reconf[s].todo, reconf[s].gone, n, "formatter", reconf[s].i))
BY JobFields DEF ConfLevel, At, Becomes, Job, JobInv

LEMMA JobFormatter ==
    ASSUME JobInv, NEW s \in Setters, ConfFormatter(s)
    PROVE  Becomes(s, Job(s, reconf[s].todo, reconf[s].gone, reconf[s].at, "clear", reconf[s].i))
<1>1. reconf[s] \in Jobs BY JobFields DEF ConfFormatter, At
<1>2. [reconf[s] EXCEPT !.step = "clear"] =
        Job(s, reconf[s].todo, reconf[s].gone, reconf[s].at, "clear", reconf[s].i)
    BY <1>1 DEF Jobs, Job
<1>3. reconf' = [reconf EXCEPT ![s] = [reconf[s] EXCEPT !.step = "clear"]] BY DEF ConfFormatter
<1> QED BY <1>2, <1>3 DEF Becomes

LEMMA JobClear ==
    ASSUME JobInv, NEW s \in Setters, ConfClear(s)
    PROVE  Becomes(s, Job(s, reconf[s].todo, reconf[s].gone, reconf[s].at, "appenders", 1))
<1>1. reconf[s] \in Jobs BY JobFields DEF ConfClear, At
<1>2. [reconf[s] EXCEPT !.step = "appenders", !.i = 1] =
        Job(s, reconf[s].todo, reconf[s].gone, reconf[s].at, "appenders", 1)
    <2>1. PICK r \in Jobs : r = [reconf[s] EXCEPT !.step = "appenders"]
        BY <1>1 DEF Jobs
    <2>2. /\ r.conf = reconf[s].conf /\ r.todo = reconf[s].todo /\ r.gone = reconf[s].gone
          /\ r.at = reconf[s].at /\ r.step = "appenders"
        BY <1>1, <2>1 DEF Jobs
    <2>3. [r EXCEPT !.i = 1] = [conf |-> r.conf, todo |-> r.todo, gone |-> r.gone, at |-> r.at,
                                step |-> r.step, i |-> 1]
        <3>1. r = [conf |-> r.conf, todo |-> r.todo, gone |-> r.gone, at |-> r.at,
                   step |-> r.step, i |-> r.i]
            BY <2>1 DEF Jobs
        <3>2. \A c, T, G, n, p, j, k :
                [[conf |-> c, todo |-> T, gone |-> G, at |-> n, step |-> p, i |-> j] EXCEPT !.i = k]
                = [conf |-> c, todo |-> T, gone |-> G, at |-> n, step |-> p, i |-> k]
            OBVIOUS
        <3> QED BY <3>1, <3>2
    <2> QED BY <2>1, <2>2, <2>3 DEF Job
<1>3. reconf' = [reconf EXCEPT ![s] = [reconf[s] EXCEPT !.step = "appenders", !.i = 1]] BY DEF ConfClear
<1> QED BY <1>2, <1>3 DEF Becomes

LEMMA JobAppender ==
    ASSUME JobInv, NEW s \in Setters, ConfAppender(s)
    PROVE  LET r == reconf[s]  A == r.conf[r.at].appenders IN
           \/ /\ r.i <= Len(A)
              /\ Becomes(s, Job(s, r.todo, r.gone, r.at, "appenders", r.i + 1))
           \/ /\ r.i > Len(A)
              /\ Becomes(s, Job(s, r.todo \ {r.at}, r.gone, None, "next", r.i))
BY JobFields DEF ConfAppender, At, Becomes, Job, JobInv

LEMMA JobGone ==
    ASSUME JobInv, NEW s \in Setters, NEW n, ConfGone(s, n)
    PROVE  Becomes(s, Job(s, reconf[s].todo, reconf[s].gone, n, "clear", reconf[s].i))
BY JobFields DEF ConfGone, At, Becomes, Job, JobInv

LEMMA JobGoneClear ==
    ASSUME JobInv, NEW s \in Setters, ConfGoneClear(s)
    PROVE  Becomes(s, Job(s, reconf[s].todo, reconf[s].gone \ {reconf[s].at}, None, "next",
                          reconf[s].i))
BY JobFields DEF ConfGoneClear, At, Becomes, Job, JobInv

LEMMA JobEnd ==
    ASSUME JobInv, NEW s \in Setters, ConfEnd(s)
    PROVE  Becomes(s, Job(s, reconf[s].todo, reconf[s].gone, reconf[s].at, "store", reconf[s].i))
<1>1. reconf[s] \in Jobs BY JobFields DEF ConfEnd, At
<1>2. [reconf[s] EXCEPT !.step = "store"] =
        Job(s, reconf[s].todo, reconf[s].gone, reconf[s].at, "store", reconf[s].i)
    BY <1>1 DEF Jobs, Job
<1>3. reconf' = [reconf EXCEPT ![s] = [reconf[s] EXCEPT !.step = "store"]] BY DEF ConfEnd
<1> QED BY <1>2, <1>3 DEF Becomes

Steps == {"next", "formatter", "clear", "appenders", "store"}

\* A job after a step is a job, with the fields it was made from.
LEMMA JobMade ==
    ASSUME NEW s, reconf[s].conf \in Configs, NEW T, T \subseteq Loggers, NEW G, G \subseteq Loggers,
           NEW n, n \in Loggers \union {None}, NEW p \in Steps, NEW i \in Nat
    PROVE  LET r == Job(s, T, G, n, p, i) IN
           /\ r \in Jobs /\ r.conf = reconf[s].conf /\ r.todo = T /\ r.gone = G
           /\ r.at = n /\ r.step = p /\ r.i = i
BY DEF Job, Jobs, Steps

\* The other jobs stay as they are.
LEMMA JobMoves ==
    ASSUME JobInv, UNCHANGED m_val, NEW s \in Setters, NEW r \in Jobs, Becomes(s, r)
    PROVE  /\ JobInv' /\ Busy(s)' /\ reconf'[s] = r
           /\ \A u \in Setters : u # s => reconf'[u] = reconf[u]
<1>1. r # None BY LoggerAssumption
<1> QED BY <1>1 DEF JobInv, Becomes, Busy

\* The listener is called.
LEMMA JobBegins ==
    ASSUME JobInv, NEW s \in Setters, NEW c \in Configs, ConfBegin(s, c)
    PROVE  /\ JobInv'
           /\ Busy(s)' /\ \A u \in Setters : u # s => reconf'[u] = reconf[u]
           /\ reconf'[s].conf = c /\ reconf'[s].at = None /\ reconf'[s].step = "next"
           /\ reconf'[s].todo = {n \in Loggers : c[n] # None
                                    /\ (m_val[n] = None \/ ~SameDefine(c[n], m_val[n]))}
           /\ reconf'[s].gone = {n \in Loggers : m_val[n] # None /\ c[n] = None}
<1> DEFINE T == {n \in Loggers : c[n] # None /\ (m_val[n] = None \/ ~SameDefine(c[n], m_val[n]))}
<1> DEFINE G == {n \in Loggers : m_val[n] # None /\ c[n] = None}
<1> DEFINE r == [conf |-> c, todo |-> T, gone |-> G, at |-> None, step |-> "next", i |-> 1]
<1>1. reconf' = [reconf EXCEPT ![s] = r] BY DEF ConfBegin
<1>2. T \in SUBSET Loggers /\ G \in SUBSET Loggers OBVIOUS
<1> HIDE DEF T, G
<1>3. /\ r \in Jobs /\ r.conf = c /\ r.todo = T /\ r.gone = G /\ r.at = None /\ r.step = "next"
    BY <1>2 DEF Jobs
<1> HIDE DEF r
<1>4. reconf'[s] = r /\ \A u \in Setters : u # s => reconf'[u] = reconf[u]
    BY <1>1 DEF JobInv
<1>5. r # None BY <1>3, LoggerAssumption
<1>6. reconf' \in [Setters -> {None} \union Jobs] BY <1>1, <1>3 DEF JobInv
<1>7. m_val' = m_val BY DEF ConfBegin, SetValue
<1> QED BY <1>3, <1>4, <1>5, <1>6, <1>7 DEF JobInv, Busy, T, G

\* The value is stored, and the setter has done its job.
LEMMA JobEnds ==
    ASSUME JobInv, NEW s \in Setters, ConfStore(s)
    PROVE  /\ JobInv'
           /\ ~Busy(s)' /\ \A u \in Setters : u # s => reconf'[u] = reconf[u]
           /\ m_val' = reconf[s].conf /\ reconf[s].conf \in Configs
<1>1. Busy(s) /\ reconf' = [reconf EXCEPT ![s] = None] /\ m_val' = reconf[s].conf
    BY DEF ConfStore, At
<1>2. reconf[s].conf \in Configs BY <1>1, JobFields
<1> QED BY <1>1, <1>2 DEF JobInv, Busy

LEMMA JobInvInit == Init => JobInv
BY DEF Init, JobInv

\* A step that changes logger n at most.
Changes(n) ==
    \/ GetLoggers({n}) \/ ClearAppenders(n)
    \/ \E l : SetLevel(n, l)
    \/ \E q : SetFormatter(n, q)
    \/ \E a : AddAppender(n, a)
    \/ \E i : DelAppender(n, i)
    \/ UNCHANGED <<loggers, m_level, m_formatter, m_appenders>>

\* A step that changes another logger leaves the root logger its appenders.
LEMMA RootStays ==
    ASSUME RootInv, NEW n, n # Root, Changes(n)
    PROVE  /\ Root \in loggers'
           /\ m_appenders' \in [Loggers -> Elements(m_appenders')]
           /\ m_appenders'[Root] # <<>>
<1>1. Root \in Loggers BY DEF Loggers
<1>2. Root \in loggers' BY DEF Changes, RootInv, SetLevel, ClearAppenders, SetFormatter, AddAppender,
                               DelAppender, GetLoggers
<1>3. m_appenders'[Root] = m_appenders[Root] /\ m_appenders' = [k \in Loggers |-> m_appenders'[k]]
    <2>1. CASE m_appenders' = m_appenders BY <2>1 DEF RootInv
    <2>2. CASE \E B : m_appenders' = [m_appenders EXCEPT ![n] = B] BY <1>1, <2>2 DEF RootInv
    <2>3. CASE GetLoggers({n}) BY <1>1, <2>3 DEF RootInv, GetLoggers
    <2> QED BY <2>1, <2>2, <2>3 DEF Changes, SetLevel, ClearAppenders, SetFormatter, AddAppender, DelAppender
<1>4. m_appenders' \in [Loggers -> Elements(m_appenders')] BY <1>3 DEF Elements
<1> QED BY <1>2, <1>3, <1>4 DEF RootInv

\* A job that keeps away from the root logger goes on doing so.
LEMMA RootJob ==
    ASSUME RootInv, NEW s \in Setters, Busy(s), UNCHANGED m_val,
           NEW T, T \subseteq reconf[s].todo, NEW G, G \subseteq reconf[s].gone,
           NEW n \in (Loggers \ {Root}) \union {None},
           NEW p \in Steps, NEW i \in Nat, Becomes(s, Job(s, T, G, n, p, i))
    PROVE  /\ JobInv' /\ m_val'[Root] = None
           /\ \A u \in Setters : Busy(u)' =>
                Root \notin reconf'[u].todo \union reconf'[u].gone \union {reconf'[u].at}
<1>1. T \subseteq Loggers /\ G \subseteq Loggers /\ n \in Loggers \union {None}
    BY JobFields DEF RootInv
<1>2. None # Root BY LoggerAssumption DEF Loggers
<1>3. Root \notin reconf[s].todo \union reconf[s].gone BY DEF RootInv
<1>4. /\ JobInv' /\ \A u \in Setters : u # s => reconf'[u] = reconf[u]
      /\ reconf'[s].todo = T /\ reconf'[s].gone = G /\ reconf'[s].at = n
    <2> DEFINE r == Job(s, T, G, n, p, i)
    <2>1. JobInv /\ reconf[s].conf \in Configs BY JobFields DEF RootInv
    <2>2. r \in Jobs /\ r.todo = T /\ r.gone = G /\ r.at = n BY <1>1, <2>1, JobMade
    <2> HIDE DEF r
    <2>3. Becomes(s, r) BY DEF r
    <2> QED BY <2>1, <2>2, <2>3, JobMoves
<1> QED BY <1>2, <1>3, <1>4 DEF RootInv, Busy

\* The jobs stay as they are.
LEMMA RootNoJob ==
    ASSUME RootInv, UNCHANGED <<m_val, reconf>>
    PROVE  /\ JobInv' /\ m_val'[Root] = None
           /\ \A u \in Setters : Busy(u)' =>
                Root \notin reconf'[u].todo \union reconf'[u].gone \union {reconf'[u].at}
BY DEF RootInv, JobInv, Busy

LEMMA EventInvStep ==
    ASSUME EventInv, [Next]_vars
    PROVE  EventInv'
<1>1. ASSUME NEW t \in Threads, NEW n \in Loggers, NEW l \in Levels, LogAccept(t, n, l)
      PROVE  EventInv'
    BY <1>1 DEF LogAccept, EventInv
<1>2. ASSUME NEW t \in Threads, LogWrite(t) \/ LogToRoot(t) \/ RootWrite(t)
      PROVE  EventInv'
    <2>1. pc' \in {[pc EXCEPT ![t] = "idle"], [pc EXCEPT ![t] = "root"]}
        BY <1>2 DEF LogWrite, LogToRoot, RootWrite, LogDone
    <2>2. event' \in {event, [event EXCEPT ![t] = None]}
        BY <1>2 DEF LogWrite, LogToRoot, RootWrite, LogDone
    <2> QED BY <2>1, <2>2 DEF EventInv
<1>3. CASE UNCHANGED <<pc, event>>
    BY <1>3 DEF EventInv
<1> QED
    BY <1>1, <1>2, <1>3
    DEF Next, vars, AppCall, ConfSame, ConfBegin, SetValue, ConfLevel, ConfGone, ConfFormatter, ConfClear,
        ConfAppender, ConfGoneClear, ConfEnd, ConfStore, ListenerStays, logVars

LEMMA LevelInvStep ==
    ASSUME RootLeftAlone, RootInv, LevelInv, [Next]_vars
    PROVE  LevelInv'
<1>0. Root \in Loggers BY DEF Loggers
<1>1. ASSUME NEW n, n # Root, NEW l, m_level' = [m_level EXCEPT ![n] = l]
      PROVE  LevelInv'
    BY <1>0, <1>1 DEF LevelInv
<1>2. CASE UNCHANGED m_level
    BY <1>2 DEF LevelInv
<1>3. CASE AppCall
    <2>1. \/ UNCHANGED m_level
          \/ \E n \in AppNames, l \in Levels : m_level' = [m_level EXCEPT ![n] = l]
        BY <1>3 DEF AppCall, SetLevel, SetFormatter, AddAppender, DelAppender, ClearAppenders
    <2> QED BY <1>1, <1>2, <2>1 DEF RootLeftAlone
<1>4. ASSUME NEW s \in Setters, NEW n \in Loggers, ConfLevel(s, n) \/ ConfGone(s, n)
      PROVE  LevelInv'
    <2>1. n # Root BY <1>4 DEF ConfLevel, ConfGone, At, RootInv
    <2>2. \E l : m_level' = [m_level EXCEPT ![n] = l] BY <1>4 DEF ConfLevel, ConfGone, SetLevel
    <2> QED BY <1>1, <2>1, <2>2
<1>5. ASSUME NEW t \in Threads,
             \/ \E n \in Loggers, l \in Levels : LogAccept(t, n, l)
             \/ LogWrite(t) \/ LogToRoot(t) \/ RootWrite(t)
      PROVE  UNCHANGED m_level
    BY <1>5 DEF LogAccept, LogWrite, LogToRoot, RootWrite, LogDone
<1>6. ASSUME NEW s \in Setters,
             \/ \E c \in Configs : ConfSame(s, c) \/ ConfBegin(s, c)
             \/ ConfFormatter(s) \/ ConfClear(s) \/ ConfAppender(s) \/ ConfGoneClear(s)
             \/ ConfEnd(s) \/ ConfStore(s)
      PROVE  UNCHANGED m_level
    BY <1>6 DEF ConfSame, ConfBegin, SetValue, ConfFormatter, ConfClear, ConfAppender, ConfGoneClear, ConfEnd,
                ConfStore, SetFormatter, AddAppender, ClearAppenders
<1> QED BY <1>2, <1>3, <1>4, <1>5, <1>6 DEF Next, vars

LEMMA RootInvStep ==
    ASSUME RootLeftAlone, RootInv, EventInv, LevelInv, [Next]_vars
    PROVE  RootInv'
<1> USE DEF EventKept
<1>0. Root \in Loggers /\ None # Root BY LoggerAssumption DEF Loggers
\* The steps that log change neither jobs nor loggers.
<1>1. ASSUME UNCHANGED <<loggers, m_level, m_formatter, m_appenders, m_val, reconf>>, lost' = {}
      PROVE  RootInv'
    <2>1. None # Root /\ Changes(None) BY <1>0, <1>1 DEF Changes
    <2>2. UNCHANGED <<m_val, reconf>> BY <1>1
    <2>3. /\ Root \in loggers' /\ m_appenders' \in [Loggers -> Elements(m_appenders')]
          /\ m_appenders'[Root] # <<>>
        BY <1>1, <2>1, RootStays
    <2> QED BY <1>1, <2>2, <2>3, RootNoJob DEF RootInv, Elements
<1>2. ASSUME NEW t \in Threads, NEW n \in Loggers, NEW l \in Levels, LogAccept(t, n, l)
      PROVE  RootInv'
    BY <1>1, <1>2 DEF LogAccept, confVars, RootInv
<1>3. ASSUME NEW t \in Threads, NEW n, LogDone(t, n), m_appenders[n] # <<>>
      PROVE  RootInv'
    BY <1>1, <1>3 DEF LogDone, confVars, RootInv
<1>4. ASSUME NEW t \in Threads, LogWrite(t) PROVE RootInv'
    BY <1>3, <1>4 DEF LogWrite, RootInv
<1>5. ASSUME NEW t \in Threads, LogToRoot(t) PROVE RootInv'
    <2>1. event[t].level \in 1 .. 5 /\ m_level[Root] = 1
        BY <1>5, LoggerAssumption DEF LogToRoot, EventInv, LevelInv, DEBUG
    <2>2. ~(event[t].level < m_level[Root]) BY <2>1
    <2> QED BY <1>1, <1>5, <2>2 DEF LogToRoot, confVars, RootInv
<1>6. ASSUME NEW t \in Threads, RootWrite(t) PROVE RootInv'
    BY <1>3, <1>6 DEF RootWrite, RootInv
<1>7. CASE AppCall
    <2>1. UNCHANGED <<m_val, reconf, lost>> BY <1>7 DEF AppCall, confVars, logVars
    <2>2. PICK n \in AppNames : Changes(n) BY <1>7 DEF AppCall, Changes
    <2>3. n # Root BY DEF RootLeftAlone
    <2>4. /\ Root \in loggers' /\ m_appenders' \in [Loggers -> Elements(m_appenders')]
          /\ m_appenders'[Root] # <<>>
        BY <2>2, <2>3, RootStays
    <2> QED BY <2>1, <2>4, RootNoJob DEF RootInv, Elements
<1>8. ASSUME NEW s \in Setters, NEW c \in Configs, ConfSame(s, c) PROVE RootInv'
    BY <1>1, <1>8 DEF ConfSame, SetValue, logVars, RootInv
<1>9. ASSUME NEW s \in Setters, NEW c \in Configs, ConfBegin(s, c) PROVE RootInv'
    <2>1. UNCHANGED <<loggers, m_level, m_formatter, m_appenders, m_val, lost>>
        BY <1>9 DEF ConfBegin, SetValue, logVars
    <2>2. c[Root] = None BY DEF RootLeftAlone
    <2>3. m_val[Root] = None /\ JobInv BY DEF RootInv
    <2>4. Root \notin reconf'[s].todo \union reconf'[s].gone \union {reconf'[s].at}
        BY <1>0, <1>9, <2>2, <2>3, JobBegins
    <2>5. JobInv' /\ \A u \in Setters : u # s => reconf'[u] = reconf[u] BY <1>9, <2>3, JobBegins
    <2>6. \A u \in Setters : Busy(u)' =>
            Root \notin reconf'[u].todo \union reconf'[u].gone \union {reconf'[u].at}
        BY <2>4, <2>5 DEF RootInv, Busy
    <2> QED BY <2>1, <2>5, <2>6 DEF RootInv, Elements
\* A step of the listener that changes logger n.
<1>10. ASSUME NEW s \in Setters, Busy(s), ListenerStays,
             NEW T, T \subseteq reconf[s].todo, NEW G, G \subseteq reconf[s].gone,
             NEW m \in (Loggers \ {Root}) \union {None},
             NEW p \in Steps, NEW i \in Nat, Becomes(s, Job(s, T, G, m, p, i)),
             NEW n, n # Root, Changes(n)
      PROVE  RootInv'
    <2>1. UNCHANGED m_val /\ UNCHANGED lost BY <1>10 DEF ListenerStays, logVars
    <2>2. /\ Root \in loggers' /\ m_appenders' \in [Loggers -> Elements(m_appenders')]
          /\ m_appenders'[Root] # <<>>
        BY <1>10, RootStays
    <2>3. /\ JobInv' /\ m_val'[Root] = None
          /\ \A u \in Setters : Busy(u)' =>
                Root \notin reconf'[u].todo \union reconf'[u].gone \union {reconf'[u].at}
        BY <1>10, <2>1, RootJob
    <2> QED BY <2>1, <2>2, <2>3 DEF RootInv, Elements
<1>11. ASSUME NEW s \in Setters, Busy(s)
       PROVE  /\ reconf[s].at \in (Loggers \ {Root}) \union {None} /\ reconf[s].at # Root
              /\ reconf[s].i \in Nat /\ JobInv
              /\ Root \notin reconf[s].todo /\ Root \notin reconf[s].gone
              /\ reconf[s].todo \subseteq Loggers /\ reconf[s].gone \subseteq Loggers
    BY <1>11, JobFields DEF RootInv
<1>12. ASSUME NEW s \in Setters, NEW n \in Loggers, ConfLevel(s, n) PROVE RootInv'
    <2>1. Busy(s) /\ n \in reconf[s].todo /\ Changes(n) /\ ListenerStays
        BY <1>12 DEF ConfLevel, At, Changes
    <2>2. n # Root BY <1>11, <2>1
    <2>3. Becomes(s, Job(s, reconf[s].todo, reconf[s].gone, n, "formatter", reconf[s].i))
        BY <1>11, <1>12, <2>1, JobLevel
    <2> QED BY <1>10, <1>11, <2>1, <2>2, <2>3 DEF Steps
<1>13. ASSUME NEW s \in Setters, NEW n \in Loggers, ConfGone(s, n) PROVE RootInv'
    <2>1. Busy(s) /\ n \in reconf[s].gone /\ Changes(n) /\ ListenerStays
        BY <1>13 DEF ConfGone, At, Changes
    <2>2. n # Root BY <1>11, <2>1
    <2>3. Becomes(s, Job(s, reconf[s].todo, reconf[s].gone, n, "clear", reconf[s].i))
        BY <1>11, <1>13, <2>1, JobGone
    <2> QED BY <1>10, <1>11, <2>1, <2>2, <2>3 DEF Steps
<1>14. ASSUME NEW s \in Setters, ConfFormatter(s) PROVE RootInv'
    <2>1. Busy(s) /\ ListenerStays /\ Changes(reconf[s].at)
        BY <1>14 DEF ConfFormatter, At, Changes
    <2>2. Becomes(s, Job(s, reconf[s].todo, reconf[s].gone, reconf[s].at, "clear", reconf[s].i))
        BY <1>11, <1>14, <2>1, JobFormatter
    <2> QED BY <1>10, <1>11, <2>1, <2>2 DEF Steps
<1>15. ASSUME NEW s \in Setters, ConfClear(s) PROVE RootInv'
    <2>1. Busy(s) /\ ListenerStays /\ Changes(reconf[s].at) BY <1>15 DEF ConfClear, At, Changes
    <2>2. Becomes(s, Job(s, reconf[s].todo, reconf[s].gone, reconf[s].at, "appenders", 1))
        BY <1>11, <1>15, <2>1, JobClear
    <2> QED BY <1>10, <1>11, <2>1, <2>2 DEF Steps
<1>16. ASSUME NEW s \in Setters, ConfAppender(s) PROVE RootInv'
    <2>1. Busy(s) /\ ListenerStays /\ Changes(reconf[s].at)
        BY <1>16 DEF ConfAppender, At, Changes
    <2>2. \/ Becomes(s, Job(s, reconf[s].todo, reconf[s].gone, reconf[s].at, "appenders", reconf[s].i + 1))
          \/ Becomes(s, Job(s, reconf[s].todo \ {reconf[s].at}, reconf[s].gone, None, "next", reconf[s].i))
        BY <1>11, <1>16, <2>1, JobAppender
    <2>3. CASE Becomes(s, Job(s, reconf[s].todo, reconf[s].gone, reconf[s].at, "appenders", reconf[s].i + 1))
        <3>1. reconf[s].i + 1 \in Nat BY <1>11, <2>1
        <3> QED BY <1>10, <1>11, <2>1, <2>3, <3>1 DEF Steps
    <2>4. CASE Becomes(s, Job(s, reconf[s].todo \ {reconf[s].at}, reconf[s].gone, None, "next", reconf[s].i))
        BY <1>10, <1>11, <2>1, <2>4 DEF Steps
    <2> QED BY <2>2, <2>3, <2>4
<1>17. ASSUME NEW s \in Setters, ConfGoneClear(s) PROVE RootInv'
    <2>1. Busy(s) /\ ListenerStays /\ Changes(reconf[s].at)
        BY <1>17 DEF ConfGoneClear, At, Changes
    <2>2. Becomes(s, Job(s, reconf[s].todo, reconf[s].gone \ {reconf[s].at}, None, "next",
                         reconf[s].i))
        BY <1>11, <1>17, <2>1, JobGoneClear
    <2> QED BY <1>10, <1>11, <2>1, <2>2 DEF Steps
<1>18. ASSUME NEW s \in Setters, ConfEnd(s) PROVE RootInv'
    <2>1. Busy(s) /\ ListenerStays /\ Changes(reconf[s].at)
        BY <1>18 DEF ConfEnd, At, Changes
    <2>2. Becomes(s, Job(s, reconf[s].todo, reconf[s].gone, reconf[s].at, "store", reconf[s].i))
        BY <1>11, <1>18, <2>1, JobEnd
    <2> QED BY <1>10, <1>11, <2>1, <2>2 DEF Steps
<1>19. ASSUME NEW s \in Setters, ConfStore(s) PROVE RootInv'
    <2>1. UNCHANGED <<loggers, m_level, m_formatter, m_appenders, lost>>
        BY <1>19 DEF ConfStore, logVars
    <2>2. /\ JobInv' /\ m_val' = reconf[s].conf /\ reconf[s].conf \in Configs
          /\ ~Busy(s)' /\ \A u \in Setters : u # s => reconf'[u] = reconf[u]
        BY <1>19, JobEnds DEF RootInv
    <2>3. m_val'[Root] = None BY <2>2 DEF RootLeftAlone
    <2>4. \A u \in Setters : Busy(u)' =>
            Root \notin reconf'[u].todo \union reconf'[u].gone \union {reconf'[u].at}
        BY <2>2 DEF RootInv, Busy
    <2> QED BY <2>1, <2>2, <2>3, <2>4 DEF RootInv, Elements
<1>20. CASE UNCHANGED vars BY <1>1, <1>20 DEF vars, RootInv
<1> QED BY <1>2, <1>4, <1>5, <1>6, <1>7, <1>8, <1>9, <1>12, <1>13, <1>14, <1>15, <1>16, <1>17,
           <1>18, <1>19, <1>20 DEF Next

LEMMA RootInvInit ==
    ASSUME RootLeftAlone, Init
    PROVE  RootInv
<1>1. Root \in Loggers BY DEF Loggers
<1>2. m_appenders[Root] = Defaults(Root) \o Defaults(Root) BY <1>1 DEF Init
<1>3. m_appenders[Root] # <<>>
    <2>1. PICK a, b : Defaults(Root) = <<a, b>> BY DEF Defaults
    <2>2. Defaults(Root) \in Seq({a, b}) /\ Len(Defaults(Root)) = 2 BY <2>1
    <2>3. \A D \in Seq({a, b}) : Len(D \o D) = Len(D) + Len(D) OBVIOUS
    <2> QED BY <1>2, <2>2, <2>3
<1>4. m_appenders \in [Loggers -> Elements(m_appenders)] BY DEF Init, Elements
<1> QED BY <1>1, <1>3, <1>4, JobInvInit DEF Init, RootInv, Busy, EventKept

\* An event that a logger accepted is written, by its own appenders or by the
\* root logger, whatever the setters do to the logger meanwhile: for every
\* number of threads, setters and configurations that leave the root logger
\* alone.  A configuration of the root logger can lose events.
THEOREM EventsKept ==
    ASSUME RootLeftAlone
    PROVE  Spec => []EventKept
<1>1. Init => RootInv /\ EventInv /\ LevelInv
    BY RootInvInit DEF Init, EventInv, LevelInv, Loggers
<1>2. RootInv /\ EventInv /\ LevelInv /\ [Next]_vars => (RootInv /\ EventInv /\ LevelInv)'
    BY RootInvStep, EventInvStep, LevelInvStep
<1>3. RootInv => EventKept BY DEF RootInv
<1> QED BY <1>1, <1>2, <1>3, PTL DEF Spec

-----------------------------------------------------------------------------
(* A reconfiguration is complete.                                          *)

\* The loggers of the application are not configured, and definitions that
\* operator== of LogDefine holds for the same are.
Distinguished ==
    /\ \A c \in Configs, n \in AppNames : c[n] = None
    /\ \A c, d \in Configs, n \in Loggers :
        c[n] # None /\ d[n] # None /\ SameDefine(c[n], d[n]) => c[n] = d[n]

\* The appenders of definition d before i are attached to logger n.
AppliedUpTo(n, d, i) ==
    LET K == {j \in Kept(d) : j < i} IN
    /\ Len(m_appenders[n]) = Cardinality(K)
    /\ \A j \in K : Fits(n, m_appenders[n][Place(d, j)], d.appenders[j])

LevelSet(n, d) == m_level[n] = d.level
PatternSet(n, d) == d.formatter \notin BadPatterns \union {None} => m_formatter[n] = d.formatter

\* How far the job of a setter has come, if it is alone.
JobDone(r) ==
    /\ \A n \in Loggers \ r.todo : r.conf[n] # None => Applied(n, r.conf[n])
    /\ \A n \in r.todo : r.conf[n] # None
    /\ \A n \in r.gone : r.conf[n] = None
    /\ r.step = "formatter" => r.at \in r.todo /\ LevelSet(r.at, r.conf[r.at])
    /\ r.step = "clear" /\ r.at \in r.todo => LevelSet(r.at, r.conf[r.at]) /\ PatternSet(r.at, r.conf[r.at])
    /\ r.step = "appenders" =>
        /\ r.at \in r.todo
        /\ LevelSet(r.at, r.conf[r.at]) /\ PatternSet(r.at, r.conf[r.at])
        /\ r.i \in 1 .. Len(r.conf[r.at].appenders) + 1
        /\ AppliedUpTo(r.at, r.conf[r.at], r.i)
    /\ r.step = "store" => r.todo = {}

AppliedInv ==
    /\ FormatInv /\ JobInv
    /\ m_level \in [Loggers -> Elements(m_level)]
    /\ overlap \in BOOLEAN
    /\ ~overlap =>
        /\ \A s, u \in Setters : Busy(s) /\ Busy(u) => s = u
        /\ (\A s \in Setters : ~Busy(s)) => \A n \in Loggers :
            /\ m_val[n] = asked[n]
            /\ asked[n] # None => Applied(n, asked[n])
        /\ \A s \in Setters : Busy(s) => asked = reconf[s].conf /\ JobDone(reconf[s])

\* Logger k stays as it is; a step that changes logger n at most.
Same(k) ==
    /\ m_level'[k] = m_level[k] /\ m_formatter'[k] = m_formatter[k]
    /\ m_appenders'[k] = m_appenders[k]
Only(n) ==
    /\ \/ m_level' = m_level
       \/ \E l : m_level' = [m_level EXCEPT ![n] = l]
    /\ \/ m_formatter' = m_formatter
       \/ \E p : m_formatter' = [m_formatter EXCEPT ![n] = p]
    /\ \/ m_appenders' = m_appenders
       \/ \E B : m_appenders' = [m_appenders EXCEPT ![n] = B]
       \/ GetLoggers({n})

LEMMA OnlyOthers ==
    ASSUME AppliedInv, NEW n, Only(n)
    PROVE  /\ \A k \in Loggers : k # n => Same(k)
           /\ m_level' \in [Loggers -> Elements(m_level')]
<1>1. /\ m_level \in [Loggers -> Elements(m_level)]
      /\ m_formatter \in [Loggers -> Elements(m_formatter)]
      /\ m_appenders \in [Loggers -> Elements(m_appenders)]
    BY DEF AppliedInv, FormatInv
<1>2. ASSUME NEW k \in Loggers, k # n PROVE Same(k)
    <2>1. m_level'[k] = m_level[k] BY <1>1, <1>2 DEF Only
    <2>2. m_formatter'[k] = m_formatter[k] BY <1>1, <1>2 DEF Only
    <2>3. m_appenders'[k] = m_appenders[k] BY <1>1, <1>2 DEF Only, GetLoggers
    <2> QED BY <2>1, <2>2, <2>3 DEF Same
<1>3. m_level' = [k \in Loggers |-> m_level'[k]] BY <1>1 DEF Only
<1>4. m_level' \in [Loggers -> Elements(m_level')] BY <1>3 DEF Elements
<1> QED BY <1>2, <1>4

\* What is applied to a logger stays applied while the logger stays.
LEMMA AppliedFrame ==
    ASSUME NEW k, Same(k), NEW d, NEW i
    PROVE  /\ Applied(k, d) => Applied(k, d)'
           /\ AppliedUpTo(k, d, i) => AppliedUpTo(k, d, i)'
           /\ LevelSet(k, d) => LevelSet(k, d)'
           /\ PatternSet(k, d) => PatternSet(k, d)'
BY DEF Same, Applied, AppliedUpTo, LevelSet, PatternSet, Fits, Kept, Place

LEMMA JobDoneFrame ==
    ASSUME NEW r \in Jobs, JobDone(r), \A k \in Loggers : r.conf[k] # None => Same(k)
    PROVE  JobDone(r)'
<1>1. r.todo \subseteq Loggers BY DEF Jobs
<1>2. \A k \in Loggers : \A d, i : r.conf[k] # None =>
        /\ Applied(k, d) => Applied(k, d)'
        /\ AppliedUpTo(k, d, i) => AppliedUpTo(k, d, i)'
        /\ LevelSet(k, d) => LevelSet(k, d)'
        /\ PatternSet(k, d) => PatternSet(k, d)'
    BY AppliedFrame
<1>3. r.at \in r.todo => r.at \in Loggers /\ r.conf[r.at] # None BY <1>1 DEF JobDone
<1>4. \A n \in Loggers \ r.todo : r.conf[n] # None => Applied(n, r.conf[n])'
    BY <1>2 DEF JobDone
<1>5. r.step = "formatter" => r.at \in r.todo /\ LevelSet(r.at, r.conf[r.at])'
    BY <1>2, <1>3 DEF JobDone
<1>6. r.step = "clear" /\ r.at \in r.todo =>
        LevelSet(r.at, r.conf[r.at])' /\ PatternSet(r.at, r.conf[r.at])'
    BY <1>2, <1>3 DEF JobDone
<1>7. r.step = "appenders" =>
        /\ r.at \in r.todo
        /\ LevelSet(r.at, r.conf[r.at])' /\ PatternSet(r.at, r.conf[r.at])'
        /\ r.i \in 1 .. Len(r.conf[r.at].appenders) + 1
        /\ AppliedUpTo(r.at, r.conf[r.at], r.i)'
    BY <1>2, <1>3 DEF JobDone
<1> QED BY <1>4, <1>5, <1>6, <1>7 DEF JobDone

-----------------------------------------------------------------------------
(* The loop over the appenders of a definition.                            *)

LEMMA KeptFinite ==
    ASSUME NEW d, Len(d.appenders) \in Nat
    PROVE  /\ Kept(d) \subseteq 1 .. Len(d.appenders)
           /\ \A S \in SUBSET Kept(d) : IsFiniteSet(S) /\ Cardinality(S) \in Nat
<1>1. IsFiniteSet(1 .. Len(d.appenders)) BY FS_Interval
<1>2. Kept(d) \subseteq 1 .. Len(d.appenders) BY DEF Kept
<1>3. ASSUME NEW S \in SUBSET Kept(d) PROVE IsFiniteSet(S) /\ Cardinality(S) \in Nat
    <2>1. S \subseteq 1 .. Len(d.appenders) BY <1>2
    <2>2. IsFiniteSet(S) BY <1>1, <2>1, FS_Subset
    <2> QED BY <2>2, FS_CardinalityType
<1> QED BY <1>2, <1>3

LEMMA LoopEnds ==
    ASSUME NEW n, NEW d, Len(d.appenders) \in Nat, NEW i \in Nat, i > Len(d.appenders),
           AppliedUpTo(n, d, i), LevelSet(n, d), PatternSet(n, d)
    PROVE  Applied(n, d)
<1>1. {j \in Kept(d) : j < i} = Kept(d) BY KeptFinite
<1> QED BY <1>1 DEF AppliedUpTo, Applied, LevelSet, PatternSet

\* The appender for stdout is passed over by a daemon.
LEMMA LoopPasses ==
    ASSUME NEW n, NEW d, Len(d.appenders) \in Nat, NEW i \in 1 .. Len(d.appenders),
           i \notin Kept(d), AppliedUpTo(n, d, i), Same(n)
    PROVE  AppliedUpTo(n, d, i + 1)'
<1>1. {j \in Kept(d) : j < i + 1} = {j \in Kept(d) : j < i} BY KeptFinite
<1>2. AppliedUpTo(n, d, i + 1) BY <1>1 DEF AppliedUpTo
<1> QED BY <1>2, AppliedFrame

\* The next appender takes the next place.
LEMMA LoopAdds ==
    ASSUME NEW n, NEW d, Len(d.appenders) \in Nat, NEW i \in 1 .. Len(d.appenders),
           i \in Kept(d), AppliedUpTo(n, d, i),
           NEW S, m_appenders[n] \in Seq(S), NEW a,
           m_appenders'[n] = Append(m_appenders[n], a), m_formatter'[n] = m_formatter[n],
           Fits(n, a, d.appenders[i])
    PROVE  AppliedUpTo(n, d, i + 1)'
<1> DEFINE K == {j \in Kept(d) : j < i}
<1> DEFINE A == m_appenders[n]
<1>1. /\ Len(A) = Cardinality(K) /\ Len(A) \in Nat
      /\ \A j \in K : Fits(n, A[Place(d, j)], d.appenders[j])
    BY DEF AppliedUpTo
<1>2. K \in SUBSET Kept(d) /\ i \notin K /\ IsFiniteSet(K) BY KeptFinite
<1>3. {j \in Kept(d) : j < i + 1} = K \union {i} /\ {j \in Kept(d) : j <= i} = K \union {i}
    BY KeptFinite
<1>4. Cardinality(K \union {i}) = Len(A) + 1 BY <1>1, <1>2, FS_AddElement
<1>5. Place(d, i) = Len(A) + 1 BY <1>3, <1>4 DEF Place
<1>6. ASSUME NEW j \in K PROVE Place(d, j) \in 1 .. Len(A)
    <2> DEFINE P == {l \in Kept(d) : l <= j}
    <2>1. P \subseteq K BY KeptFinite
    <2>2. Cardinality(P) <= Cardinality(K) BY <1>2, <2>1, FS_Subset
    <2>3. j \in P BY KeptFinite
    <2>4. IsFiniteSet(P) /\ Cardinality(P) \in Nat BY KeptFinite
    <2>5. Cardinality(P) # 0 BY <2>3, <2>4, FS_EmptySet
    <2> QED BY <1>1, <2>2, <2>4, <2>5 DEF Place
<1>7. \A x \in 1 .. Len(A) + 1 : Append(A, a)[x] = IF x <= Len(A) THEN A[x] ELSE a
    OBVIOUS
<1>8. Len(Append(A, a)) = Len(A) + 1 OBVIOUS
<1>9. \A j \in K \union {i} : Fits(n, Append(A, a)[Place(d, j)], d.appenders[j])
    <2>1. ASSUME NEW j \in K PROVE Fits(n, Append(A, a)[Place(d, j)], d.appenders[j])
        <3>1. Append(A, a)[Place(d, j)] = A[Place(d, j)] BY <1>1, <1>6, <1>7
        <3> QED BY <1>1, <3>1
    <2>2. Append(A, a)[Place(d, i)] = a BY <1>1, <1>5, <1>7
    <2> QED BY <2>1, <2>2
<1>10. \A x, e : Fits(n, x, e) => Fits(n, x, e)' BY DEF Fits
<1>11. \A x : Place(d, x)' = Place(d, x) /\ Kept(d)' = Kept(d) BY DEF Place, Kept
<1>12. /\ Len(m_appenders'[n]) = Cardinality({j \in Kept(d) : j < i + 1})
       /\ \A j \in {j \in Kept(d) : j < i + 1} : Fits(n, m_appenders'[n][Place(d, j)], d.appenders[j])
    BY <1>3, <1>4, <1>8, <1>9
<1> QED BY <1>10, <1>11, <1>12 DEF AppliedUpTo, Fits, Kept, Place

-----------------------------------------------------------------------------
(* The steps.                                                              *)

\* A step of the listener of setter s.
LEMMA ListenerStep ==
    ASSUME AppliedInv, FormatInv', NEW s \in Setters, Busy(s), ListenerStays,
           m_level' \in [Loggers -> Elements(m_level')],
           NEW r \in Jobs, r.conf = reconf[s].conf, Becomes(s, r),
           ~overlap => JobDone(r)'
    PROVE  AppliedInv'
<1>1. UNCHANGED <<m_val, asked, overlap>> BY DEF ListenerStays
<1>2. /\ JobInv' /\ Busy(s)' /\ reconf'[s] = r
      /\ \A u \in Setters : u # s => reconf'[u] = reconf[u]
    BY <1>1, JobMoves DEF AppliedInv
<1>3. \A u \in Setters : Busy(u)' <=> Busy(u) BY <1>2 DEF Busy
<1>4. ASSUME ~overlap'
      PROVE  /\ \A u, v \in Setters : Busy(u)' /\ Busy(v)' => u = v
             /\ \A u \in Setters : Busy(u)' => asked' = reconf'[u].conf /\ JobDone(reconf[u])'
    <2>1. ~overlap BY <1>1, <1>4
    <2>2. \A u \in Setters : Busy(u) => u = s BY <2>1 DEF AppliedInv
    <2>3. asked = reconf[s].conf BY <2>1 DEF AppliedInv
    <2>4. JobDone(reconf[s])' BY <2>1, <1>2 DEF JobDone
    <2> QED BY <1>1, <1>2, <1>3, <2>2, <2>3, <2>4
<1> QED BY <1>1, <1>2, <1>3, <1>4 DEF AppliedInv, Elements

\* A step that changes no job and no logger that is configured.
LEMMA OtherStep ==
    ASSUME AppliedInv, FormatInv', UNCHANGED <<m_val, asked, overlap, reconf>>,
           m_level' \in [Loggers -> Elements(m_level')],
           \A c \in Configs, k \in Loggers : c[k] # None => Same(k)
    PROVE  AppliedInv'
<1>1. JobInv' BY DEF AppliedInv, JobInv
<1>2. \A u \in Setters : Busy(u)' <=> Busy(u) BY DEF Busy
<1>3. ASSUME ~overlap, \A u \in Setters : ~Busy(u), NEW n \in Loggers
      PROVE  m_val'[n] = asked'[n] /\ (asked'[n] # None => Applied(n, asked[n])')
    <2>1. m_val[n] = asked[n] /\ (asked[n] # None => Applied(n, asked[n]))
        BY <1>3 DEF AppliedInv
    <2>2. ASSUME asked[n] # None PROVE Applied(n, asked[n])'
        <3>1. m_val \in Configs BY <2>1, <2>2 DEF AppliedInv, JobInv
        <3>2. Same(n) BY <2>1, <2>2, <3>1
        <3>3. PICK d : d = asked[n] OBVIOUS
        <3>4. Applied(n, d)' BY <2>1, <2>2, <3>2, <3>3, AppliedFrame
        <3>5. asked'[n] = d BY <3>3
        <3> QED BY <3>4, <3>5 DEF Applied
    <2> QED BY <2>1, <2>2
<1>4. ASSUME ~overlap, NEW u \in Setters, Busy(u)
      PROVE  asked' = reconf'[u].conf /\ JobDone(reconf[u])'
    <2>1. asked = reconf[u].conf /\ JobDone(reconf[u]) BY <1>4 DEF AppliedInv
    <2>2. PICK r \in Jobs : r = reconf[u] BY <1>4, JobFields DEF AppliedInv
    <2>3. r.conf \in Configs BY DEF Jobs
    <2>4. JobDone(r)' BY <2>1, <2>2, <2>3, JobDoneFrame
    <2>5. reconf'[u] = r BY <2>2
    <2> QED BY <2>1, <2>4, <2>5 DEF JobDone
<1> QED BY <1>1, <1>2, <1>3, <1>4 DEF AppliedInv, Elements

\* setValue begins, or returns at once.
LEMMA SetValueStep ==
    ASSUME Distinguished, AppliedInv, NEW s \in Setters, NEW c \in Configs,
           ConfSame(s, c) \/ ConfBegin(s, c)
    PROVE  AppliedInv'
<1>1. /\ ~Busy(s) /\ asked' = c
      /\ overlap' <=> overlap \/ \E u \in Setters : Busy(u)
      /\ UNCHANGED <<loggers, m_level, m_formatter, m_appenders, m_val>>
    BY DEF ConfSame, ConfBegin, SetValue, AppliedInv
<1>2. overlap' \in BOOLEAN BY DEF ConfSame, ConfBegin, SetValue, AppliedInv
<1>3. FormatInv' BY <1>1, FormatFrame DEF AppliedInv
<1>4. m_level' \in [Loggers -> Elements(m_level')] BY <1>1 DEF AppliedInv, Elements
<1>5. \A n \in Loggers : \A d : Applied(n, d) => Applied(n, d)'
    <2>1. \A n : Same(n) BY <1>1 DEF Same
    <2> QED BY <2>1, AppliedFrame
\* What is the same to operator== is the same, and was applied before.
<1>6. ASSUME ~overlap', NEW n \in Loggers, c[n] # None, m_val[n] # None, SameDefine(c[n], m_val[n])
      PROVE  c[n] = m_val[n] /\ Applied(n, c[n])'
    <2>1. m_val \in Configs BY <1>6 DEF AppliedInv, JobInv
    <2>2. c[n] = m_val[n] BY <1>6, <2>1 DEF Distinguished
    <2>3. m_val[n] = asked[n] /\ Applied(n, asked[n]) BY <1>1, <1>6 DEF AppliedInv
    <2>4. Applied(n, c[n]) BY <2>2, <2>3
    <2> QED BY <1>5, <2>2, <2>4
<1>7. CASE ConfSame(s, c)
    <2>1. reconf' = reconf /\ SameConfig(c, m_val) BY <1>7 DEF ConfSame
    <2>2. JobInv' BY <1>1, <2>1 DEF AppliedInv, JobInv
    <2>3. ASSUME ~overlap' PROVE \A u \in Setters : ~Busy(u)' BY <1>1, <2>1, <2>3 DEF Busy
    <2>4. ASSUME ~overlap', NEW n \in Loggers
          PROVE  m_val'[n] = asked'[n] /\ (asked'[n] # None => Applied(n, asked[n])')
        <3>1. c[n] = m_val[n] BY <1>6, <2>1, <2>4 DEF SameConfig
        <3>2. ASSUME c[n] # None PROVE Applied(n, c[n])'
            <4>1. SameDefine(c[n], m_val[n]) BY <3>1 DEF SameDefine
            <4> QED BY <1>6, <2>4, <3>1, <3>2, <4>1
        <3>3. PICK d : d = c[n] OBVIOUS
        <3>4. asked'[n] = d BY <1>1, <3>3
        <3>5. d # None => Applied(n, d)' BY <3>2, <3>3
        <3>6. d # None => Applied(n, asked[n])' BY <3>4, <3>5 DEF Applied
        <3> QED BY <1>1, <3>1, <3>3, <3>4, <3>6
    <2> QED BY <1>1, <1>2, <1>3, <1>4, <2>2, <2>3, <2>4 DEF AppliedInv, Elements
<1>8. CASE ConfBegin(s, c)
    <2>1. /\ JobInv'
          /\ Busy(s)' /\ \A u \in Setters : u # s => reconf'[u] = reconf[u]
          /\ reconf'[s].conf = c /\ reconf'[s].at = None /\ reconf'[s].step = "next"
          /\ reconf'[s].todo = {n \in Loggers : c[n] # None
                                    /\ (m_val[n] = None \/ ~SameDefine(c[n], m_val[n]))}
          /\ reconf'[s].gone = {n \in Loggers : m_val[n] # None /\ c[n] = None}
        BY <1>8, JobBegins DEF AppliedInv
    <2>2. ASSUME ~overlap' PROVE \A u \in Setters : Busy(u)' <=> u = s
        BY <1>1, <2>1, <2>2 DEF Busy
    <2>3. ASSUME ~overlap' PROVE JobDone(reconf[s])'
        <3>1. PICK r : r = reconf'[s] OBVIOUS
        <3>2. /\ r.conf = c /\ r.step = "next"
              /\ r.todo = {n \in Loggers : c[n] # None
                                    /\ (m_val[n] = None \/ ~SameDefine(c[n], m_val[n]))}
              /\ r.gone = {n \in Loggers : m_val[n] # None /\ c[n] = None}
            BY <2>1, <3>1
        <3>3. \A n \in Loggers \ r.todo : r.conf[n] # None => Applied(n, r.conf[n])'
            BY <1>6, <2>3, <3>2
        <3>4. JobDone(r)' BY <3>2, <3>3 DEF JobDone
        <3> QED BY <3>1, <3>4 DEF JobDone
    <2> QED BY <1>1, <1>2, <1>3, <1>4, <2>1, <2>2, <2>3 DEF AppliedInv, Elements
<1> QED BY <1>7, <1>8

\* The value is stored: the setter was alone, and has applied it all.
LEMMA StoreStep ==
    ASSUME AppliedInv, NEW s \in Setters, ConfStore(s)
    PROVE  AppliedInv'
<1>1. /\ Busy(s) /\ reconf[s].step = "store"
      /\ UNCHANGED <<loggers, m_level, m_formatter, m_appenders, asked, overlap>>
    BY DEF ConfStore, At
<1>2. /\ JobInv' /\ ~Busy(s)' /\ \A u \in Setters : u # s => reconf'[u] = reconf[u]
      /\ m_val' = reconf[s].conf
    BY JobEnds DEF AppliedInv
<1>3. FormatInv' BY <1>1, FormatFrame DEF AppliedInv
<1>4. m_level' \in [Loggers -> Elements(m_level')] BY <1>1 DEF AppliedInv, Elements
<1>5. \A n \in Loggers : \A d : Applied(n, d) => Applied(n, d)'
    <2>1. \A n : Same(n) BY <1>1 DEF Same
    <2> QED BY <2>1, AppliedFrame
<1>6. ASSUME ~overlap PROVE \A u \in Setters : ~Busy(u)'
    BY <1>1, <1>2, <1>6 DEF AppliedInv, Busy
<1>7. ASSUME ~overlap, NEW n \in Loggers
      PROVE  m_val'[n] = asked'[n] /\ (asked'[n] # None => Applied(n, asked[n])')
    <2>1. asked = reconf[s].conf /\ JobDone(reconf[s]) BY <1>1, <1>7 DEF AppliedInv
    <2>2. asked[n] # None => Applied(n, asked[n]) BY <1>1, <2>1 DEF JobDone
    <2>3. PICK d : d = asked[n] OBVIOUS
    <2>4. d # None => Applied(n, d)' BY <1>5, <2>2, <2>3
    <2>5. asked'[n] = d BY <1>1, <2>3
    <2>6. d # None => Applied(n, asked[n])' BY <2>4, <2>5 DEF Applied
    <2> QED BY <1>1, <1>2, <2>1, <2>5, <2>6
<1> QED BY <1>1, <1>2, <1>3, <1>4, <1>6, <1>7 DEF AppliedInv, Elements

\* The loggers a setter has dealt with stay as they are while it deals with
\* another one.
LEMMA DoneOthers ==
    ASSUME AppliedInv, ~overlap, NEW s \in Setters, Busy(s), NEW n, Only(n),
           n \in reconf[s].todo \union reconf[s].gone,
           NEW c, c = reconf[s].conf, NEW T, T = reconf[s].todo, NEW G, G = reconf[s].gone
    PROVE  /\ \A k \in Loggers \ T : c[k] # None => Applied(k, c[k])'
           /\ \A k \in T : c[k] # None
           /\ \A k \in G : c[k] = None
<1>1. JobDone(reconf[s]) BY DEF AppliedInv
<1>2. /\ \A k \in Loggers \ T : c[k] # None => Applied(k, c[k])
      /\ \A k \in T : c[k] # None
      /\ \A k \in G : c[k] = None
    BY <1>1 DEF JobDone
<1>3. ASSUME NEW k \in Loggers \ T, c[k] # None PROVE Applied(k, c[k])'
    <2>1. k # n BY <1>2, <1>3
    <2>2. Same(k) BY <2>1, OnlyOthers
    <2>3. PICK d : d = c[k] OBVIOUS
    <2>4. Applied(k, d) BY <1>2, <1>3, <2>3
    <2>5. Applied(k, d)' BY <2>2, <2>4, AppliedFrame
    <2> QED BY <2>3, <2>5
<1> QED BY <1>2, <1>3

\* A logger that is configured stays so while nothing changes.
LEMMA DoneStays ==
    ASSUME AppliedInv, ~overlap, NEW s \in Setters, Busy(s),
           UNCHANGED <<m_level, m_formatter, m_appenders>>,
           NEW c, c = reconf[s].conf, NEW T, T = reconf[s].todo, NEW G, G = reconf[s].gone
    PROVE  /\ \A k \in Loggers \ T : c[k] # None => Applied(k, c[k])'
           /\ \A k \in T : c[k] # None
           /\ \A k \in G : c[k] = None
<1>1. JobDone(reconf[s]) BY DEF AppliedInv
<1>2. /\ \A k \in Loggers \ T : c[k] # None => Applied(k, c[k])
      /\ \A k \in T : c[k] # None
      /\ \A k \in G : c[k] = None
    BY <1>1 DEF JobDone
<1>3. ASSUME NEW k \in Loggers \ T, c[k] # None PROVE Applied(k, c[k])'
    <2>1. Same(k) BY DEF Same
    <2>2. PICK d : d = c[k] OBVIOUS
    <2>3. Applied(k, d) BY <1>2, <1>3, <2>2
    <2>4. Applied(k, d)' BY <2>1, <2>3, AppliedFrame
    <2> QED BY <2>2, <2>4
<1> QED BY <1>2, <1>3

LEMMA LevelStep ==
    ASSUME AppliedInv, FormatInv', NEW s \in Setters, NEW n \in Loggers, ConfLevel(s, n)
    PROVE  AppliedInv'
<1>1. /\ Busy(s) /\ ListenerStays /\ n \in reconf[s].todo /\ Only(n)
      /\ m_level' = [m_level EXCEPT ![n] = reconf[s].conf[n].level]
    BY DEF ConfLevel, At, Only
<1>2. PICK c, T, G : c = reconf[s].conf /\ T = reconf[s].todo /\ G = reconf[s].gone OBVIOUS
<1>3. /\ c \in Configs /\ T \subseteq Loggers /\ G \subseteq Loggers /\ reconf[s].i \in Nat
    BY <1>1, <1>2, JobFields DEF AppliedInv
<1>4. PICK r : r = Job(s, T, G, n, "formatter", reconf[s].i) OBVIOUS
<1>5. /\ r \in Jobs /\ r.conf = c /\ r.todo = T /\ r.gone = G /\ r.at = n /\ r.step = "formatter"
    BY <1>2, <1>3, <1>4 DEF Job, Jobs
<1>6. Becomes(s, r) BY <1>2, <1>4, JobLevel DEF AppliedInv
<1>7. ASSUME ~overlap PROVE JobDone(r)'
    <2>1. /\ \A k \in Loggers \ T : c[k] # None => Applied(k, c[k])'
          /\ \A k \in T : c[k] # None
          /\ \A k \in G : c[k] = None
        BY <1>1, <1>2, <1>7, DoneOthers
    <2>2. PICK d : d = c[n] OBVIOUS
    <2>3. LevelSet(n, d)' BY <1>1, <1>2, <2>2 DEF LevelSet, AppliedInv
    <2>4. LevelSet(n, c[n])' BY <2>2, <2>3
    <2> QED BY <1>1, <1>2, <1>5, <2>1, <2>4 DEF JobDone
<1> QED BY <1>1, <1>2, <1>5, <1>6, <1>7, OnlyOthers, ListenerStep

LEMMA PatternStep ==
    ASSUME AppliedInv, FormatInv', NEW s \in Setters, ConfFormatter(s)
    PROVE  AppliedInv'
<1>1. Busy(s) /\ ListenerStays BY DEF ConfFormatter, At
<1>2. PICK c, T, G, n : /\ c = reconf[s].conf /\ T = reconf[s].todo /\ G = reconf[s].gone
                        /\ n = reconf[s].at
    OBVIOUS
<1>3. /\ c \in Configs /\ T \subseteq Loggers /\ G \subseteq Loggers /\ reconf[s].i \in Nat
      /\ n \in Loggers \union {None}
    BY <1>1, <1>2, JobFields DEF AppliedInv
<1>4. PICK r : r = Job(s, T, G, n, "clear", reconf[s].i) OBVIOUS
<1>5. /\ r \in Jobs /\ r.conf = c /\ r.todo = T /\ r.gone = G /\ r.at = n /\ r.step = "clear"
    BY <1>2, <1>3, <1>4 DEF Job, Jobs
<1>6. Becomes(s, r) BY <1>2, <1>4, JobFormatter DEF AppliedInv
<1>7. /\ m_level' = m_level
      /\ IF c[n].formatter = None \/ c[n].formatter \in BadPatterns
         THEN m_formatter' = m_formatter /\ m_appenders' = m_appenders
         ELSE /\ m_formatter' = [m_formatter EXCEPT ![n] = c[n].formatter]
              /\ \E B : m_appenders' = [m_appenders EXCEPT ![n] = B]
    BY <1>2 DEF ConfFormatter, SetFormatter
<1>8. Only(n) BY <1>7 DEF Only
<1>9. ASSUME ~overlap PROVE JobDone(r)'
    <2>1. JobDone(reconf[s]) /\ reconf[s].step = "formatter"
        BY <1>1, <1>9 DEF AppliedInv, ConfFormatter, At
    <2>2. n \in T /\ LevelSet(n, c[n]) BY <1>2, <2>1 DEF JobDone
    <2>3. /\ \A k \in Loggers \ T : c[k] # None => Applied(k, c[k])'
          /\ \A k \in T : c[k] # None
          /\ \A k \in G : c[k] = None
        BY <1>1, <1>2, <1>8, <1>9, <2>2, DoneOthers
    <2>4. PICK d : d = c[n] OBVIOUS
    <2>5. LevelSet(n, d)' BY <1>7, <2>2, <2>4 DEF LevelSet
    <2>6. PatternSet(n, d)'
        BY <1>3, <1>7, <2>2, <2>4 DEF PatternSet, AppliedInv, FormatInv
    <2>7. LevelSet(n, c[n])' /\ PatternSet(n, c[n])' BY <2>4, <2>5, <2>6
    <2> QED BY <1>5, <2>3, <2>7 DEF JobDone
<1> QED BY <1>1, <1>2, <1>5, <1>6, <1>8, <1>9, OnlyOthers, ListenerStep

LEMMA ClearStep ==
    ASSUME AppliedInv, FormatInv', NEW s \in Setters, ConfClear(s)
    PROVE  AppliedInv'
<1>1. Busy(s) /\ ListenerStays BY DEF ConfClear, At
<1>2. PICK c, T, G, n : /\ c = reconf[s].conf /\ T = reconf[s].todo /\ G = reconf[s].gone
                        /\ n = reconf[s].at
    OBVIOUS
<1>3. /\ c \in Configs /\ T \subseteq Loggers /\ G \subseteq Loggers /\ n \in T
    BY <1>1, <1>2, JobFields DEF AppliedInv, ConfClear
<1>4. PICK r : r = Job(s, T, G, n, "appenders", 1) OBVIOUS
<1>5. /\ r \in Jobs /\ r.conf = c /\ r.todo = T /\ r.gone = G /\ r.at = n /\ r.step = "appenders"
      /\ r.i = 1
    BY <1>2, <1>3, <1>4 DEF Job, Jobs
<1>6. Becomes(s, r) BY <1>2, <1>4, JobClear DEF AppliedInv
<1>7. /\ m_level' = m_level /\ m_formatter' = m_formatter
      /\ m_appenders' = [m_appenders EXCEPT ![n] = <<>>]
    BY <1>2 DEF ConfClear, ClearAppenders
<1>8. Only(n) BY <1>7 DEF Only
<1>9. ASSUME ~overlap PROVE JobDone(r)'
    <2>1. JobDone(reconf[s]) /\ reconf[s].step = "clear"
        BY <1>1, <1>9 DEF AppliedInv, ConfClear, At
    <2>2. LevelSet(n, c[n]) /\ PatternSet(n, c[n]) BY <1>2, <1>3, <2>1 DEF JobDone
    <2>3. /\ \A k \in Loggers \ T : c[k] # None => Applied(k, c[k])'
          /\ \A k \in T : c[k] # None
          /\ \A k \in G : c[k] = None
        BY <1>1, <1>2, <1>3, <1>8, <1>9, DoneOthers
    <2>4. PICK d : d = c[n] OBVIOUS
    <2>5. LevelSet(n, d)' /\ PatternSet(n, d)' BY <1>7, <2>2, <2>4 DEF LevelSet, PatternSet
    <2>6. Len(d.appenders) \in Nat BY <1>3, <2>3, <2>4, LoggerAssumption
    <2>7. AppliedUpTo(n, d, 1)'
        <3>1. m_appenders'[n] = <<>> BY <1>3, <1>7 DEF AppliedInv, FormatInv
        <3>2. {j \in Kept(d) : j < 1} = {} BY <2>6, KeptFinite
        <3>3. Cardinality({}) = 0 BY FS_EmptySet
        <3> QED BY <3>1, <3>2, <3>3 DEF AppliedUpTo, Kept
    <2>8. LevelSet(n, c[n])' /\ PatternSet(n, c[n])' /\ AppliedUpTo(n, c[n], 1)'
        BY <2>4, <2>5, <2>7
    <2>9. 1 \in 1 .. Len(c[n].appenders) + 1 BY <2>4, <2>6
    <2> QED BY <1>3, <1>5, <2>3, <2>8, <2>9 DEF JobDone
<1> QED BY <1>1, <1>2, <1>5, <1>6, <1>8, <1>9, OnlyOthers, ListenerStep

\* An appender made for a definition fits it once it is attached.
LEMMA AttachedFits ==
    ASSUME NEW n, NEW a
    PROVE  Fits(n, Attached(n, DefinedAppender(a)), a)
<1> DEFINE p == IF a.formatter \in BadPatterns THEN None ELSE a.formatter
<1>1. DefinedAppender(a) = Appender(a.sink, 0, p) BY DEF DefinedAppender
<1>2. CASE p # None
    <2>1. Attached(n, DefinedAppender(a)) = Appender(a.sink, 0, p) BY <1>1, <1>2 DEF Attached, Appender
    <2> QED BY <1>2, <2>1 DEF Fits, Appender
<1>3. CASE p = None
    <2>1. /\ Attached(n, DefinedAppender(a)).sink = a.sink
          /\ Attached(n, DefinedAppender(a)).formatter = m_formatter[n]
        BY <1>1, <1>3 DEF Attached, Appender
    <2> QED BY <1>3, <2>1 DEF Fits
<1> QED BY <1>2, <1>3

LEMMA AppenderStep ==
    ASSUME AppliedInv, FormatInv', NEW s \in Setters, ConfAppender(s)
    PROVE  AppliedInv'
<1>1. Busy(s) /\ ListenerStays /\ JobInv BY DEF ConfAppender, At, AppliedInv
<1>2. PICK c, T, G, n, i : /\ c = reconf[s].conf /\ T = reconf[s].todo /\ G = reconf[s].gone
                           /\ n = reconf[s].at /\ i = reconf[s].i
    OBVIOUS
<1>3. /\ c \in Configs /\ T \subseteq Loggers /\ G \subseteq Loggers /\ i \in Nat
      /\ n \in Loggers \union {None}
    BY <1>1, <1>2, JobFields
<1>4. PICK d : d = c[n] OBVIOUS
<1>5. ASSUME ~overlap
      PROVE  /\ n \in T /\ LevelSet(n, d) /\ PatternSet(n, d) /\ AppliedUpTo(n, d, i)
             /\ i \in 1 .. Len(d.appenders) + 1 /\ Len(d.appenders) \in Nat
    <2>1. JobDone(reconf[s]) /\ reconf[s].step = "appenders"
        BY <1>1, <1>5 DEF AppliedInv, ConfAppender, At
    <2>2. n \in T /\ c[n] # None BY <1>2, <2>1 DEF JobDone
    <2>3. Len(d.appenders) \in Nat BY <1>3, <1>4, <2>2, LoggerAssumption
    <2> QED BY <1>2, <1>4, <2>1, <2>2, <2>3 DEF JobDone
<1>6. CASE /\ i <= Len(d.appenders)
           /\ Becomes(s, Job(s, T, G, n, "appenders", i + 1))
           /\ \/ /\ d.appenders[i].sink = "stdout" /\ Daemon
                 /\ UNCHANGED <<m_level, m_formatter, m_appenders>>
              \/ /\ ~(d.appenders[i].sink = "stdout" /\ Daemon)
                 /\ AddAppender(n, DefinedAppender(d.appenders[i]))
    <2>1. PICK r : r = Job(s, T, G, n, "appenders", i + 1) OBVIOUS
    <2>2. /\ r \in Jobs /\ r.conf = c /\ r.todo = T /\ r.gone = G /\ r.at = n
          /\ r.step = "appenders" /\ r.i = i + 1
        BY <1>2, <1>3, <2>1 DEF Job, Jobs
    <2>3. Only(n) /\ UNCHANGED <<m_level, m_formatter>> BY <1>6 DEF Only, AddAppender
    <2>4. ASSUME ~overlap PROVE JobDone(r)'
        <3>1. /\ n \in T /\ LevelSet(n, d) /\ PatternSet(n, d) /\ AppliedUpTo(n, d, i)
              /\ i \in 1 .. Len(d.appenders) + 1 /\ Len(d.appenders) \in Nat
            BY <1>5, <2>4
        <3>2. /\ \A k \in Loggers \ T : c[k] # None => Applied(k, c[k])'
              /\ \A k \in T : c[k] # None
              /\ \A k \in G : c[k] = None
            <4>1. n \in reconf[s].todo \union reconf[s].gone BY <1>2, <3>1
            <4> QED BY <1>1, <1>2, <2>3, <2>4, <4>1, DoneOthers
        <3>3. LevelSet(n, d)' /\ PatternSet(n, d)' BY <2>3, <3>1 DEF LevelSet, PatternSet
        <3>4. i \in 1 .. Len(d.appenders) BY <1>6, <3>1
        <3>5. AppliedUpTo(n, d, i + 1)'
            <4>1. CASE /\ d.appenders[i].sink = "stdout" /\ Daemon
                       /\ UNCHANGED <<m_level, m_formatter, m_appenders>>
                <5>1. i \notin Kept(d) /\ Same(n) BY <4>1 DEF Kept, Same
                <5> QED BY <3>1, <3>4, <5>1, LoopPasses
            <4>2. CASE /\ ~(d.appenders[i].sink = "stdout" /\ Daemon)
                       /\ AddAppender(n, DefinedAppender(d.appenders[i]))
                <5>1. i \in Kept(d) BY <3>4, <4>2 DEF Kept
                <5>2. n \in Loggers BY <1>3, <3>1
                <5>3. PICK a : a = Attached(n, DefinedAppender(d.appenders[i])) OBVIOUS
                <5>4. m_appenders'[n] = Append(m_appenders[n], a)
                    BY <4>2, <5>2, <5>3 DEF AddAppender, AppliedInv, FormatInv
                <5>5. m_formatter'[n] = m_formatter[n] BY <2>3
                <5>6. m_appenders[n] \in Seq(Elements(m_appenders[n]))
                    BY <5>2 DEF AppliedInv, FormatInv, Formatted
                <5>7. Fits(n, a, d.appenders[i]) BY <5>3, AttachedFits
                <5> QED BY <3>1, <3>4, <5>1, <5>4, <5>5, <5>6, <5>7, LoopAdds
            <4> QED BY <1>6, <4>1, <4>2
        <3>6. /\ LevelSet(n, c[n])' /\ PatternSet(n, c[n])' /\ AppliedUpTo(n, c[n], i + 1)'
            BY <1>4, <3>3, <3>5
        <3>7. i + 1 \in 1 .. Len(c[n].appenders) + 1 BY <1>4, <3>1, <3>4
        <3> QED BY <2>2, <3>1, <3>2, <3>6, <3>7 DEF JobDone
    <2>5. Becomes(s, r) BY <1>6, <2>1
    <2> QED BY <1>1, <1>2, <2>2, <2>3, <2>4, <2>5, OnlyOthers, ListenerStep
<1>7. CASE /\ i > Len(d.appenders)
           /\ Becomes(s, Job(s, T \ {n}, G, None, "next", i))
           /\ UNCHANGED <<m_level, m_formatter, m_appenders>>
    <2>1. PICK r : r = Job(s, T \ {n}, G, None, "next", i) OBVIOUS
    <2>2. /\ r \in Jobs /\ r.conf = c /\ r.todo = T \ {n} /\ r.gone = G /\ r.step = "next"
        BY <1>2, <1>3, <2>1 DEF Job, Jobs
    <2>3. m_level' \in [Loggers -> Elements(m_level')] BY <1>7 DEF AppliedInv, Elements
    <2>4. ASSUME ~overlap PROVE JobDone(r)'
        <3>1. /\ n \in T /\ LevelSet(n, d) /\ PatternSet(n, d) /\ AppliedUpTo(n, d, i)
              /\ Len(d.appenders) \in Nat
            BY <1>5, <2>4
        <3>2. /\ \A k \in Loggers \ T : c[k] # None => Applied(k, c[k])'
              /\ \A k \in T : c[k] # None
              /\ \A k \in G : c[k] = None
            BY <1>1, <1>2, <1>7, <2>4, DoneStays
        <3>3. Applied(n, d) BY <1>3, <1>7, <3>1, LoopEnds
        <3>4. Same(n) BY <1>7 DEF Same
        <3>5. Applied(n, d)' BY <3>3, <3>4, AppliedFrame
        <3>6. Applied(n, c[n])' BY <1>4, <3>5
        <3> QED BY <2>2, <3>2, <3>6 DEF JobDone
    <2>5. Becomes(s, r) BY <1>7, <2>1
    <2> QED BY <1>1, <1>2, <2>2, <2>3, <2>4, <2>5, ListenerStep
<1>8. \/ /\ i <= Len(d.appenders)
         /\ IF d.appenders[i].sink = "stdout" /\ Daemon
            THEN UNCHANGED <<loggers, m_level, m_formatter, m_appenders>>
            ELSE AddAppender(n, DefinedAppender(d.appenders[i]))
         /\ Becomes(s, Job(s, T, G, n, "appenders", i + 1))
      \/ /\ i > Len(d.appenders)
         /\ Becomes(s, Job(s, T \ {n}, G, None, "next", i))
         /\ UNCHANGED <<loggers, m_level, m_formatter, m_appenders>>
    <2>1. reconf[s] \in Jobs BY <1>1, JobFields
    <2>2. [reconf[s] EXCEPT !.i = i + 1] = Job(s, T, G, n, "appenders", i + 1)
        <3>1. reconf[s].step = "appenders" BY DEF ConfAppender, At
        <3> QED BY <1>2, <2>1, <3>1 DEF Jobs, Job
    <2>3. reconf' = [reconf EXCEPT ![s].i = i + 1] => Becomes(s, Job(s, T, G, n, "appenders", i + 1))
        BY <2>2 DEF Becomes
    <2>4. reconf' = [reconf EXCEPT ![s].todo = @ \ {n}, ![s].at = None, ![s].step = "next"]
            => Becomes(s, Job(s, T \ {n}, G, None, "next", i))
        BY <1>1, <1>2, JobFields DEF JobInv, Becomes, Job
    <2> QED BY <1>2, <1>4, <2>3, <2>4 DEF ConfAppender
<1> QED BY <1>6, <1>7, <1>8

LEMMA GoneStep ==
    ASSUME AppliedInv, FormatInv', NEW s \in Setters, NEW n \in Loggers, ConfGone(s, n)
    PROVE  AppliedInv'
<1>1. /\ Busy(s) /\ ListenerStays /\ n \in reconf[s].gone /\ reconf[s].todo = {} /\ Only(n)
    BY DEF ConfGone, At, SetLevel, Only
<1>2. PICK c, T, G : c = reconf[s].conf /\ T = reconf[s].todo /\ G = reconf[s].gone OBVIOUS
<1>3. /\ c \in Configs /\ T \subseteq Loggers /\ G \subseteq Loggers /\ reconf[s].i \in Nat
    BY <1>1, <1>2, JobFields DEF AppliedInv
<1>4. PICK r : r = Job(s, T, G, n, "clear", reconf[s].i) OBVIOUS
<1>5. /\ r \in Jobs /\ r.conf = c /\ r.todo = T /\ r.gone = G /\ r.at = n /\ r.step = "clear"
    BY <1>2, <1>3, <1>4 DEF Job, Jobs
<1>6. Becomes(s, r) BY <1>2, <1>4, JobGone DEF AppliedInv
<1>7. ASSUME ~overlap PROVE JobDone(r)'
    <2>1. /\ \A k \in Loggers \ T : c[k] # None => Applied(k, c[k])'
          /\ \A k \in T : c[k] # None
          /\ \A k \in G : c[k] = None
        <3>1. n \in reconf[s].todo \union reconf[s].gone BY <1>1
        <3> QED BY <1>1, <1>2, <1>7, <3>1, DoneOthers
    <2> QED BY <1>1, <1>2, <1>5, <2>1 DEF JobDone
<1> QED BY <1>1, <1>2, <1>5, <1>6, <1>7, OnlyOthers, ListenerStep

LEMMA GoneClearStep ==
    ASSUME AppliedInv, FormatInv', NEW s \in Setters, ConfGoneClear(s)
    PROVE  AppliedInv'
<1>1. Busy(s) /\ ListenerStays BY DEF ConfGoneClear, At
<1>2. PICK c, T, G, n : /\ c = reconf[s].conf /\ T = reconf[s].todo /\ G = reconf[s].gone
                        /\ n = reconf[s].at
    OBVIOUS
<1>3. /\ c \in Configs /\ T \subseteq Loggers /\ G \subseteq Loggers /\ n \in G
      /\ reconf[s].i \in Nat
    BY <1>1, <1>2, JobFields DEF AppliedInv, ConfGoneClear
<1>4. PICK r : r = Job(s, T, G \ {n}, None, "next", reconf[s].i) OBVIOUS
<1>5. /\ r \in Jobs /\ r.conf = c /\ r.todo = T /\ r.gone = G \ {n} /\ r.step = "next"
    BY <1>2, <1>3, <1>4 DEF Job, Jobs
<1>6. Becomes(s, r) BY <1>2, <1>4, JobGoneClear DEF AppliedInv
<1>7. Only(n) BY <1>2 DEF ConfGoneClear, ClearAppenders, Only
<1>8. ASSUME ~overlap PROVE JobDone(r)'
    <2>1. /\ \A k \in Loggers \ T : c[k] # None => Applied(k, c[k])'
          /\ \A k \in T : c[k] # None
          /\ \A k \in G : c[k] = None
        <3>1. n \in reconf[s].todo \union reconf[s].gone BY <1>2, <1>3
        <3> QED BY <1>1, <1>2, <1>7, <1>8, <3>1, DoneOthers
    <2> QED BY <1>5, <2>1 DEF JobDone
<1> QED BY <1>1, <1>2, <1>5, <1>6, <1>7, <1>8, OnlyOthers, ListenerStep

LEMMA EndStep ==
    ASSUME AppliedInv, FormatInv', NEW s \in Setters, ConfEnd(s)
    PROVE  AppliedInv'
<1>1. /\ Busy(s) /\ ListenerStays /\ reconf[s].todo = {}
      /\ UNCHANGED <<m_level, m_formatter, m_appenders>>
    BY DEF ConfEnd, At
<1>2. PICK c, T, G, n : /\ c = reconf[s].conf /\ T = reconf[s].todo /\ G = reconf[s].gone
                        /\ n = reconf[s].at
    OBVIOUS
<1>3. /\ c \in Configs /\ T \subseteq Loggers /\ G \subseteq Loggers /\ n \in Loggers \union {None}
      /\ reconf[s].i \in Nat
    BY <1>1, <1>2, JobFields DEF AppliedInv
<1>4. PICK r : r = Job(s, T, G, n, "store", reconf[s].i) OBVIOUS
<1>5. /\ r \in Jobs /\ r.conf = c /\ r.todo = T /\ r.gone = G /\ r.step = "store"
    BY <1>2, <1>3, <1>4 DEF Job, Jobs
<1>6. Becomes(s, r) BY <1>2, <1>4, JobEnd DEF AppliedInv
<1>7. m_level' \in [Loggers -> Elements(m_level')] BY <1>1 DEF AppliedInv, Elements
<1>8. ASSUME ~overlap PROVE JobDone(r)'
    <2>1. /\ \A k \in Loggers \ T : c[k] # None => Applied(k, c[k])'
          /\ \A k \in T : c[k] # None
          /\ \A k \in G : c[k] = None
        BY <1>1, <1>2, <1>8, DoneStays
    <2> QED BY <1>1, <1>2, <1>5, <2>1 DEF JobDone
<1> QED BY <1>1, <1>2, <1>5, <1>6, <1>7, <1>8, ListenerStep

LEMMA AppliedInvInit == Init => AppliedInv
<1> SUFFICES ASSUME Init PROVE AppliedInv OBVIOUS
<1>1. FormatInv /\ JobInv BY FormatInvInit, JobInvInit
<1>2. m_level \in [Loggers -> Elements(m_level)] BY DEF Init, Elements
<1>3. \A n \in Loggers : m_val[n] = None /\ asked[n] = None BY DEF Init
<1>4. \A s \in Setters : ~Busy(s) BY DEF Init, Busy
<1>5. overlap \in BOOLEAN BY DEF Init
<1> QED BY <1>1, <1>2, <1>3, <1>4, <1>5 DEF AppliedInv

LEMMA AppliedInvStep ==
    ASSUME Distinguished, AppliedInv, [Next]_vars
    PROVE  AppliedInv'
<1>0. FormatInv' BY FormatInvStep DEF AppliedInv
\* The steps that log change no logger and no job.
<1>1. ASSUME UNCHANGED <<m_level, m_formatter, m_appenders, confVars>> PROVE AppliedInv'
    <2>1. UNCHANGED <<m_val, asked, overlap, reconf>> BY <1>1 DEF confVars
    <2>2. \A k : Same(k) BY <1>1 DEF Same
    <2>3. m_level' \in [Loggers -> Elements(m_level')] BY <1>1 DEF AppliedInv, Elements
    <2> QED BY <1>0, <2>1, <2>2, <2>3, OtherStep
<1>2. ASSUME NEW t \in Threads,
             \/ \E n \in Loggers, l \in Levels : LogAccept(t, n, l)
             \/ LogWrite(t) \/ LogToRoot(t) \/ RootWrite(t)
      PROVE  AppliedInv'
    BY <1>1, <1>2 DEF LogAccept, LogWrite, LogToRoot, RootWrite, LogDone
<1>3. CASE AppCall
    <2>1. UNCHANGED <<m_val, asked, overlap, reconf>> BY <1>3 DEF AppCall, confVars
    <2>2. PICK n \in AppNames : Only(n)
        BY <1>3 DEF AppCall, Only, SetLevel, SetFormatter, AddAppender, DelAppender, ClearAppenders
    <2>3. \A c \in Configs, k \in Loggers : c[k] # None => Same(k)
        BY <2>2, OnlyOthers DEF Distinguished
    <2> QED BY <1>0, <2>1, <2>2, <2>3, OnlyOthers, OtherStep
<1>4. ASSUME NEW s \in Setters, NEW c \in Configs, ConfSame(s, c) \/ ConfBegin(s, c)
      PROVE  AppliedInv'
    BY <1>4, SetValueStep
<1>5. ASSUME NEW s \in Setters, NEW n \in Loggers, ConfLevel(s, n) \/ ConfGone(s, n)
      PROVE  AppliedInv'
    BY <1>0, <1>5, LevelStep, GoneStep
<1>6. ASSUME NEW s \in Setters,
             \/ ConfFormatter(s) \/ ConfClear(s) \/ ConfAppender(s) \/ ConfGoneClear(s)
             \/ ConfEnd(s) \/ ConfStore(s)
      PROVE  AppliedInv'
    BY <1>0, <1>6, PatternStep, ClearStep, AppenderStep, GoneClearStep, EndStep, StoreStep
<1>7. CASE UNCHANGED vars BY <1>1, <1>7 DEF vars, confVars
<1> QED BY <1>2, <1>3, <1>4, <1>5, <1>6, <1>7 DEF Next

\* Once setValue has returned, and unless two calls of it have overlapped,
\* every configured logger has the level, the pattern and the appenders its
\* definition asks for, in their order: for every number of setters, loggers
\* and appenders.  It needs that the application leaves the configured loggers
\* alone and that operator== of LogDefine tells definitions apart, which it
\* does not for two that differ in their appenders.
THEOREM ConfigurationApplied ==
    ASSUME Distinguished
    PROVE  Spec => []ConfigApplied
<1>1. Init => AppliedInv BY AppliedInvInit
<1>2. AppliedInv /\ [Next]_vars => AppliedInv' BY AppliedInvStep
<1>3. AppliedInv => ConfigApplied BY DEF AppliedInv, ConfigApplied
<1> QED BY <1>1, <1>2, <1>3, PTL DEF Spec

=============================================================================
