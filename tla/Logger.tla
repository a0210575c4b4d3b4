------------------------------- MODULE Logger -------------------------------
(***************************************************************************)
(* The loggers and their manager (log.cc), used by threads that log while  *)
(* the change listener of the configuration variable "logs" reconfigures   *)
(* the loggers under them.                                                 *)
(*                                                                         *)
(* A pattern is a name; BadPatterns are those LogFormatter finds in error. *)
(* A configuration gives some loggers a LogDefine.  Its appenders have the *)
(* level 0 (UNKNOW), the one LexicalCast never fills in.                   *)
(***************************************************************************)
EXTENDS FiniteSets, Naturals, Sequences

CONSTANTS
    Threads,        \* threads that log
    Setters,        \* threads that set g_log_defines
    Names,          \* names of loggers other than the root logger
    Root,           \* the root logger
    AppNames,       \* loggers the application changes itself
    Levels,         \* levels of events
    Patterns,       \* patterns passed to setFormatter by the application
    BadPatterns,
    DefaultPattern,
    Configs,        \* values of g_log_defines: a LogDefine or None per logger
    Daemon,         \* the program was started with -d
    MaxConfigs,     \* bound: changes of the configuration
    MaxCalls,       \* bound: changes by the application
    None            \* no object, and the empty pattern

Loggers == Names \union {Root}
DEBUG == 1

\* What a setValue has still to do: the value, the loggers to configure and
\* those to reset, the logger it is at and where, the next of its appenders.
Jobs == [conf : Configs, todo : SUBSET Loggers, gone : SUBSET Loggers, at : Loggers \union {None},
         step : {"next", "formatter", "clear", "appenders", "store"}, i : Nat]

ASSUME LoggerAssumption ==
    /\ Root \notin Names /\ AppNames \subseteq Loggers
    /\ Levels \subseteq 1 .. 5 /\ Daemon \in BOOLEAN
    /\ MaxConfigs \in Nat /\ MaxCalls \in Nat
    /\ None \notin Loggers \union Patterns \union BadPatterns \union {DefaultPattern} \union Jobs
    /\ \A c \in Configs, n \in Loggers : c[n] # None => Len(c[n].appenders) \in Nat

VARIABLES
    loggers,     \* m_loggers of the manager: the loggers made so far
    m_level, m_formatter, m_appenders,   \* of each logger
    m_val,       \* of g_log_defines
    asked,       \* history: the configuration setValue was last called with
    reconf,      \* the job of a setter that is in setValue, or None
    overlap,     \* history: two calls of setValue have overlapped
    pc, event,   \* where a thread is in Logger::log, and with what
    lost,        \* history: loggers that dropped an event they had accepted
    configs, calls

vars == <<loggers, m_level, m_formatter, m_appenders, m_val, asked, reconf, overlap, pc, event, lost,
          configs, calls>>
logVars == <<pc, event, lost>>
confVars == <<m_val, asked, reconf, overlap, configs>>

\* given: history, the appender was given a formatter of its own.
Appender(sink, level, pattern) ==
    [sink |-> sink, level |-> level, formatter |-> pattern,
     m_hasFormatter |-> pattern # None, given |-> pattern # None]

\* Mutant of Attached: no formatter is handed on.
AttachedBare(n, a) == a

\* What addAppender attaches: an appender without formatter gets that of the
\* logger through its own setFormatter, which sets m_hasFormatter.
Attached(n, a) ==
    IF a.formatter # None THEN a
    ELSE [a EXCEPT !.formatter = m_formatter[n], !.m_hasFormatter = TRUE]

\* applyDefaultConfig on a new logger.
Defaults(n) ==
    LET new(sink) == [Appender(sink, DEBUG, None) EXCEPT !.formatter = DefaultPattern,
                                                         !.m_hasFormatter = TRUE]
    IN <<new("stdout"), new(n)>>

\* getLogger: a logger that does not exist yet is made with the defaults.
GetLoggers(L) ==
    /\ loggers' = loggers \union L
    /\ m_appenders' = [n \in Loggers |->
                        IF n \in L \ loggers THEN Defaults(n) ELSE m_appenders[n]]

\* The manager applies the defaults to the root logger twice.
Init ==
    /\ loggers = {Root}
    /\ m_level = [n \in Loggers |-> DEBUG]
    /\ m_formatter = [n \in Loggers |-> DefaultPattern]
    /\ m_appenders = [n \in Loggers |-> IF n = Root THEN Defaults(n) \o Defaults(n) ELSE <<>>]
    /\ m_val = [n \in Loggers |-> None] /\ asked = m_val
    /\ reconf = [s \in Setters |-> None] /\ overlap = FALSE
    /\ pc = [t \in Threads |-> "idle"]
    /\ event = [t \in Threads |-> None]
    /\ lost = {}
    /\ configs = 0 /\ calls = 0

\* m_mutex of a logger is kept over a step only by a thread that logs to the
\* root logger on its behalf.
Unlocked(n) == \A t \in Threads : pc[t] = "root" => event[t].logger # n

-----------------------------------------------------------------------------
(* Logger::log.                                                            *)

\* The unlocked test of the level.  An event below it is dropped.
LogAccept(t, n, l) ==
    /\ pc[t] = "idle" /\ n \in loggers
    /\ l >= m_level[n]
    /\ pc' = [pc EXCEPT ![t] = "log"]
    /\ event' = [event EXCEPT ![t] = [logger |-> n, level |-> l]]
    /\ UNCHANGED <<loggers, m_level, m_formatter, m_appenders, confVars, lost, calls>>

\* The thread is done; with nothing to write to, logger n has lost the event.
LogDone(t, n) ==
    /\ pc' = [pc EXCEPT ![t] = "idle"]
    /\ event' = [event EXCEPT ![t] = None]
    /\ lost' = IF m_appenders[n] = <<>> THEN lost \union {event[t].logger} ELSE lost
    /\ UNCHANGED <<loggers, m_level, m_formatter, m_appenders, confVars, calls>>

\* Mutant of LogWrite: m_root is not set, so the event goes nowhere.
LogWriteNoRoot(t) ==
    /\ pc[t] = "log"
    /\ Unlocked(event[t].logger)
    /\ LogDone(t, event[t].logger)

\* Under the lock, each appender gets the event (and drops it if it is below
\* the appender's level).  The root logger has no logger to fall back to.
LogWrite(t) ==
    /\ pc[t] = "log"
    /\ LET n == event[t].logger IN
        /\ Unlocked(n)
        /\ m_appenders[n] # <<>> \/ n = Root
        /\ LogDone(t, n)

\* No appenders: the root logger's log is called with the lock held, and
\* tests its own level.  An event below that is lost.
LogToRoot(t) ==
    /\ pc[t] = "log"
    /\ LET n == event[t].logger IN
        /\ Unlocked(n) /\ n # Root
        /\ m_appenders[n] = <<>>
    /\ \/ /\ event[t].level >= m_level[Root]
          /\ pc' = [pc EXCEPT ![t] = "root"]
          /\ UNCHANGED <<event, lost>>
       \/ /\ event[t].level < m_level[Root]
          /\ pc' = [pc EXCEPT ![t] = "idle"]
          /\ event' = [event EXCEPT ![t] = None]
          /\ lost' = lost \union {event[t].logger}
    /\ UNCHANGED <<loggers, m_level, m_formatter, m_appenders, confVars, calls>>

RootWrite(t) ==
    /\ pc[t] = "root"
    /\ Unlocked(Root)
    /\ LogDone(t, Root)

-----------------------------------------------------------------------------
(* Changes of a logger.                                                    *)

SetLevel(n, l) ==
    /\ m_level' = [m_level EXCEPT ![n] = l]
    /\ UNCHANGED <<loggers, m_formatter, m_appenders>>

\* setFormatter: a pattern in error is refused; another one is handed on to
\* the appenders without m_hasFormatter.
SetFormatter(n, p) ==
    /\ Unlocked(n)
    /\ p \notin BadPatterns
    /\ m_formatter' = [m_formatter EXCEPT ![n] = p]
    /\ m_appenders' = [m_appenders EXCEPT ![n] =
            [i \in DOMAIN @ |-> IF @[i].m_hasFormatter THEN @[i] ELSE [@[i] EXCEPT !.formatter = p]]]
    /\ UNCHANGED <<loggers, m_level>>

AddAppender(n, a) ==
    /\ Unlocked(n)
    /\ m_appenders' = [m_appenders EXCEPT ![n] = Append(@, Attached(n, a))]
    /\ UNCHANGED <<loggers, m_level, m_formatter>>

ClearAppenders(n) ==
    /\ Unlocked(n)
    /\ m_appenders' = [m_appenders EXCEPT ![n] = <<>>]
    /\ UNCHANGED <<loggers, m_level, m_formatter>>

DelAppender(n, i) ==
    /\ Unlocked(n)
    /\ m_appenders' = [m_appenders EXCEPT ![n] = SubSeq(@, 1, i - 1) \o SubSeq(@, i + 1, Len(@))]
    /\ UNCHANGED <<loggers, m_level, m_formatter>>

\* The application's own calls.
AppCall ==
    /\ calls < MaxCalls
    /\ calls' = calls + 1
    /\ \/ \E n \in AppNames \ loggers :
            GetLoggers({n}) /\ UNCHANGED <<m_level, m_formatter>>
       \/ \E n \in AppNames \cap loggers :
            \/ \E l \in Levels : SetLevel(n, l)
            \/ \E p \in Patterns : SetFormatter(n, p) \/ AddAppender(n, Appender("app", DEBUG, p))
            \/ AddAppender(n, Appender("app", DEBUG, None))
            \/ \E i \in DOMAIN m_appenders[n] : DelAppender(n, i)
            \/ ClearAppenders(n)
    /\ UNCHANGED <<confVars, logVars>>

-----------------------------------------------------------------------------
(* setValue of g_log_defines, with the listener of LogIniter.              *)

\* operator== of LogDefine compares the appenders with themselves.
SameDefine(d, e) == d.level = e.level /\ d.formatter = e.formatter

SameConfig(c, d) ==
    \A n \in Loggers : IF c[n] = None \/ d[n] = None THEN c[n] = d[n] ELSE SameDefine(c[n], d[n])

Busy(s) == reconf[s] # None
At(s, step) == Busy(s) /\ reconf[s].step = step

\* setValue(c) begins, under the read lock.
SetValue(s, c) ==
    /\ ~Busy(s) /\ configs < MaxConfigs
    /\ asked' = c
    /\ overlap' = (overlap \/ \E u \in Setters : Busy(u))
    /\ configs' = configs + 1
    /\ UNCHANGED <<loggers, m_level, m_formatter, m_appenders, m_val, logVars, calls>>

\* Equal to the value that is stored: setValue returns.
ConfSame(s, c) ==
    /\ SetValue(s, c)
    /\ SameConfig(c, m_val)
    /\ UNCHANGED reconf

\* The listener is called: loggers that are new or changed, then those gone.
ConfBegin(s, c) ==
    /\ SetValue(s, c)
    /\ ~SameConfig(c, m_val)
    /\ reconf' = [reconf EXCEPT ![s] =
            [conf |-> c,
             todo |-> {n \in Loggers : c[n] # None
                                /\ (m_val[n] = None \/ ~SameDefine(c[n], m_val[n]))},
             gone |-> {n \in Loggers : m_val[n] # None /\ c[n] = None},
             at |-> None, step |-> "next", i |-> 1]]

ListenerStays == UNCHANGED <<m_val, asked, overlap, configs, logVars, calls>>

\* getLogger and setLevel for the next logger, here in any order of names and
\* as one step: what comes between them sees the old level of the logger.
ConfLevel(s, n) ==
    /\ At(s, "next") /\ n \in reconf[s].todo
    /\ GetLoggers({n})
    /\ m_level' = [m_level EXCEPT ![n] = reconf[s].conf[n].level]
    /\ reconf' = [reconf EXCEPT ![s].at = n, ![s].step = "formatter"]
    /\ UNCHANGED m_formatter /\ ListenerStays

\* An empty pattern, or one in error, leaves the logger's formatter.
ConfFormatter(s) ==
    /\ At(s, "formatter")
    /\ LET p == reconf[s].conf[reconf[s].at].formatter IN
        IF p = None \/ p \in BadPatterns
        THEN UNCHANGED <<loggers, m_level, m_formatter, m_appenders>>
        ELSE SetFormatter(reconf[s].at, p)
    /\ reconf' = [reconf EXCEPT ![s].step = "clear"]
    /\ ListenerStays

\* Mutant of ConfClear: the old appenders stay.
ConfClearNot(s) ==
    /\ At(s, "clear") /\ reconf[s].at \in reconf[s].todo
    /\ reconf' = [reconf EXCEPT ![s].step = "appenders", ![s].i = 1]
    /\ UNCHANGED <<loggers, m_level, m_formatter, m_appenders>> /\ ListenerStays

ConfClear(s) ==
    /\ At(s, "clear") /\ reconf[s].at \in reconf[s].todo
    /\ ClearAppenders(reconf[s].at)
    /\ reconf' = [reconf EXCEPT ![s].step = "appenders", ![s].i = 1]
    /\ ListenerStays

\* The appender a definition stands for; a pattern in error counts as none.
DefinedAppender(a) == Appender(a.sink, 0, IF a.formatter \in BadPatterns THEN None ELSE a.formatter)

\* The next appender; a daemon has none for stdout.
ConfAppender(s) ==
    /\ At(s, "appenders")
    /\ LET n == reconf[s].at  i == reconf[s].i  A == reconf[s].conf[n].appenders IN
        \/ /\ i <= Len(A)
           /\ IF A[i].sink = "stdout" /\ Daemon
              THEN UNCHANGED <<loggers, m_level, m_formatter, m_appenders>>
              ELSE AddAppender(n, DefinedAppender(A[i]))
           /\ reconf' = [reconf EXCEPT ![s].i = i + 1]
        \/ /\ i > Len(A)
           /\ reconf' = [reconf EXCEPT ![s].todo = @ \ {n}, ![s].at = None, ![s].step = "next"]
           /\ UNCHANGED <<loggers, m_level, m_formatter, m_appenders>>
    /\ ListenerStays

\* A logger that is not configured any more logs everything, to the root.
ConfGone(s, n) ==
    /\ At(s, "next") /\ reconf[s].todo = {} /\ n \in reconf[s].gone
    /\ SetLevel(n, 0)
    /\ reconf' = [reconf EXCEPT ![s].at = n, ![s].step = "clear"]
    /\ ListenerStays

ConfGoneClear(s) ==
    /\ At(s, "clear") /\ reconf[s].at \in reconf[s].gone
    /\ ClearAppenders(reconf[s].at)
    /\ reconf' = [reconf EXCEPT ![s].gone = @ \ {reconf[s].at}, ![s].at = None, ![s].step = "next"]
    /\ ListenerStays

\* The listener is done, and with it the read lock.
ConfEnd(s) ==
    /\ At(s, "next") /\ reconf[s].todo = {} /\ reconf[s].gone = {}
    /\ reconf' = [reconf EXCEPT ![s].step = "store"]
    /\ UNCHANGED <<loggers, m_level, m_formatter, m_appenders>> /\ ListenerStays

\* setValue stores the value when no other setter has its read lock.
ConfStore(s) ==
    /\ At(s, "store")
    /\ \A u \in Setters : Busy(u) => At(u, "store")
    /\ m_val' = reconf[s].conf
    /\ reconf' = [reconf EXCEPT ![s] = None]
    /\ UNCHANGED <<loggers, m_level, m_formatter, m_appenders, asked, overlap, configs, logVars, calls>>

-----------------------------------------------------------------------------
Next ==
    \/ \E t \in Threads :
        \/ \E n \in Loggers, l \in Levels : LogAccept(t, n, l)
        \/ LogWrite(t) \/ LogToRoot(t) \/ RootWrite(t)
    \/ AppCall
    \/ \E s \in Setters :
        \/ \E c \in Configs : ConfSame(s, c) \/ ConfBegin(s, c)
        \/ \E n \in Loggers : ConfLevel(s, n) \/ ConfGone(s, n)
        \/ ConfFormatter(s) \/ ConfClear(s) \/ ConfAppender(s) \/ ConfGoneClear(s)
        \/ ConfEnd(s) \/ ConfStore(s)

Spec == Init /\ [][Next]_vars

-----------------------------------------------------------------------------
(* Properties.                                                             *)

\* "Writes the log": an event a logger accepted is not dropped because a
\* reconfiguration had just taken away the logger's appenders.
EventKept == lost = {}

\* Every appender a logger writes through has a formatter, whose pointer
\* log() follows without a test, whatever patterns the configuration has.
FormatterPresent ==
    \A n \in Loggers : \A i \in DOMAIN m_appenders[n] : m_appenders[n][i].formatter # None

\* The appenders of definition d that the listener makes, and the place of
\* each among them: all, or for a daemon all but those for stdout.
Kept(d) == {i \in 1 .. Len(d.appenders) : ~(Daemon /\ d.appenders[i].sink = "stdout")}
Place(d, i) == Cardinality({j \in Kept(d) : j <= i})

\* The appender for definition a of logger n.
Fits(n, app, a) ==
    /\ app.sink = a.sink
    /\ app.formatter = IF a.formatter \in BadPatterns \union {None} THEN m_formatter[n] ELSE a.formatter

\* Logger n is as definition d says, in level, pattern and appenders.
Applied(n, d) ==
    /\ m_level[n] = d.level
    /\ d.formatter \notin BadPatterns \union {None} => m_formatter[n] = d.formatter
    /\ Len(m_appenders[n]) = Cardinality(Kept(d))
    /\ \A i \in Kept(d) : Fits(n, m_appenders[n][Place(d, i)], d.appenders[i])

\* "If the value changes, the listeners are told": between reconfigurations
\* each configured logger is as the last setValue asked, in level, pattern
\* and appenders.  Two calls of setValue that overlapped may have mixed their
\* configurations, and the later ones start from what that left.
ConfigApplied ==
    ~overlap /\ (\A s \in Setters : ~Busy(s)) =>
        \A n \in Loggers : asked[n] # None => Applied(n, asked[n])

=============================================================================
