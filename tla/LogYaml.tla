------------------------------ MODULE LogYaml ------------------------------
(***************************************************************************)
(* The YAML side of the log (log.cc): how a document becomes the value of  *)
(* the variable "logs" and then the loggers, and how the loggers are       *)
(* written to a document again.  A process loads a document, its           *)
(* application changes loggers, it dumps them all, and a new process loads *)
(* the dump.                                                               *)
(*                                                                         *)
(* A node is a record of its fields, None where a field is not defined.    *)
(* Loading is atomic here; its steps, among threads that log, are in       *)
(* Logger.  No program option is given (-d leaves out stdout appenders).   *)
(***************************************************************************)
EXTENDS LexicalCast

CONSTANTS
    LogNames,       \* names of loggers the application uses
    LogDocs,        \* documents that may be loaded
    BadFormats,     \* patterns LogFormatter finds in error
    DefaultFormat,
    OwnFormat,      \* a pattern the application uses
    MaxChanges,     \* bound: changes by the application
    None            \* a field that is not defined, an empty string

LevelNames == <<"DEBUG", "INFO", "WARN", "ERROR", "FATAL">>
Lower == <<"debug", "info", "warn", "error", "fatal">>

ASSUME LogYamlAssumption ==
    /\ None \notin LogNames \union {"root", "own", DefaultFormat, OwnFormat}
    /\ \A k \in 1 .. 5 : None # LevelNames[k] /\ None # Lower[k]
    /\ MaxChanges \in Nat
    /\ {DefaultFormat, OwnFormat} \cap BadFormats = {}
    /\ \A doc \in LogDocs :
        /\ doc.items \in Seq(Range(doc.items))
        /\ \A k \in DOMAIN doc.items : doc.items[k].appenders \in Seq(Range(doc.items[k].appenders))

\* LogLevel::FromString and ToString; level 0 is UNKNOW.
LevelFrom(x) ==
    IF \E k \in 1 .. 5 : x \in {LevelNames[k], Lower[k]}
    THEN CHOOSE k \in 1 .. 5 : x \in {LevelNames[k], Lower[k]} ELSE 0
LevelTo(n) == IF n = 0 THEN None ELSE LevelNames[n]

-----------------------------------------------------------------------------
(* LexicalCast for LogDefine.                                              *)

\* An appender without a type, of an unknown type, or a file appender without
\* a file is passed over.
ValidAppender(a) == a.type = "StdoutLogAppender" \/ (a.type = "FileLogAppender" /\ a.file # None)

\* The level of an appender is not read.
AppenderFrom(a) ==
    [type |-> a.type, file |-> IF a.type = "FileLogAppender" THEN a.file ELSE None,
     level |-> 0, formatter |-> a.formatter]

\* A definition without a name throws.
Throws(d) == d.name = None

DefineFrom(d) ==
    [name |-> d.name, level |-> LevelFrom(d.level), formatter |-> d.formatter,
     appenders |-> FlattenSeq([k \in DOMAIN d.appenders |->
                        IF ValidAppender(d.appenders[k]) THEN <<AppenderFrom(d.appenders[k])>>
                        ELSE <<>>])]

\* operator<: definitions of the same name are one element of the set.
LogsFrom(doc) ==
    LET D == doc.items IN
    SetOf([k \in DOMAIN D |-> DefineFrom(D[k])], [k \in DOMAIN D |-> D[k].name])

\* Mutant of AppenderTo: the file is not written.
AppenderToBare(a) ==
    [type |-> a.type, file |-> None, level |-> LevelTo(a.level), formatter |-> a.formatter]

\* An appender as a node, in the conversion of a LogDefine and in
\* toYamlString of the two kinds of appenders, whose m_hasFormatter is true.
AppenderTo(a) ==
    [type |-> a.type, file |-> a.file, level |-> LevelTo(a.level), formatter |-> a.formatter]

\* A definition, or with the same fields a logger, as a node.
DefineTo(d) ==
    [name |-> d.name, level |-> LevelTo(d.level), formatter |-> d.formatter,
     appenders |-> [k \in DOMAIN d.appenders |-> AppenderTo(d.appenders[k])]]

-----------------------------------------------------------------------------
(* The loggers.                                                            *)

StdoutAppender == [type |-> "StdoutLogAppender", file |-> None, level |-> 1, formatter |-> DefaultFormat]
FileAppender(n) == [type |-> "FileLogAppender", file |-> n, level |-> 1, formatter |-> DefaultFormat]

\* A new logger, with applyDefaultConfig; the manager applies it to the root
\* logger twice.
NewLogger(n) ==
    LET A == <<StdoutAppender, FileAppender(n)>> IN
    [name |-> n, level |-> 1, formatter |-> DefaultFormat,
     appenders |-> IF n = "root" THEN A \o A ELSE A]

\* The loggers are those of m_loggers, by their names.
Boot == [n \in {"root"} |-> NewLogger(n)]

getLogger(L, n) == IF n \in DOMAIN L THEN L[n] ELSE NewLogger(n)

\* A pattern in error, and an empty one, count for nothing.
OrElse(p, q) == IF p = None \/ p \in BadFormats THEN q ELSE p

\* What the listener makes of a logger for a definition.
Configured(l, d) ==
    LET p == OrElse(d.formatter, l.formatter) IN
    [name |-> l.name, level |-> d.level, formatter |-> p,
     appenders |-> [k \in DOMAIN d.appenders |->
                        [d.appenders[k] EXCEPT !.formatter = OrElse(@, p)]]]

\* The loggers L after setValue(S) with no definitions before it.
Apply(L, S) ==
    [n \in DOMAIN L \union {d.name : d \in S} |->
        IF \E d \in S : d.name = n
        THEN Configured(getLogger(L, n), CHOOSE d \in S : d.name = n)
        ELSE L[n]]

\* fromString of "logs": an exception is caught, and nothing changes.
LoadLogs(L, doc) ==
    IF \E k \in DOMAIN doc.items : Throws(doc.items[k]) THEN L ELSE Apply(L, LogsFrom(doc))

\* LoggerManager::toYamlString: the loggers, in whatever order.
Dumps(L) == SetTexts({DefineTo(L[n]) : n \in DOMAIN L})

VARIABLES
    process,     \* "boot", "running", "dumped" or "restored"
    logs,        \* the loggers
    was,         \* history: the loggers when they were dumped
    dump,        \* the document they were dumped to
    changes      \* calls of the application so far

logYamlVars == <<process, logs, was, dump, changes>>

LogYamlInit ==
    /\ process = "boot" /\ logs = Boot /\ was = Boot /\ dump = None /\ changes = 0

LoadDocument(doc) ==
    /\ process = "boot"
    /\ process' = "running"
    /\ logs' = LoadLogs(logs, doc)
    /\ UNCHANGED <<was, dump, changes>>

\* The application: getLogger, setLevel, setFormatter, addAppender with and
\* without a formatter, clearAppenders.
Change(n) ==
    /\ process = "running" /\ changes < MaxChanges
    /\ changes' = changes + 1
    /\ \/ /\ n \notin DOMAIN logs
          /\ logs' = [m \in DOMAIN logs \union {n} |-> getLogger(logs, m)]
       \/ /\ n \in DOMAIN logs
          /\ \/ \E v \in 0 .. 5 : logs' = [logs EXCEPT ![n].level = v]
             \/ logs' = [logs EXCEPT ![n].formatter = OwnFormat]
             \/ \E p \in {OwnFormat, None} :
                    logs' = [logs EXCEPT ![n].appenders =
                                Append(@, [FileAppender("own") EXCEPT !.formatter = OrElse(p, logs[n].formatter)])]
             \/ logs' = [logs EXCEPT ![n].appenders = <<>>]
    /\ UNCHANGED <<process, was, dump>>

Dump ==
    /\ process = "running"
    /\ process' = "dumped"
    /\ was' = logs /\ logs' = Boot
    /\ dump' \in Dumps(logs)
    /\ UNCHANGED changes

Restore ==
    /\ process = "dumped"
    /\ process' = "restored"
    /\ logs' = LoadLogs(logs, dump)
    /\ UNCHANGED <<was, dump, changes>>

LogYamlNext ==
    \/ \E doc \in LogDocs : LoadDocument(doc)
    \/ \E n \in LogNames : Change(n)
    \/ Dump \/ Restore

LogYamlSpec == LogYamlInit /\ [][LogYamlNext]_logYamlVars

-----------------------------------------------------------------------------
(* Properties.                                                             *)

\* A logger without the levels of its appenders.
NoAppenderLevels(l) ==
    [l EXCEPT !.appenders = [k \in DOMAIN @ |-> [@[k] EXCEPT !.level = 0]]]

\* "Convert the configuration of the logger to a YAML string": a process that
\* loads the dump of another has the loggers of the other, with level, pattern
\* and appenders, whatever document and calls made them.  What is not
\* restored is the level of an appender, which is written and never read:
\* after a restart an appender accepts every event.
DumpRestores ==
    process = "restored" =>
        /\ DOMAIN logs = DOMAIN was
        /\ \A n \in DOMAIN logs :
            /\ NoAppenderLevels(logs[n]) = NoAppenderLevels(was[n])
            /\ \A k \in DOMAIN logs[n].appenders : logs[n].appenders[k].level = 0
=============================================================================
