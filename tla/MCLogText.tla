------------------------------ MODULE MCLogText ------------------------------
(***************************************************************************)
(* From the text of a configuration to the text in a log file: the casts,  *)
(* the YAML documents of the loggers, the parser of patterns and the file  *)
(* appender.  They share no state; a behaviour is one of one of them.      *)
(***************************************************************************)
EXTENDS LogFormatter, LogYaml, FileLogAppender

CONSTANT MaxLen   \* bound: length of a pattern

VARIABLE part     \* the component that runs

\* All patterns up to a length over the characters the parser tells apart:
\* '%', braces, a letter that names an item, one that does not, another.
Chars == {"%", "{", "}", "m", "x", " "}
AllPatterns == UNION {[1 .. n -> Chars] : n \in 0 .. MaxLen}

\* Texts of numbers: two for the number 1, and one that is none.
MCElementOf == "0" :> 0 @@ "1" :> 1 @@ "01" :> 1 @@ "x" :> Thrown

Node(name, level, p, A) == [name |-> name, level |-> level, formatter |-> p, appenders |-> A]
App(type, file, p) == [type |-> type, file |-> file, level |-> "ERROR", formatter |-> p]

MCAppenders ==
    {App("FileLogAppender", "f", None), App("FileLogAppender", "f", "good"),
     App("FileLogAppender", None, "good"), App("StdoutLogAppender", None, "bad"),
     App(None, "f", None), App("Other", None, None)}

MCNodes ==
    {Node(n, l, p, A) : n \in {None, "root", "system"}, l \in {None, "warn", "WARN", "loud"},
                        p \in {None, "good", "bad"}, A \in {<<>>} \union {<<a>> : a \in MCAppenders}}
    \union {Node("system", "info", "good", <<a, b>>) : a, b \in MCAppenders}

\* One definition of any kind, and two with the same name or not.
MCLogDocs ==
    {Listed(<<d>>) : d \in MCNodes} \union
    {Listed(<<Node("system", "warn", "good", <<a>>), Node(n, None, None, <<App("FileLogAppender", "g", None)>>)>>) :
        a \in MCAppenders, n \in {None, "root", "system"}}

MCInit ==
    /\ part \in {"pattern", "cast", "yaml", "appender"}
    /\ Init /\ CastInit /\ LogYamlInit /\ AppenderInit
    /\ part # "pattern" => m_pattern = <<>>
    /\ part # "cast" => kind = "scalar"
    /\ part # "appender" => denied = FALSE

MCNext ==
    /\ part' = part
    /\ \/ part = "pattern" /\ Next /\ UNCHANGED <<castVars, logYamlVars, appenderVars>>
       \/ part = "cast" /\ CastNext /\ UNCHANGED <<vars, logYamlVars, appenderVars>>
       \/ part = "yaml" /\ LogYamlNext /\ UNCHANGED <<vars, castVars, appenderVars>>
       \/ part = "appender" /\ AppenderNext /\ UNCHANGED <<vars, castVars, logYamlVars>>

MCSpec == MCInit /\ [][MCNext]_<<part, vars, castVars, logYamlVars, appenderVars>>
=============================================================================
