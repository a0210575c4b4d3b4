-------------------------------- MODULE Env --------------------------------
(***************************************************************************)
(* Env (env.cc): the command line, read by init() before anything else,    *)
(* and the list of help texts.                                             *)
(*                                                                         *)
(* A word of the command line is an option ("-k" with its key), a lone     *)
(* dash, or a value; texts are abstract.  argv[0] and the path of the      *)
(* executable are left out.                                                *)
(***************************************************************************)
EXTENDS Naturals, Sequences

CONSTANTS
    Keys,        \* keys of options and of help texts
    Words,       \* values on the command line
    Empty,       \* the empty string, the value of an option without one
    MaxArgs,     \* bound: words on the command line
    MaxHelps     \* bound: calls of addHelp and removeHelp

ASSUME EnvAssumption ==
    /\ MaxArgs \in Nat /\ MaxHelps \in Nat
    /\ Empty \notin Keys /\ "-" \notin Keys \union Words

Option(k) == [key |-> k]
LoneDash == [dash |-> 1]
Value(v) == [val |-> v]
Arguments == {Option(k) : k \in Keys} \union {LoneDash} \union {Value(v) : v \in Words}

VARIABLES
    argv,        \* the command line
    word,        \* the word init() is at
    now_key,     \* the option that waits for its value, or Empty
    m_args,      \* value of each key, or "-" for none
    touched,     \* history: the keys the program has added or deleted itself
    env,         \* where the program is: in init(), a result of it, in removeHelp()
    m_helps,     \* the keys of the help list
    it,          \* the iterator of removeHelp()
    doomed,      \* the key removeHelp() removes
    adding,      \* it was called by addHelp()
    helps        \* calls so far

envVars == <<argv, word, now_key, m_args, touched, env, m_helps, it, doomed, adding, helps>>
argVars == <<argv, word, now_key, m_args, touched>>
helpVars == <<m_helps, it, doomed, adding, helps>>

EnvInit ==
    /\ argv \in UNION {[1 .. n -> Arguments] : n \in 0 .. MaxArgs}
    /\ word = 1 /\ now_key = Empty
    /\ m_args = [k \in Keys |-> "-"] /\ touched = {}
    /\ env = "init"
    /\ m_helps = <<>> /\ it = 0 /\ doomed = Empty /\ adding = FALSE /\ helps = 0

-----------------------------------------------------------------------------
(* init().                                                                 *)

Add(k, v) == m_args' = [m_args EXCEPT ![k] = v]

\* readlink() fails before a word has been read.
ReadlinkFails ==
    /\ env = "init" /\ word = 1
    /\ env' = "failed"
    /\ UNCHANGED <<argVars, helpVars>>

At(a) == env = "init" /\ word <= Len(argv) /\ argv[word] = a

\* Mutant of OptionArg: an option that waits for its value is forgotten.
OptionArgForget(k) ==
    /\ At(Option(k))
    /\ now_key' = k /\ word' = word + 1
    /\ UNCHANGED <<argv, m_args, touched, env, helpVars>>

\* An option; one that still waits for its value has none.
OptionArg(k) ==
    /\ At(Option(k))
    /\ IF now_key # Empty THEN Add(now_key, Empty) ELSE UNCHANGED m_args
    /\ now_key' = k /\ word' = word + 1
    /\ UNCHANGED <<argv, touched, env, helpVars>>

\* A lone dash is reported and passed over.
LoneDashArg ==
    /\ At(LoneDash)
    /\ word' = word + 1
    /\ UNCHANGED <<argv, now_key, m_args, touched, env, helpVars>>

\* A value goes to the option that waits for one; without, init() fails.
ValueArg(v) ==
    /\ At(Value(v))
    /\ IF now_key # Empty THEN Add(now_key, v) /\ now_key' = Empty /\ word' = word + 1 /\ UNCHANGED env
       ELSE env' = "failed" /\ UNCHANGED <<m_args, now_key, word>>
    /\ UNCHANGED <<argv, touched, helpVars>>

ArgsEnd ==
    /\ env = "init" /\ word > Len(argv)
    /\ IF now_key # Empty THEN Add(now_key, Empty) ELSE UNCHANGED m_args
    /\ env' = "ready"
    /\ UNCHANGED <<argv, word, now_key, touched, helpVars>>

\* add() and del() by the program.
ArgAdd(k, v) ==
    /\ env = "ready"
    /\ Add(k, v) /\ touched' = touched \union {k}
    /\ UNCHANGED <<argv, word, now_key, env, helpVars>>

ArgDel(k) ==
    /\ env = "ready"
    /\ Add(k, "-") /\ touched' = touched \union {k}
    /\ UNCHANGED <<argv, word, now_key, env, helpVars>>

-----------------------------------------------------------------------------
(* addHelp() and removeHelp().                                             *)

\* removeHelp(k), called by the program or as the first half of addHelp.
RemoveHelp(k, add) ==
    /\ env = "ready" /\ helps < MaxHelps
    /\ env' = "removing" /\ it' = 1 /\ doomed' = k /\ adding' = add /\ helps' = helps + 1
    /\ UNCHANGED <<m_helps, argVars>>

\* A round of the loop.  An entry that matches is erased, which leaves the
\* iterator at the next one, and any other is passed; then the iterator is
\* advanced once more.
RemoveRound ==
    /\ env = "removing" /\ it <= Len(m_helps)
    /\ IF m_helps[it] = doomed
       THEN /\ m_helps' = SubSeq(m_helps, 1, it - 1) \o SubSeq(m_helps, it + 1, Len(m_helps))
            /\ it' = it + 1
       ELSE it' = it + 2 /\ UNCHANGED m_helps
    /\ UNCHANGED <<doomed, adding, helps, env, argVars>>

\* The iterator is end(): addHelp appends its entry.
RemoveEnd ==
    /\ env = "removing" /\ it = Len(m_helps) + 1
    /\ m_helps' = IF adding THEN Append(m_helps, doomed) ELSE m_helps
    /\ env' = "ready"
    /\ UNCHANGED <<it, doomed, adding, helps, argVars>>

\* The iterator has passed end(), and the loop reads behind the list: what
\* happens then is undefined, and the model goes no further.
RemoveBeyond ==
    /\ env = "removing" /\ it > Len(m_helps) + 1
    /\ env' = "undefined"
    /\ UNCHANGED <<helpVars, argVars>>

EnvNext ==
    \/ ReadlinkFails \/ LoneDashArg \/ ArgsEnd
    \/ \E k \in Keys : OptionArg(k) \/ \E add \in BOOLEAN : RemoveHelp(k, add)
    \/ \E v \in Words : ValueArg(v) \/ \E k \in Keys : ArgAdd(k, v)
    \/ \E k \in Keys : ArgDel(k)
    \/ RemoveRound \/ RemoveEnd \/ RemoveBeyond

EnvSpec == EnvInit /\ [][EnvNext]_envVars

-----------------------------------------------------------------------------
(* Properties.                                                             *)

\* The word that follows word j, lone dashes apart, is the value v.
Follows(j, v) ==
    \E n \in j + 1 .. Len(argv) :
        argv[n] = Value(v) /\ \A m \in j + 1 .. n - 1 : argv[m] = LoneDash

\* After init() an option has the value behind its last occurrence, or the
\* empty value if the next word is another option or the end; a value that
\* follows no option makes init() fail.
ArgsExact ==
    env \notin {"init", "failed"} =>
        /\ \A k \in Keys \ touched :
            LET O == {j \in 1 .. Len(argv) : argv[j] = Option(k)} IN
            IF O = {} THEN m_args[k] = "-"
            ELSE LET last == CHOOSE j \in O : \A n \in O : n <= j IN
                 \/ m_args[k] \in Words /\ Follows(last, m_args[k])
                 \/ m_args[k] = Empty /\ \A v \in Words : ~Follows(last, v)
        /\ \A v \in Words : ~Follows(0, v)
        /\ \A j \in 1 .. Len(argv), u, v \in Words : argv[j] = Value(u) => ~Follows(j, v)
=============================================================================
