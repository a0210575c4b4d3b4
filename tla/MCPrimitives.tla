---------------------------- MODULE MCPrimitives ----------------------------
(***************************************************************************)
(* The components below the scheduler, the configuration and the log:      *)
(* Fiber, Thread, Locks, FSUtil and Env.  They share no state; a behaviour *)
(* is one of one of them.                                                  *)
(***************************************************************************)
EXTENDS Fiber, Thread, Locks, FSUtil, Env

VARIABLE part    \* the component that runs

Log == <<"log">>
A == <<"log", "a">>
X == <<"log", "a", "x">>
Y == <<"log", "a", "y">>
B == <<"log", "b">>
Old == <<"old">>

MCPaths == {<<>>, Log, A, X, Y, B, Old}

Tree(names) == [p \in MCPaths |-> IF p = <<>> THEN "dir" ELSE IF p \in DOMAIN names THEN names[p] ELSE "none"]

\* Nothing at all, and directories with what can and what cannot be removed.
MCTrees ==
    {Tree(<<>>)} \union
    {Tree(Log :> "dir" @@ A :> "dir" @@ X :> "file" @@ Y :> y @@ B :> "precious") :
        y \in {"file", "socket"}}

FSCall(o, p, f) == [op |-> o, path |-> p, from |-> f]
MCCalls ==
    "t1" :> {FSCall("Open", X, <<>>), FSCall("Mkdir", A, <<>>), FSCall("Rm", A, <<>>)} @@
    "t2" :> {FSCall("Open", Y, <<>>), FSCall("Open", B, <<>>), FSCall("Mkdir", A, <<>>),
             FSCall("Symlink", A, <<>>), FSCall("Rm", Log, <<>>), FSCall("Mv", A, B), FSCall("Mv", Old, B)}

MCInit ==
    /\ part \in {"fiber", "thread", "locks", "fs", "env"}
    /\ Init /\ ThreadInit /\ LocksInit /\ FSInit /\ EnvInit
    /\ part # "fs" => tree = Tree(<<>>)
    /\ part # "env" => argv = <<>>
    /\ part # "locks" => m_mutex_of = [g \in Guards |-> CHOOSE l \in LockObjects : TRUE]

MCNext ==
    /\ part' = part
    /\ \/ part = "fiber" /\ Next /\ UNCHANGED <<threadVars, lockVars, fsVars, envVars>>
       \/ part = "thread" /\ ThreadNext /\ UNCHANGED <<vars, lockVars, fsVars, envVars>>
       \/ part = "locks" /\ LocksNext /\ UNCHANGED <<vars, threadVars, fsVars, envVars>>
       \/ part = "fs" /\ FSNext /\ UNCHANGED <<vars, threadVars, lockVars, envVars>>
       \/ part = "env" /\ EnvNext /\ UNCHANGED <<vars, threadVars, lockVars, fsVars>>

MCSpec ==
    /\ MCInit /\ [][MCNext]_<<part, vars, threadVars, lockVars, fsVars, envVars>>
    /\ ThreadFairness /\ FSFairness
=============================================================================
