------------------------------- MODULE FSUtil -------------------------------
(***************************************************************************)
(* The file system operations of util.cc that take several system calls:   *)
(* Mkdir, Rm, Unlink, Mv, Symlink and OpenForWrite, called by several      *)
(* threads (or processes) at once.  Every system call is one step; the     *)
(* others may do anything between two of them.                             *)
(*                                                                         *)
(* A path is the sequence of its components.  The system calls are         *)
(* external: they fail on a path in Refused (permissions) and otherwise    *)
(* only where the tree makes them fail.  readdir returns, in any order,    *)
(* the entries there were when the directory was opened.                   *)
(***************************************************************************)
EXTENDS Naturals, Sequences, SequencesExt

CONSTANTS
    FSThreads,    \* threads that call FSUtil
    FSCalls,      \* the calls each of them may make
    Paths,        \* the paths there can be, <<>> is the root directory
    Trees,        \* file systems to start from
    Refused       \* paths that may not be made, opened, moved or removed

\* What a path names: "dir", or something else, where "socket" stands for the
\* types whose mode shares a bit with S_IFDIR (sockets and block devices).
Kinds == {"none", "dir", "file", "precious", "socket", "link"}

ASSUME FSAssumption ==
    /\ <<>> \in Paths /\ Paths \subseteq Seq(UNION {Range(p) : p \in Paths})
    /\ \A p \in Paths : \A i \in 0 .. Len(p) : SubSeq(p, 1, i) \in Paths
    /\ Refused \subseteq Paths
    /\ \A tr \in Trees : tr \in [Paths -> Kinds] /\ tr[<<>>] = "dir"
    /\ \A t \in FSThreads : FSCalls[t] \subseteq
            [op : {"Mkdir", "Rm", "Mv", "Symlink", "Open"}, path : Paths \ {<<>>}, from : Paths]

VARIABLES
    tree,         \* what each path names
    call,         \* the call of a thread
    step,         \* where it is in it
    at,           \* Mkdir: components looked at so far
    stack,        \* Rm: the activations of the recursion, the outermost first
    ret,          \* what the call returned
    source,       \* history: what Mv was to move, when the call began
    made, gone    \* history: paths made and removed since the call began

fsVars == <<tree, call, step, at, stack, ret, source, made, gone>>

NoCall == [op |-> "none", path |-> <<>>, from |-> <<>>]

Exists(p) == tree[p] # "none"
Dirname(p) == Front(p)
Entries(p) == {q \in Paths \ {<<>>} : Exists(q) /\ Dirname(q) = p}
Below(p) == {q \in Paths : IsPrefix(p, q)}

FSInit ==
    /\ tree \in Trees
    /\ call = [t \in FSThreads |-> NoCall]
    /\ step = [t \in FSThreads |-> "idle"]
    /\ at = [t \in FSThreads |-> 0]
    /\ stack = [t \in FSThreads |-> <<>>]
    /\ ret = [t \in FSThreads |-> FALSE]
    /\ source = [t \in FSThreads |-> "none"]
    /\ made = [t \in FSThreads |-> {}]
    /\ gone = [t \in FSThreads |-> {}]

-----------------------------------------------------------------------------
(* System calls.                                                           *)

\* The tree becomes T.
Becomes(T) ==
    /\ tree' = T
    /\ made' = [t \in FSThreads |-> made[t] \union {p \in Paths : T[p] # "none" /\ ~Exists(p)}]
    /\ gone' = [t \in FSThreads |-> gone[t] \union {p \in Paths : T[p] = "none" /\ Exists(p)}]

SameTree == UNCHANGED <<tree, made, gone>>

\* mkdir, symlink or the creation of a file succeeds at p.
Creatable(p) == ~Exists(p) /\ tree[Dirname(p)] = "dir" /\ p \notin Refused
Create(p, kind) == Becomes([tree EXCEPT ![p] = kind])
Vanish(p) == Becomes([tree EXCEPT ![p] = "none"])

\* open() for appending.
Openable(p) == (tree[p] \in {"file", "precious"} /\ p \notin Refused) \/ Creatable(p)

Unlinkable(p) == Exists(p) /\ tree[p] # "dir" /\ p \notin Refused
Rmdirable(p) == tree[p] = "dir" /\ Entries(p) = {} /\ p \notin Refused

\* rename() replaces a file by what is no directory, and an empty directory by
\* a directory.
Renamable(p, q) ==
    /\ Exists(p) /\ {p, q} \cap Refused = {} /\ tree[Dirname(q)] = "dir"
    /\ ~IsStrictPrefix(p, q)
    /\ tree[q] = "none" \/ (IF tree[p] = "dir" THEN tree[q] = "dir" /\ Entries(q) \subseteq {p}
                                               ELSE tree[q] # "dir")

\* The tree with p, and what is below it, moved to q.
Moved(p, q) ==
    [r \in Paths |->
        IF IsPrefix(q, r)
        THEN LET s == p \o SubSeq(r, Len(q) + 1, Len(r)) IN IF s \in Paths THEN tree[s] ELSE "none"
        ELSE IF IsPrefix(p, r) THEN "none" ELSE tree[r]]

-----------------------------------------------------------------------------
Goto(t, s) == step' = [step EXCEPT ![t] = s]

Return(t, v) ==
    /\ Goto(t, "done")
    /\ ret' = [ret EXCEPT ![t] = v]

Activation(p) == [path |-> p, phase |-> "lstat", left |-> {}, ret |-> TRUE]

\* A call begins.  Mv and Symlink begin with Rm of their target.
Begin(t, c) ==
    /\ step[t] = "idle"
    /\ call' = [call EXCEPT ![t] = c]
    /\ source' = [source EXCEPT ![t] = tree[c.from]]
    /\ made' = [made EXCEPT ![t] = {}] /\ gone' = [gone EXCEPT ![t] = {}]
    /\ \/ c.op = "Mkdir" /\ Goto(t, "lstat") /\ UNCHANGED stack
       \/ c.op = "Open" /\ Goto(t, "open") /\ UNCHANGED stack
       \/ /\ c.op \in {"Rm", "Mv", "Symlink"} /\ Goto(t, "rm")
          /\ stack' = [stack EXCEPT ![t] = <<Activation(c.path)>>]
    /\ UNCHANGED <<tree, at, ret>>

-----------------------------------------------------------------------------
(* Mkdir, by itself and inside OpenForWrite.                               *)

Target(t) == IF call[t].op = "Open" THEN Dirname(call[t].path) ELSE call[t].path
Component(t) == SubSeq(Target(t), 1, at[t])

\* OpenForWrite ignores the result of its Mkdir.
MkdirReturn(t, v) ==
    IF call[t].op = "Open" THEN Goto(t, "again") /\ UNCHANGED ret ELSE Return(t, v)

\* lstat: whatever is there, Mkdir is content.
MkdirLstat(t) ==
    /\ step[t] = "lstat"
    /\ IF Exists(Target(t)) THEN MkdirReturn(t, TRUE) /\ UNCHANGED at
       ELSE Goto(t, "access") /\ at' = [at EXCEPT ![t] = 1] /\ UNCHANGED ret
    /\ SameTree /\ UNCHANGED <<call, source, stack>>

\* Mutant of MkdirNext: the loop makes the directories above, not the last.
MkdirNextShort(t) ==
    IF at[t] + 1 >= Len(Target(t)) THEN MkdirReturn(t, TRUE) /\ UNCHANGED at
    ELSE Goto(t, "access") /\ at' = [at EXCEPT ![t] = @ + 1] /\ UNCHANGED ret

\* A component is there: on to the next one.
MkdirNext(t) ==
    IF at[t] = Len(Target(t)) THEN MkdirReturn(t, TRUE) /\ UNCHANGED at
    ELSE Goto(t, "access") /\ at' = [at EXCEPT ![t] = @ + 1] /\ UNCHANGED ret

\* Mutant of MkdirAccess: mkdir is called on every component.
MkdirAccessNot(t) ==
    /\ step[t] = "access"
    /\ Goto(t, "mkdir") /\ UNCHANGED <<at, ret>>
    /\ SameTree /\ UNCHANGED <<call, source, stack>>

\* __mkdir tests with access(), which follows a link, whose target may be
\* there or not ...
MkdirAccess(t) ==
    /\ step[t] = "access"
    /\ \/ Exists(Component(t)) /\ MkdirNext(t)
       \/ tree[Component(t)] \in {"none", "link"} /\ Goto(t, "mkdir") /\ UNCHANGED <<at, ret>>
    /\ SameTree /\ UNCHANGED <<call, source, stack>>

\* ... before it calls mkdir(), which fails if somebody else was faster.
MkdirMake(t) ==
    /\ step[t] = "mkdir"
    /\ IF Creatable(Component(t))
       THEN Create(Component(t), "dir") /\ MkdirNext(t)
       ELSE SameTree /\ MkdirReturn(t, FALSE) /\ UNCHANGED at
    /\ UNCHANGED <<call, source, stack>>

\* OpenForWrite: open(), and once more after Mkdir.
OpenForWrite(t) ==
    /\ step[t] \in {"open", "again"}
    /\ LET p == call[t].path IN
       \/ /\ Openable(p)
          /\ IF Exists(p) THEN SameTree ELSE Create(p, "file")
          /\ Return(t, TRUE)
       \/ /\ ~Openable(p)
          /\ SameTree
          /\ IF step[t] = "open" THEN Goto(t, "lstat") /\ UNCHANGED ret ELSE Return(t, FALSE)
    /\ UNCHANGED <<call, source, at, stack>>

\* FileLogAppender::reopen tries again when the next events come.
TryAgain(t) ==
    /\ step[t] = "done" /\ call[t].op = "Open" /\ ~ret[t]
    /\ Goto(t, "open")
    /\ made' = [made EXCEPT ![t] = {}] /\ gone' = [gone EXCEPT ![t] = {}]
    /\ UNCHANGED <<tree, call, source, at, stack, ret>>

-----------------------------------------------------------------------------
(* Rm, and Unlink inside it.                                               *)

Top(t) == Last(stack[t])
In(t, phase) == step[t] = "rm" /\ Top(t).phase = phase
Phase(t, a) == stack' = [stack EXCEPT ![t] = Append(Front(@), a)]

\* An activation returns v, to the loop of the one below it in the stack or
\* to Mv and Symlink, which go on only if it is true.
RmReturn(t, v) ==
    IF Len(stack[t]) > 1
    THEN /\ stack' = [stack EXCEPT ![t] = [Front(@) EXCEPT ![Len(stack[t]) - 1].ret = v]]
         /\ UNCHANGED <<step, ret>>
    ELSE /\ stack' = [stack EXCEPT ![t] = <<>>]
         /\ IF v /\ call[t].op # "Rm"
            THEN Goto(t, call[t].op) /\ UNCHANGED ret ELSE Return(t, v)

RmStay == UNCHANGED <<step, ret>>

RmLstat(t) ==
    /\ In(t, "lstat")
    /\ LET a == Top(t) IN
        IF ~Exists(a.path) THEN RmReturn(t, TRUE)
        ELSE /\ Phase(t, [a EXCEPT !.phase = IF tree[a.path] \in {"dir", "socket"} THEN "opendir"
                                             ELSE "gone?"])
             /\ RmStay
    /\ SameTree /\ UNCHANGED <<call, source, at>>

\* Unlink has an lstat of its own.
UnlinkLstat(t) ==
    /\ In(t, "gone?")
    /\ IF ~Exists(Top(t).path) THEN RmReturn(t, TRUE)
       ELSE Phase(t, [Top(t) EXCEPT !.phase = "unlink"]) /\ RmStay
    /\ SameTree /\ UNCHANGED <<call, source, at>>

UnlinkFile(t) ==
    /\ In(t, "unlink")
    /\ IF Unlinkable(Top(t).path) THEN Vanish(Top(t).path) /\ RmReturn(t, TRUE)
       ELSE SameTree /\ RmReturn(t, FALSE)
    /\ UNCHANGED <<call, source, at>>

RmOpendir(t) ==
    /\ In(t, "opendir")
    /\ LET a == Top(t) IN
        IF tree[a.path] # "dir" THEN RmReturn(t, FALSE)
        ELSE /\ Phase(t, [a EXCEPT !.phase = "readdir", !.left = Entries(a.path)])
             /\ RmStay
    /\ SameTree /\ UNCHANGED <<call, source, at>>

\* The next entry: Rm calls itself.
RmReaddir(t) ==
    /\ In(t, "readdir")
    /\ \E q \in Top(t).left :
        stack' = [stack EXCEPT ![t] =
                    Front(@) \o <<[Top(t) EXCEPT !.left = @ \ {q}], Activation(q)>>]
    /\ SameTree /\ RmStay /\ UNCHANGED <<call, source, at>>

\* Mutant of RmRmdir: only the last entry decides what is returned.
RmRmdirUnseen(t) ==
    /\ In(t, "readdir") /\ Top(t).left = {}
    /\ RmReturn(t, Top(t).ret)
    /\ IF Rmdirable(Top(t).path) THEN Vanish(Top(t).path) ELSE SameTree
    /\ UNCHANGED <<call, source, at>>

\* No more entries: what the last of them returned is overruled by rmdir().
RmRmdir(t) ==
    /\ In(t, "readdir") /\ Top(t).left = {}
    /\ IF Rmdirable(Top(t).path) THEN Vanish(Top(t).path) /\ RmReturn(t, Top(t).ret)
       ELSE SameTree /\ RmReturn(t, FALSE)
    /\ UNCHANGED <<call, source, at>>

-----------------------------------------------------------------------------
(* The second half of Mv and Symlink.                                      *)

\* Mutant of MvRename: the source is removed whether or not it was moved.
MvRenameForced(t) ==
    /\ step[t] = "Mv"
    /\ LET p == call[t].from  q == call[t].path IN
        /\ Becomes(IF Renamable(p, q) THEN Moved(p, q) ELSE [tree EXCEPT ![p] = "none"])
        /\ Return(t, Renamable(p, q))
    /\ UNCHANGED <<call, source, at, stack>>

MvRename(t) ==
    /\ step[t] = "Mv"
    /\ LET p == call[t].from  q == call[t].path IN
        IF Renamable(p, q) THEN Becomes(Moved(p, q)) /\ Return(t, TRUE)
        ELSE SameTree /\ Return(t, FALSE)
    /\ UNCHANGED <<call, source, at, stack>>

SymlinkMake(t) ==
    /\ step[t] = "Symlink"
    /\ LET q == call[t].path IN
        IF Creatable(q) THEN Create(q, "link") /\ Return(t, TRUE)
        ELSE SameTree /\ Return(t, FALSE)
    /\ UNCHANGED <<call, source, at, stack>>

-----------------------------------------------------------------------------
FSStep(t) ==
    \/ MkdirLstat(t) \/ MkdirAccess(t) \/ MkdirMake(t) \/ OpenForWrite(t) \/ TryAgain(t)
    \/ RmLstat(t) \/ UnlinkLstat(t) \/ UnlinkFile(t) \/ RmOpendir(t) \/ RmReaddir(t)
    \/ RmRmdir(t) \/ MvRename(t) \/ SymlinkMake(t)

FSNext == \E t \in FSThreads : FSStep(t) \/ \E c \in FSCalls[t] : Begin(t, c)

FSSpec == FSInit /\ [][FSNext]_fsVars

\* Threads that are inside a call go on; nobody has to make a call.
FSFairness == \A t \in FSThreads : WF_fsVars(FSStep(t))

-----------------------------------------------------------------------------
(* Properties.                                                             *)

Returned(t, op, v) == step[t] = "done" /\ call[t].op = op /\ ret[t] = v

\* A Mkdir that returned true has left its path in place, with every
\* directory above it, whoever made which component, unless somebody removed
\* one of them during the call or after it.
MkdirMade ==
    \A t \in FSThreads : Returned(t, "Mkdir", TRUE) =>
        Exists(call[t].path) \/ \E p \in gone[t] : IsPrefix(p, call[t].path)

\* A Rm that returned true has removed its path, however deep, although
\* the result of every entry but the last is overwritten in its loop; one
\* that returned false met something that cannot be removed, or somebody
\* else at work below the path.
RmTruthful ==
    \A t \in FSThreads : LET B == Below(call[t].path) IN
        /\ Returned(t, "Rm", TRUE) => ~Exists(call[t].path) \/ made[t] \cap B # {}
        /\ Returned(t, "Rm", FALSE) =>
            \/ \E p \in B : Exists(p) /\ (p \in Refused \/ tree[p] = "socket")
            \/ made[t] \cap B # {}
            \/ \E u \in FSThreads \ {t} : call[u].op \in {"Rm", "Mv", "Symlink"}

\* The paths a call may empty.
Victims(t) ==
    (IF call[t].op \in {"Rm", "Mv", "Symlink"} THEN {call[t].path} ELSE {})
    \union (IF call[t].op = "Mv" THEN {call[t].from} ELSE {})

\* A file is lost by no Mv of it, wherever the Mv fails or is cut off between
\* the removal of its target and the rename: it is at the one place or the
\* other.  Left out are a source below the target, which Mv removes first,
\* and files another call removes or moves.
MvKeeps ==
    \A t \in FSThreads : LET c == call[t] IN
        /\ c.op = "Mv" /\ source[t] = "precious" /\ ~IsPrefix(c.path, c.from)
        /\ \A u \in FSThreads \ {t} : \A p \in Victims(u) :
            ~IsPrefix(p, c.from) /\ ~IsPrefix(p, c.path)
        => "precious" \in {tree[c.from], tree[c.path]}

\* Something that is no directory stands where path p needs one, or the
\* other way round.
Obstructed(p) ==
    \/ tree[p] \in {"dir", "socket", "link"}
    \/ \E i \in 1 .. Len(p) - 1 : tree[SubSeq(p, 1, i)] \notin {"none", "dir"}
    \/ \E i \in 1 .. Len(p) : SubSeq(p, 1, i) \in Refused

\* A log file whose directory several threads make at once is opened in the
\* end: one of them loses the race between access() and mkdir() and its
\* OpenForWrite fails, but a later attempt finds the directory.
OpenedInTheEnd ==
    \A t \in FSThreads :
        (call[t].op = "Open") ~> (Returned(t, "Open", TRUE) \/ Obstructed(call[t].path))
=============================================================================
