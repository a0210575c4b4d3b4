------------------------------- MODULE Config -------------------------------
(***************************************************************************)
(* The registry of configuration variables (class Config): creation by     *)
(* Lookup and loading of the .yml files of a directory by LoadFromConfDir, *)
(* with the cache of modification times that skips files already loaded.   *)
(*                                                                         *)
(* A document is the sequence of its nodes in the order ListAllMember      *)
(* visits them, each a full name and a value.  A variable is its value; its *)
(* listeners are in ConfigVar.  Each name occurs in one file only, so that *)
(* the order of the directory does not matter.                             *)
(***************************************************************************)
EXTENDS Naturals, Sequences

CONSTANTS
    Loaders,       \* threads that call LoadFromConfDir
    Files,         \* the .yml files below the directory
    Names,         \* names of variables
    CharsOf,       \* the kinds of characters in a name
    Documents,     \* what each file may be: documents, Broken, Gone
    Start,         \* what the files are at first
    Broken,        \* a file YAML::LoadFile throws on, such as a partial one
    Gone,          \* no file
    Unconvertible, \* a value LexicalCast throws on
    Default,       \* the default value given to Lookup
    Early,         \* names registered before main, by global variables
    Late,          \* names some thread may register later
    SameSecond,    \* a file may be written twice within a second
    Epoch,         \* modification time of the files at the start
    Garbage,       \* times that may be in an uninitialised struct stat
    MaxEdits,      \* bound: writes to the files
    MaxLoads,      \* bound: calls of LoadFromConfDir
    None

IsDocument(d) ==
    LET entries == {d[i] : i \in DOMAIN d} IN
    d \in Seq(entries) /\ \A e \in entries : e.name \in Names /\ e.value # None

ASSUME ConfigAssumption ==
    /\ Early \subseteq Names /\ Late \subseteq Names
    /\ Start \subseteq [Files -> UNION {Documents[f] : f \in Files}]
    /\ \A d \in Start, f \in Files : d[f] \in Documents[f]
    /\ \A f \in Files : \A d \in Documents[f] \ {Broken, Gone} : IsDocument(d)
    /\ SameSecond \in BOOLEAN /\ Epoch \in Nat /\ Garbage \subseteq Nat
    /\ MaxEdits \in Nat /\ MaxLoads \in Nat
    /\ None \notin Loaders \union Files \union {Default, Unconvertible, Broken, Gone}
    /\ None # <<>>

VARIABLES
    datas,             \* the registry: value of each variable, or None
    disk,              \* the document in each file
    mtime,             \* st_mtime of each file
    s_file2modifytime, \* the cache; operator[] makes 0 of a missing entry
    pc,                \* where a loader is
    todo,              \* the files it has still to visit
    file,              \* the file it is at
    nodes,             \* the nodes of that file it has still to apply
    settled,           \* history: files not written since its call began
    known,             \* history: names registered when its call began
    cached,            \* history: names registered when a file was last recorded
    doubt,             \* history: files whose recorded time cannot be trusted
    edits, loads       \* counters for the bounds

vars == <<datas, disk, mtime, s_file2modifytime, pc, todo, file, nodes,
          settled, known, cached, doubt, edits, loads>>
diskVars == <<disk, mtime, edits>>
callVars == <<settled, known, loads>>

RegisteredNames == {n \in Names : datas[n] # None}

\* Names of the charset of Lookup and ListAllMember, which has no '9'.
Accepted(n) == CharsOf[n] \subseteq {"a-z", "0-8", "._"}

\* Whether node e is among those LoadFromYaml goes through.  One with an
\* invalid name is left out with everything below it, whose names contain its
\* name.
ListAllMember(e) == Accepted(e.name)

Init ==
    /\ datas = [n \in Names |-> IF n \in Early /\ Accepted(n) THEN Default ELSE None]
    /\ disk \in Start
    /\ mtime = [f \in Files |-> Epoch]
    /\ s_file2modifytime = [f \in Files |-> 0]
    /\ pc = [t \in Loaders |-> "idle"]
    /\ todo = [t \in Loaders |-> {}]
    /\ file = [t \in Loaders |-> None]
    /\ nodes = [t \in Loaders |-> <<>>]
    /\ settled = [t \in Loaders |-> {}]
    /\ known = [t \in Loaders |-> {}]
    /\ cached = [f \in Files |-> {}] /\ doubt = {}
    /\ edits = 0 /\ loads = 0

-----------------------------------------------------------------------------
(* Lookup.                                                                 *)

\* Lookup(name, default): a name in the registry is returned as it is (null if
\* of another type) and an invalid one throws, neither with an effect; a new
\* one is created.
Lookup(n) ==
    /\ n \in Late
    /\ datas[n] = None
    /\ Accepted(n)
    /\ datas' = [datas EXCEPT ![n] = Default]
    /\ UNCHANGED <<diskVars, callVars, s_file2modifytime, pc, todo, file, nodes, cached, doubt>>

-----------------------------------------------------------------------------
(* LoadFromConfDir.                                                        *)

\* The files are listed.  `force' is remembered as the program counter.
LoadBegin(t, force) ==
    /\ pc[t] = "idle" /\ loads < MaxLoads
    /\ pc' = [pc EXCEPT ![t] = IF force THEN "force" ELSE "scan"]
    /\ todo' = [todo EXCEPT ![t] = {f \in Files : disk[f] # Gone}]
    /\ settled' = [settled EXCEPT ![t] = Files]
    /\ known' = [known EXCEPT ![t] = RegisteredNames]
    /\ loads' = loads + 1
    /\ UNCHANGED <<datas, diskVars, s_file2modifytime, file, nodes, cached, doubt>>

\* Under s_mutex: a file with the recorded time is passed over ...
StatSkip(t, f) ==
    /\ pc[t] = "scan" /\ file[t] = None /\ f \in todo[t] /\ disk[f] # Gone
    /\ s_file2modifytime[f] = mtime[f]
    /\ todo' = [todo EXCEPT ![t] = @ \ {f}]
    /\ UNCHANGED <<datas, diskVars, callVars, s_file2modifytime, pc, file, nodes, cached, doubt>>

\* Time s is recorded, before the file is read.
Record(t, f, s) ==
    /\ s_file2modifytime' = [s_file2modifytime EXCEPT ![f] = s]
    /\ cached' = [cached EXCEPT ![f] = RegisteredNames]
    /\ todo' = [todo EXCEPT ![t] = @ \ {f}]
    /\ file' = [file EXCEPT ![t] = f]
    /\ nodes' = [nodes EXCEPT ![t] = None]
    /\ UNCHANGED <<datas, diskVars, callVars, pc>>

\* ... and any other is loaded.  The record is in doubt if another loader is
\* at the same file.
StatRecord(t, f) ==
    /\ pc[t] \in {"scan", "force"} /\ file[t] = None /\ f \in todo[t] /\ disk[f] # Gone
    /\ pc[t] = "force" \/ s_file2modifytime[f] # mtime[f]
    /\ Record(t, f, mtime[f])
    /\ doubt' = IF \E u \in Loaders : file[u] = f THEN doubt \union {f} ELSE doubt \ {f}

\* A file that vanished since it was listed: lstat fails, and the time is
\* what was in the uninitialised structure.
StatGarbage(t, f) ==
    /\ pc[t] \in {"scan", "force"} /\ file[t] = None /\ f \in todo[t] /\ disk[f] = Gone
    /\ \E s \in Garbage :
        \/ /\ pc[t] = "force" \/ s_file2modifytime[f] # s
           /\ Record(t, f, s)
           /\ doubt' = doubt \union {f}
        \/ /\ pc[t] = "scan" /\ s_file2modifytime[f] = s
           /\ todo' = [todo EXCEPT ![t] = @ \ {f}]
           /\ UNCHANGED <<datas, diskVars, callVars, s_file2modifytime, pc, file, nodes, cached, doubt>>

\* YAML::LoadFile.  ListAllMember looks at the nodes alone, so which of them
\* it lists is decided when their turn comes.
LoadFile(t) ==
    /\ file[t] # None /\ nodes[t] = None
    /\ disk[file[t]] \notin {Broken, Gone}
    /\ nodes' = [nodes EXCEPT ![t] = disk[file[t]]]
    /\ UNCHANGED <<datas, diskVars, callVars, s_file2modifytime, pc, todo, file, cached, doubt>>

\* Mutant of LoadFileThrow: the exception leaves LoadFromConfDir.
LoadFileThrowOut(t) ==
    /\ file[t] # None /\ nodes[t] = None
    /\ disk[file[t]] \in {Broken, Gone}
    /\ file' = [file EXCEPT ![t] = None]
    /\ nodes' = [nodes EXCEPT ![t] = <<>>]
    /\ todo' = [todo EXCEPT ![t] = {}]
    /\ UNCHANGED <<datas, diskVars, callVars, s_file2modifytime, pc, cached, doubt>>

\* YAML::LoadFile throws: the loop goes on with the next file.
LoadFileThrow(t) ==
    /\ file[t] # None /\ nodes[t] = None
    /\ disk[file[t]] \in {Broken, Gone}
    /\ file' = [file EXCEPT ![t] = None]
    /\ nodes' = [nodes EXCEPT ![t] = <<>>]
    /\ UNCHANGED <<datas, diskVars, callVars, s_file2modifytime, pc, todo, cached, doubt>>

\* One node of LoadFromYaml, if it is listed: LookupBase, and fromString if the
\* variable exists; a value it cannot convert leaves the variable alone.
ApplyNode(t) ==
    /\ file[t] # None /\ nodes[t] \notin {None, <<>>}
    /\ LET e == Head(nodes[t]) IN
        datas' = IF ListAllMember(e) /\ datas[e.name] # None /\ e.value # Unconvertible
                 THEN [datas EXCEPT ![e.name] = e.value] ELSE datas
    /\ nodes' = [nodes EXCEPT ![t] = Tail(@)]
    /\ UNCHANGED <<diskVars, callVars, s_file2modifytime, pc, todo, file, cached, doubt>>

\* Mutant of FileDone: the time is taken after the load.
FileDoneStat(t) ==
    /\ file[t] # None /\ nodes[t] = <<>>
    /\ file' = [file EXCEPT ![t] = None]
    /\ s_file2modifytime' = [s_file2modifytime EXCEPT ![file[t]] = mtime[file[t]]]
    /\ UNCHANGED <<datas, diskVars, callVars, pc, todo, nodes, cached, doubt>>

FileDone(t) ==
    /\ file[t] # None /\ nodes[t] = <<>>
    /\ file' = [file EXCEPT ![t] = None]
    /\ UNCHANGED <<datas, diskVars, callVars, s_file2modifytime, pc, todo, nodes, cached, doubt>>

LoadReturn(t) ==
    /\ pc[t] \in {"scan", "force"} /\ todo[t] = {} /\ file[t] = None
    /\ pc' = [pc EXCEPT ![t] = "idle"]
    /\ UNCHANGED <<datas, diskVars, callVars, s_file2modifytime, todo, file, nodes, cached, doubt>>

-----------------------------------------------------------------------------
\* Someone writes a file, or removes it (external).  A file that does not
\* get a new time leaves the record of the old one in doubt.
Edit(f, d) ==
    /\ edits < MaxEdits /\ d # disk[f]
    /\ disk' = [disk EXCEPT ![f] = d]
    /\ \E s \in {mtime[f], mtime[f] + 1} :
        /\ s = mtime[f] => SameSecond
        /\ mtime' = [mtime EXCEPT ![f] = s]
        /\ doubt' = IF s = mtime[f] THEN doubt \union {f} ELSE doubt
    /\ settled' = [t \in Loaders |-> settled[t] \ {f}]
    /\ edits' = edits + 1
    /\ UNCHANGED <<datas, s_file2modifytime, pc, todo, file, nodes, known, loads, cached>>

Next ==
    \/ \E n \in Names : Lookup(n)
    \/ \E t \in Loaders :
        \/ \E force \in BOOLEAN : LoadBegin(t, force)
        \/ \E f \in Files : StatSkip(t, f) \/ StatRecord(t, f) \/ StatGarbage(t, f)
        \/ LoadFile(t) \/ LoadFileThrow(t) \/ ApplyNode(t) \/ FileDone(t) \/ LoadReturn(t)
    \/ \E f \in Files : \E d \in Documents[f] : Edit(f, d)

Spec == Init /\ [][Next]_vars

-----------------------------------------------------------------------------
(* Properties.                                                             *)

\* The variables in N have the values of the document in file f.
Agrees(f, N) ==
    disk[f] \notin {Broken, Gone} =>
        \A i \in 1 .. Len(disk[f]) : LET e == disk[f][i] IN
            e.name \in N /\ e.value # Unconvertible => datas[e.name] = e.value

\* Nobody is at file f, and the record of its time is beyond doubt: since it
\* was made, alone, by an lstat that succeeded, each write gave the file a
\* new time.
Trusted(f) == f \notin doubt /\ \A t \in Loaders : file[t] # f

\* "Loads the configuration files in the directory": when LoadFromConfDir
\* returns, the variables have the values of the trusted files that were not
\* written meanwhile, whatever another file of the directory contains and
\* another loader does.  Left out are variables registered only after the
\* file was last read: the unchanged file is passed over.
LoadedOnReturn ==
    \A t \in Loaders : pc[t] \in {"scan", "force"} /\ todo[t] = {} /\ file[t] = None =>
        \A f \in settled[t] : Trusted(f) => Agrees(f, known[t] \cap cached[f])

\* The cache of modification times hides no change of a trusted file: one
\* that the next LoadFromConfDir will pass over has been applied to the
\* variables that existed when it was recorded.
CacheFresh ==
    \A f \in Files :
        s_file2modifytime[f] = mtime[f] /\ Trusted(f) => Agrees(f, cached[f])
=============================================================================
