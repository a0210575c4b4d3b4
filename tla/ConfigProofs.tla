---------------------------- MODULE ConfigProofs ----------------------------
(***************************************************************************)
(* Proofs about Config: the cache of modification times hides no change,   *)
(* and LoadFromConfDir loads what it promises, for any number of files,    *)
(* documents, variables, loaders and writes.                               *)
(***************************************************************************)
EXTENDS Config, TLAPS

\* Each name occurs in one file only, and once in a document of it: with two
\* values for a name, the last one applied wins, and no property could say
\* which that is.
OneHome ==
    \A f, g \in Files : \A d \in Documents[f] \ {Broken, Gone}, e \in Documents[g] \ {Broken, Gone} :
        \A i \in 1 .. Len(d), j \in 1 .. Len(e) :
            d[i].name = e[j].name => f = g /\ (d = e => i = j)

IsFunction(F, S) == F = [x \in S |-> F[x]]

TypeInv ==
    /\ IsFunction(datas, Names) /\ IsFunction(disk, Files) /\ IsFunction(nodes, Loaders)
    /\ \A f \in Files : disk[f] \in Documents[f]
    /\ mtime \in [Files -> Nat] /\ s_file2modifytime \in [Files -> Nat]
    /\ pc \in [Loaders -> {"idle", "scan", "force"}]
    /\ todo \in [Loaders -> SUBSET Files] /\ file \in [Loaders -> Files \union {None}]
    /\ settled \in [Loaders -> SUBSET Files]
    /\ cached \in [Files -> SUBSET Names]

\* Only names with an accepted charset are registered.
AcceptInv == \A n \in RegisteredNames : Accepted(n)

\* The nodes a loader has still to apply come from a document of its file,
\* which may have been written since.
FromFile(N, g) ==
    /\ N \in Seq({N[i] : i \in DOMAIN N})
    /\ \A i \in 1 .. Len(N) : \E d \in Documents[g] \ {Broken, Gone} : \E j \in 1 .. Len(d) : N[i] = d[j]
NodesInv ==
    \A t \in Loaders : file[t] # None /\ nodes[t] # None => FromFile(nodes[t], file[t])

\* The record of file f is beyond doubt and up to date.
Recorded(f) == f \notin doubt /\ s_file2modifytime[f] = mtime[f]
Holds(e, N) == e.name \in N /\ e.value # Unconvertible => datas[e.name] = e.value

\* Loader t has the rest of what is in file f, and has applied what was before.
Halfway(t, f) ==
    nodes[t] # None =>
        LET k == Len(disk[f]) - Len(nodes[t]) IN
        /\ disk[f] \notin {Broken, Gone}
        /\ Len(nodes[t]) <= Len(disk[f])
        /\ \A i \in 1 .. Len(nodes[t]) : nodes[t][i] = disk[f][k + i]
        /\ \A i \in 1 .. k : Holds(disk[f][i], cached[f])

\* A call has passed file f, which nobody has written since the call began.
Passed(t, f) == pc[t] # "idle" /\ f \in settled[t] \ todo[t] /\ f \notin doubt /\ disk[f] # Gone

FileOK(f) ==
    /\ cached[f] \subseteq RegisteredNames
    /\ f \notin doubt =>
        /\ s_file2modifytime[f] <= mtime[f]
        /\ \A t, u \in Loaders : file[t] = f /\ file[u] = f => t = u
    /\ Recorded(f) =>
        /\ \A t \in Loaders : file[t] = f => Halfway(t, f)
        /\ (\A t \in Loaders : file[t] # f) => Agrees(f, cached[f])
    /\ \A t \in Loaders : Passed(t, f) => s_file2modifytime[f] = mtime[f]

CacheInv == TypeInv /\ AcceptInv /\ NodesInv /\ \A f \in Files : FileOK(f)

-----------------------------------------------------------------------------
\* The entries of the document in file f that a record of it answers for.
Entry(f, e) ==
    /\ disk[f] \notin {Broken, Gone} /\ e.name \in cached[f]
    /\ \E i \in 1 .. Len(disk[f]) : e = disk[f][i]

LEMMA IsDoc ==
    ASSUME TypeInv, NEW f \in Files, disk[f] \notin {Broken, Gone}
    PROVE  /\ Len(disk[f]) \in Nat
           /\ disk[f] \in Seq({disk[f][i] : i \in DOMAIN disk[f]})
           /\ \A i \in 1 .. Len(disk[f]) : disk[f][i].name \in Names /\ disk[f][i].value # None
<1>1. IsDocument(disk[f]) BY ConfigAssumption DEF TypeInv
<1> QED BY <1>1 DEF IsDocument

\* A step that concerns neither file f, nor those who are at it, nor the
\* variables it speaks of.
Untouched(f) ==
    /\ cached'[f] = cached[f] /\ disk'[f] = disk[f] /\ mtime'[f] = mtime[f]
    /\ s_file2modifytime'[f] = s_file2modifytime[f] /\ (f \in doubt' <=> f \in doubt)
    /\ RegisteredNames \subseteq RegisteredNames'
    /\ \A e : Entry(f, e) => datas'[e.name] = datas[e.name]
    /\ \A t \in Loaders :
        /\ file'[t] = f <=> file[t] = f
        /\ file[t] = f => nodes'[t] = nodes[t]
        /\ Passed(t, f)' => s_file2modifytime[f] = mtime[f]

LEMMA FileFrame ==
    ASSUME TypeInv, NodesInv, NEW f \in Files, FileOK(f), Untouched(f)
    PROVE  FileOK(f)'
<1>1. /\ cached'[f] = cached[f] /\ disk'[f] = disk[f] /\ mtime'[f] = mtime[f]
      /\ s_file2modifytime'[f] = s_file2modifytime[f] /\ (f \in doubt' <=> f \in doubt)
      /\ RegisteredNames \subseteq RegisteredNames'
    BY DEF Untouched
<1>2. \A t \in Loaders : (file'[t] = f <=> file[t] = f) /\ (file[t] = f => nodes'[t] = nodes[t])
    BY DEF Untouched
<1>3. cached'[f] \subseteq RegisteredNames' BY <1>1 DEF FileOK
<1>4. f \notin doubt' =>
        /\ s_file2modifytime'[f] <= mtime'[f]
        /\ \A t, u \in Loaders : file'[t] = f /\ file'[u] = f => t = u
    BY <1>1, <1>2 DEF FileOK
<1>5. \A i \in 1 .. Len(disk[f]) : disk[f] \notin {Broken, Gone} /\ Holds(disk[f][i], cached[f])
        => Holds(disk[f][i], cached[f])'
    BY <1>1 DEF Untouched, Entry, Holds
<1>6. ASSUME Recorded(f)', NEW t \in Loaders, file'[t] = f PROVE Halfway(t, f)'
    <2>1. Recorded(f) /\ file[t] = f BY <1>1, <1>2, <1>6 DEF Recorded
    <2>2. Halfway(t, f) BY <2>1 DEF FileOK
    <2>3. nodes'[t] = nodes[t] BY <1>2, <2>1
    <2>4. CASE nodes[t] = None BY <2>3, <2>4 DEF Halfway
    <2>5. CASE nodes[t] # None
        <3> DEFINE k == Len(disk[f]) - Len(nodes[t])
        <3>1. /\ disk[f] \notin {Broken, Gone}
              /\ Len(nodes[t]) <= Len(disk[f])
              /\ \A i \in 1 .. Len(nodes[t]) : nodes[t][i] = disk[f][k + i]
              /\ \A i \in 1 .. k : Holds(disk[f][i], cached[f])
            BY <2>2, <2>5 DEF Halfway
        <3>2. Len(disk[f]) \in Nat BY <3>1, IsDoc
        <3>3. \A i \in 1 .. k : Holds(disk[f][i], cached[f])'
            <4>1. Len(nodes[t]) \in Nat BY <2>1, <2>5, ConfigAssumption DEF NodesInv, FromFile
            <4>2. \A i \in 1 .. k : i \in 1 .. Len(disk[f]) BY <3>2, <4>1
            <4> QED BY <1>5, <3>1, <4>2
        <3> QED BY <1>1, <2>3, <3>1, <3>3 DEF Halfway
    <2> QED BY <2>4, <2>5
<1>7. ASSUME Recorded(f)', \A t \in Loaders : file'[t] # f PROVE Agrees(f, cached[f])'
    <2>1. Recorded(f) /\ \A t \in Loaders : file[t] # f BY <1>1, <1>2, <1>7 DEF Recorded
    <2>2. Agrees(f, cached[f]) BY <2>1 DEF FileOK
    <2> QED BY <1>1, <1>5, <2>2 DEF Agrees, Holds
<1>8. \A t \in Loaders : Passed(t, f)' => s_file2modifytime'[f] = mtime'[f]
    BY <1>1 DEF Untouched
<1> QED BY <1>3, <1>4, <1>6, <1>7, <1>8 DEF FileOK, Recorded

LEMMA CacheInvInit == Init => CacheInv
<1> SUFFICES ASSUME Init PROVE CacheInv OBVIOUS
<1>1. TypeInv
    <2>1. IsFunction(disk, Files) /\ \A f \in Files : disk[f] \in Documents[f]
        BY ConfigAssumption DEF Init, IsFunction
    <2>2. \A t \in Loaders : None \in Files \union {None} OBVIOUS
    <2> QED BY <2>1, <2>2, ConfigAssumption DEF Init, TypeInv, IsFunction
<1>2. AcceptInv BY DEF Init, AcceptInv, RegisteredNames
<1>3. NodesInv BY DEF Init, NodesInv
<1>4. ASSUME NEW f \in Files PROVE FileOK(f)
    <2>1. cached[f] = {} /\ \A t \in Loaders : file[t] # f BY ConfigAssumption DEF Init
    <2>2. s_file2modifytime[f] <= mtime[f] BY ConfigAssumption DEF Init
    <2>3. \A t \in Loaders : ~Passed(t, f) BY DEF Init, Passed
    <2> QED BY <2>1, <2>2, <2>3 DEF FileOK, Agrees
<1> QED BY <1>1, <1>2, <1>3, <1>4 DEF CacheInv

-----------------------------------------------------------------------------
(* The steps.                                                              *)

\* A step that changes no variable, and the nodes of no loader at a file.
LEMMA NodesFrame ==
    ASSUME NodesInv, \A t \in Loaders : file'[t] # None /\ nodes'[t] # None =>
                        file'[t] = file[t] /\ nodes'[t] = nodes[t]
    PROVE  NodesInv'
<1>1. ASSUME NEW t \in Loaders, file'[t] # None, nodes'[t] # None
      PROVE  FromFile(nodes'[t], file'[t])
    <2>1. file'[t] = file[t] /\ nodes'[t] = nodes[t] BY <1>1
    <2>2. FromFile(nodes[t], file[t]) BY <1>1, <2>1 DEF NodesInv
    <2> QED BY <2>1, <2>2
<1> QED BY <1>1 DEF NodesInv, FromFile

LEMMA AcceptFrame ==
    ASSUME AcceptInv, UNCHANGED datas
    PROVE  AcceptInv' /\ RegisteredNames' = RegisteredNames
BY DEF AcceptInv, RegisteredNames, Accepted

LEMMA LookupStep ==
    ASSUME CacheInv, NEW n \in Names, Lookup(n)
    PROVE  CacheInv'
<1>1. /\ datas[n] = None /\ Accepted(n) /\ datas' = [datas EXCEPT ![n] = Default]
      /\ UNCHANGED <<diskVars, callVars, s_file2modifytime, pc, todo, file, nodes, cached, doubt>>
    BY DEF Lookup
<1>2. TypeInv' BY <1>1 DEF CacheInv, TypeInv, IsFunction, diskVars, callVars
<1>3. NodesInv' BY <1>1, NodesFrame DEF CacheInv
<1>4. RegisteredNames' = RegisteredNames \union {n} /\ n \notin RegisteredNames
    BY <1>1, ConfigAssumption DEF RegisteredNames, CacheInv, TypeInv, IsFunction
<1>5. AcceptInv' BY <1>1, <1>4 DEF CacheInv, AcceptInv, Accepted
<1>6. ASSUME NEW f \in Files PROVE Untouched(f)
    <2>1. \A e : Entry(f, e) => datas'[e.name] = datas[e.name]
        BY <1>1, <1>4 DEF Entry, CacheInv, FileOK, TypeInv, IsFunction, RegisteredNames
    <2>2. \A t \in Loaders : Passed(t, f)' => Passed(t, f) BY <1>1 DEF Passed, diskVars, callVars
    <2>3. \A t \in Loaders : Passed(t, f)' => s_file2modifytime[f] = mtime[f]
        BY <2>2 DEF CacheInv, FileOK
    <2> QED BY <1>1, <1>4, <2>1, <2>3 DEF Untouched, diskVars
<1> QED BY <1>2, <1>3, <1>5, <1>6, FileFrame DEF CacheInv

\* A step that changes neither files nor variables nor who is at which file,
\* and passes no file but one that is up to date or gone.
LEMMA CallStep ==
    ASSUME CacheInv, TypeInv', UNCHANGED <<datas, disk, mtime, s_file2modifytime, file, nodes, cached, doubt>>,
           \A f \in Files : \A t \in Loaders : Passed(t, f)' => s_file2modifytime[f] = mtime[f]
    PROVE  CacheInv'
<1>1. AcceptInv' /\ RegisteredNames' = RegisteredNames BY AcceptFrame DEF CacheInv
<1>2. NodesInv' BY NodesFrame DEF CacheInv
<1>3. ASSUME NEW f \in Files PROVE Untouched(f) BY <1>1 DEF Untouched
<1> QED BY <1>1, <1>2, <1>3, FileFrame DEF CacheInv

LEMMA BeginStep ==
    ASSUME CacheInv, NEW t \in Loaders, NEW force \in BOOLEAN, LoadBegin(t, force)
    PROVE  CacheInv'
<1>1. /\ pc' = [pc EXCEPT ![t] = IF force THEN "force" ELSE "scan"]
      /\ todo' = [todo EXCEPT ![t] = {f \in Files : disk[f] # Gone}]
      /\ settled' = [settled EXCEPT ![t] = Files]
      /\ UNCHANGED <<datas, disk, mtime, s_file2modifytime, file, nodes, cached, doubt>>
    BY DEF LoadBegin, diskVars
<1>2. TypeInv' BY <1>1 DEF CacheInv, TypeInv, IsFunction
<1>3. ASSUME NEW f \in Files, NEW u \in Loaders, Passed(u, f)' PROVE s_file2modifytime[f] = mtime[f]
    <2>1. CASE u = t BY <1>1, <1>3, <2>1 DEF Passed, CacheInv, TypeInv
    <2>2. CASE u # t
        <3>1. Passed(u, f) BY <1>1, <1>3, <2>2 DEF Passed, CacheInv, TypeInv
        <3> QED BY <3>1 DEF CacheInv, FileOK
    <2> QED BY <2>1, <2>2
<1> QED BY <1>1, <1>2, <1>3, CallStep

LEMMA SkipStep ==
    ASSUME CacheInv, NEW t \in Loaders, NEW g \in Files,
           s_file2modifytime[g] = mtime[g] \/ disk[g] = Gone,
           todo' = [todo EXCEPT ![t] = @ \ {g}],
           UNCHANGED <<datas, diskVars, callVars, s_file2modifytime, pc, file, nodes, cached, doubt>>
    PROVE  CacheInv'
<1>1. TypeInv' BY DEF CacheInv, TypeInv, IsFunction, diskVars, callVars
<1>2. ASSUME NEW f \in Files, NEW u \in Loaders, Passed(u, f)' PROVE s_file2modifytime[f] = mtime[f]
    <2>1. CASE f = g BY <1>2, <2>1 DEF Passed, diskVars
    <2>2. CASE f # g
        <3>1. Passed(u, f) BY <1>2, <2>2 DEF Passed, CacheInv, TypeInv, diskVars, callVars
        <3> QED BY <3>1 DEF CacheInv, FileOK
    <2> QED BY <2>1, <2>2
<1> QED BY <1>1, <1>2, CallStep DEF diskVars

LEMMA ReturnStep ==
    ASSUME CacheInv, NEW t \in Loaders, LoadReturn(t)
    PROVE  CacheInv'
<1>1. /\ pc' = [pc EXCEPT ![t] = "idle"]
      /\ UNCHANGED <<datas, diskVars, callVars, s_file2modifytime, todo, file, nodes, cached, doubt>>
    BY DEF LoadReturn
<1>2. TypeInv' BY <1>1 DEF CacheInv, TypeInv, IsFunction, diskVars, callVars
<1>3. ASSUME NEW f \in Files, NEW u \in Loaders, Passed(u, f)' PROVE s_file2modifytime[f] = mtime[f]
    <2>1. Passed(u, f) BY <1>1, <1>3 DEF Passed, CacheInv, TypeInv, diskVars, callVars
    <2> QED BY <2>1 DEF CacheInv, FileOK
<1> QED BY <1>1, <1>2, <1>3, CallStep DEF diskVars

\* What a record of file g does to the others: nothing.
LEMMA RecordOthers ==
    ASSUME CacheInv, NEW t \in Loaders, file[t] = None, NEW g \in Files, NEW s \in Nat, Record(t, g, s),
           doubt' \subseteq doubt \union {g}, doubt \ {g} \subseteq doubt'
    PROVE  /\ TypeInv' /\ AcceptInv' /\ NodesInv' /\ RegisteredNames' = RegisteredNames
           /\ \A f \in Files : f # g => FileOK(f)'
<1>1. /\ s_file2modifytime' = [s_file2modifytime EXCEPT ![g] = s]
      /\ cached' = [cached EXCEPT ![g] = RegisteredNames]
      /\ todo' = [todo EXCEPT ![t] = @ \ {g}]
      /\ file' = [file EXCEPT ![t] = g]
      /\ nodes' = [nodes EXCEPT ![t] = None]
      /\ UNCHANGED <<datas, diskVars, callVars, pc>>
    BY DEF Record
<1>2. AcceptInv' /\ RegisteredNames' = RegisteredNames BY <1>1, AcceptFrame DEF CacheInv
<1>3. TypeInv'
    <2>1. RegisteredNames \in SUBSET Names BY DEF RegisteredNames
    <2>2. cached' \in [Files -> SUBSET Names] BY <1>1, <2>1 DEF CacheInv, TypeInv
    <2>3. IsFunction(nodes, Loaders)' BY <1>1 DEF CacheInv, TypeInv, IsFunction
    <2> QED BY <1>1, <2>2, <2>3 DEF CacheInv, TypeInv, IsFunction, diskVars, callVars
<1>4. NodesInv' BY <1>1, NodesFrame DEF CacheInv, TypeInv, IsFunction
<1>5. ASSUME NEW f \in Files, f # g PROVE Untouched(f)
    <2>1. ASSUME NEW u \in Loaders
          PROVE  /\ file'[u] = f <=> file[u] = f
                 /\ file[u] = f => nodes'[u] = nodes[u]
                 /\ Passed(u, f)' => Passed(u, f)
        <3>1. None # f BY ConfigAssumption
        <3>2. file'[u] = f <=> file[u] = f BY <1>1, <1>5, <3>1 DEF CacheInv, TypeInv
        <3>3. file[u] = f => nodes'[u] = nodes[u]
            BY <1>1, <3>1 DEF CacheInv, TypeInv, IsFunction
        <3>4. Passed(u, f)' => Passed(u, f)
            BY <1>1, <1>5 DEF Passed, CacheInv, TypeInv, diskVars, callVars
        <3> QED BY <3>2, <3>3, <3>4
    <2>2. /\ cached'[f] = cached[f] /\ disk'[f] = disk[f] /\ mtime'[f] = mtime[f]
          /\ s_file2modifytime'[f] = s_file2modifytime[f] /\ (f \in doubt' <=> f \in doubt)
        BY <1>1, <1>5 DEF CacheInv, TypeInv, diskVars
    <2>3. \A u \in Loaders : Passed(u, f)' => s_file2modifytime[f] = mtime[f]
        BY <2>1 DEF CacheInv, FileOK
    <2> QED BY <1>1, <1>2, <2>1, <2>2, <2>3 DEF Untouched
<1> QED BY <1>2, <1>3, <1>4, <1>5, FileFrame DEF CacheInv

LEMMA RecordStep ==
    ASSUME CacheInv, NEW t \in Loaders, NEW g \in Files, StatRecord(t, g)
    PROVE  CacheInv'
<1>1. /\ file[t] = None /\ Record(t, g, mtime[g])
      /\ doubt' = IF \E u \in Loaders : file[u] = g THEN doubt \union {g} ELSE doubt \ {g}
    BY DEF StatRecord
<1>2. mtime[g] \in Nat BY DEF CacheInv, TypeInv
<1>3. /\ TypeInv' /\ AcceptInv' /\ NodesInv' /\ RegisteredNames' = RegisteredNames
      /\ \A f \in Files : f # g => FileOK(f)'
    BY <1>1, <1>2, RecordOthers
<1>4. /\ s_file2modifytime'[g] = mtime[g] /\ mtime'[g] = mtime[g] /\ cached'[g] = RegisteredNames
      /\ file' = [file EXCEPT ![t] = g] /\ nodes'[t] = None
    BY <1>1 DEF Record, CacheInv, TypeInv, IsFunction, diskVars
<1>5. g \notin doubt' => \A u \in Loaders : file'[u] = g <=> u = t
    BY <1>1, <1>4 DEF CacheInv, TypeInv
<1>6. FileOK(g)'
    <2>1. cached'[g] \subseteq RegisteredNames' BY <1>3, <1>4
    <2>2. s_file2modifytime'[g] <= mtime'[g] BY <1>2, <1>4
    <2>3. Halfway(t, g)' BY <1>4 DEF Halfway
    <2>4. file'[t] = g BY <1>4 DEF CacheInv, TypeInv
    <2> QED BY <1>4, <1>5, <2>1, <2>2, <2>3, <2>4 DEF FileOK, Recorded
<1> QED BY <1>3, <1>6 DEF CacheInv

LEMMA GarbageStep ==
    ASSUME CacheInv, NEW t \in Loaders, NEW g \in Files, StatGarbage(t, g)
    PROVE  CacheInv'
<1>1. disk[g] = Gone /\ file[t] = None BY DEF StatGarbage
<1>2. PICK s \in Garbage :
        \/ Record(t, g, s) /\ doubt' = doubt \union {g}
        \/ /\ todo' = [todo EXCEPT ![t] = @ \ {g}]
           /\ UNCHANGED <<datas, diskVars, callVars, s_file2modifytime, pc, file, nodes, cached, doubt>>
    BY DEF StatGarbage
<1>3. s \in Nat BY ConfigAssumption
<1>4. CASE Record(t, g, s) /\ doubt' = doubt \union {g}
    <2>1. /\ TypeInv' /\ AcceptInv' /\ NodesInv' /\ RegisteredNames' = RegisteredNames
          /\ \A f \in Files : f # g => FileOK(f)'
        BY <1>1, <1>3, <1>4, RecordOthers
    <2>2. cached'[g] = RegisteredNames BY <1>4 DEF Record, CacheInv, TypeInv
    <2>3. FileOK(g)' BY <1>4, <2>1, <2>2 DEF FileOK, Recorded, Passed
    <2> QED BY <2>1, <2>3 DEF CacheInv
<1>5. CASE /\ todo' = [todo EXCEPT ![t] = @ \ {g}]
           /\ UNCHANGED <<datas, diskVars, callVars, s_file2modifytime, pc, file, nodes, cached, doubt>>
    BY <1>1, <1>5, SkipStep
<1> QED BY <1>2, <1>4, <1>5

\* A step of the loader at file g that concerns what it has of the file.
LEMMA AtOthers ==
    ASSUME CacheInv, NEW t \in Loaders, file[t] # None,
           \/ file' = file
           \/ file' = [file EXCEPT ![t] = None],
           NEW N, nodes' = [nodes EXCEPT ![t] = N],
           UNCHANGED <<datas, diskVars, callVars, s_file2modifytime, pc, todo, cached, doubt>>,
           NEW f \in Files, f # file[t]
    PROVE  FileOK(f)'
<1>1. ASSUME NEW u \in Loaders
      PROVE  /\ file'[u] = f <=> file[u] = f
             /\ file[u] = f => nodes'[u] = nodes[u]
             /\ Passed(u, f)' => Passed(u, f)
    <2>1. None # f BY ConfigAssumption
    <2>2. file'[u] = f <=> file[u] = f BY <2>1 DEF CacheInv, TypeInv
    <2>3. file[u] = f => nodes'[u] = nodes[u] BY DEF CacheInv, TypeInv, IsFunction
    <2>4. Passed(u, f)' => Passed(u, f) BY DEF Passed, diskVars, callVars
    <2> QED BY <2>2, <2>3, <2>4
<1>2. RegisteredNames' = RegisteredNames BY AcceptFrame DEF CacheInv
<1>3. Untouched(f) BY <1>1, <1>2 DEF Untouched, CacheInv, FileOK, diskVars
<1> QED BY <1>3, FileFrame DEF CacheInv

LEMMA ReadStep ==
    ASSUME CacheInv, NEW t \in Loaders, LoadFile(t)
    PROVE  CacheInv'
<1>1. PICK g \in Files : g = file[t] BY DEF LoadFile, CacheInv, TypeInv
<1>2. /\ file[t] = g /\ file[t] # None /\ disk[g] \notin {Broken, Gone}
      /\ nodes' = [nodes EXCEPT ![t] = disk[g]]
      /\ UNCHANGED <<datas, diskVars, callVars, s_file2modifytime, pc, todo, file, cached, doubt>>
    BY <1>1 DEF LoadFile
<1>3. AcceptInv' /\ RegisteredNames' = RegisteredNames BY <1>2, AcceptFrame DEF CacheInv
<1>4. TypeInv'
    <2>1. IsFunction(nodes, Loaders)' BY <1>2 DEF CacheInv, TypeInv, IsFunction
    <2> QED BY <1>2, <2>1 DEF CacheInv, TypeInv, IsFunction, diskVars, callVars
<1>5. /\ Len(disk[g]) \in Nat /\ disk[g] \in Seq({disk[g][i] : i \in DOMAIN disk[g]})
      /\ disk[g] \in Documents[g] \ {Broken, Gone}
    BY <1>2, IsDoc DEF CacheInv, TypeInv
<1>6. nodes'[t] = disk[g] /\ \A u \in Loaders : u # t => nodes'[u] = nodes[u]
    BY <1>2 DEF CacheInv, TypeInv, IsFunction
<1>7. NodesInv'
    <2>1. SUFFICES ASSUME NEW u \in Loaders, file'[u] # None, nodes'[u] # None
          PROVE  FromFile(nodes'[u], file'[u])
        BY DEF NodesInv, FromFile
    <2>2. CASE u = t
        <3>1. FromFile(disk[g], g) BY <1>5 DEF FromFile
        <3> QED BY <1>2, <1>6, <2>2, <3>1
    <2>3. CASE u # t
        <3>1. nodes'[u] = nodes[u] /\ file'[u] = file[u] BY <1>2, <1>6, <2>3
        <3>2. FromFile(nodes[u], file[u]) BY <2>1, <3>1 DEF CacheInv, NodesInv
        <3> QED BY <3>1, <3>2
    <2> QED BY <2>2, <2>3
<1>8. FileOK(g)'
    <2>1. FileOK(g) BY DEF CacheInv
    <2>2. cached'[g] \subseteq RegisteredNames' BY <1>2, <1>3, <2>1 DEF FileOK
    <2>3. g \notin doubt' =>
            /\ s_file2modifytime'[g] <= mtime'[g]
            /\ \A u, v \in Loaders : file'[u] = g /\ file'[v] = g => u = v
        BY <1>2, <2>1 DEF FileOK, diskVars
    <2>4. ASSUME Recorded(g)', NEW u \in Loaders, file'[u] = g PROVE Halfway(u, g)'
        <3>1. u = t BY <1>2, <2>3, <2>4 DEF Recorded
        <3>2. disk'[g] = disk[g] /\ cached'[g] = cached[g] BY <1>2 DEF diskVars
        <3>3. PICK D : D = disk[g] OBVIOUS
        <3>4. nodes'[t] = D /\ disk'[g] = D /\ D \notin {Broken, Gone} /\ Len(D) \in Nat
            BY <1>2, <1>5, <1>6, <3>2, <3>3
        <3>5. /\ Len(D) - Len(D) = 0 /\ Len(D) <= Len(D) /\ 1 .. Len(D) - Len(D) = {}
              /\ \A i \in 1 .. Len(D) : D[i] = D[Len(D) - Len(D) + i]
            BY <3>4
        <3>6. Halfway(t, g)' BY <3>4, <3>5 DEF Halfway
        <3> QED BY <3>1, <3>6
    <2>5. ~ \A u \in Loaders : file'[u] # g BY <1>2
    <2>6. \A u \in Loaders : Passed(u, g)' => s_file2modifytime'[g] = mtime'[g]
        <3>1. \A u \in Loaders : Passed(u, g)' => Passed(u, g) BY <1>2 DEF Passed, diskVars, callVars
        <3> QED BY <1>2, <2>1, <3>1 DEF FileOK, diskVars
    <2> QED BY <2>2, <2>3, <2>4, <2>5, <2>6 DEF FileOK, Recorded
<1>9. \A f \in Files : f # g => FileOK(f)' BY <1>2, AtOthers
<1> QED BY <1>3, <1>4, <1>7, <1>8, <1>9 DEF CacheInv

\* The loader leaves its file, which it could not read or has applied.
LEMMA LeaveStep ==
    ASSUME CacheInv, NEW t \in Loaders, LoadFileThrow(t) \/ FileDone(t)
    PROVE  CacheInv'
<1>1. PICK g \in Files : g = file[t] BY DEF LoadFileThrow, FileDone, CacheInv, TypeInv
<1>2. /\ file[t] = g /\ file[t] # None
      /\ \/ disk[g] \in {Broken, Gone}
         \/ nodes[t] = <<>>
      /\ file' = [file EXCEPT ![t] = None]
      /\ nodes' = [nodes EXCEPT ![t] = <<>>]
      /\ UNCHANGED <<datas, diskVars, callVars, s_file2modifytime, pc, todo, cached, doubt>>
    BY <1>1 DEF LoadFileThrow, FileDone, CacheInv, TypeInv, IsFunction
<1>3. AcceptInv' /\ RegisteredNames' = RegisteredNames BY <1>2, AcceptFrame DEF CacheInv
<1>4. TypeInv'
    <2>1. IsFunction(nodes, Loaders)' BY <1>2 DEF CacheInv, TypeInv, IsFunction
    <2> QED BY <1>2, <2>1 DEF CacheInv, TypeInv, IsFunction, diskVars, callVars
<1>5. /\ file'[t] = None /\ \A u \in Loaders : u # t => file'[u] = file[u] /\ nodes'[u] = nodes[u]
    BY <1>2 DEF CacheInv, TypeInv, IsFunction
<1>6. NodesInv' BY <1>5, NodesFrame DEF CacheInv
<1>7. FileOK(g)'
    <2>1. FileOK(g) BY DEF CacheInv
    <2>2. cached'[g] \subseteq RegisteredNames' BY <1>2, <1>3, <2>1 DEF FileOK
    <2>3. g # None BY <1>2
    <2>4. g \notin doubt' =>
            /\ s_file2modifytime'[g] <= mtime'[g]
            /\ \A u \in Loaders : file'[u] # g
        BY <1>2, <1>5, <2>1, <2>3 DEF FileOK, diskVars
    <2>5. ASSUME Recorded(g)' PROVE Agrees(g, cached[g])'
        <3>1. Recorded(g) BY <1>2, <2>5 DEF Recorded, diskVars
        <3>2. Halfway(t, g) BY <1>2, <2>1, <3>1 DEF FileOK
        <3>3. CASE disk[g] \in {Broken, Gone} BY <1>2, <3>3 DEF Agrees, diskVars
        <3>4. CASE disk[g] \notin {Broken, Gone}
            <4>1. nodes[t] = <<>> /\ <<>> # None BY <1>2, <3>4, ConfigAssumption
            <4>2. Len(nodes[t]) = 0 /\ Len(disk[g]) \in Nat BY <3>4, <4>1, IsDoc DEF CacheInv
            <4>3. \A i \in 1 .. Len(disk[g]) : Holds(disk[g][i], cached[g])
                BY <3>2, <4>1, <4>2 DEF Halfway
            <4>4. Agrees(g, cached[g]) BY <4>3 DEF Agrees, Holds
            <4> QED BY <1>2, <4>4 DEF Agrees, diskVars
        <3> QED BY <3>3, <3>4
    <2>6. \A u \in Loaders : Passed(u, g)' => s_file2modifytime'[g] = mtime'[g]
        <3>1. \A u \in Loaders : Passed(u, g)' => Passed(u, g) BY <1>2 DEF Passed, diskVars, callVars
        <3> QED BY <1>2, <2>1, <3>1 DEF FileOK, diskVars
    <2> QED BY <2>2, <2>4, <2>5, <2>6 DEF FileOK, Recorded
<1>8. \A f \in Files : f # g => FileOK(f)' BY <1>2, AtOthers
<1> QED BY <1>3, <1>4, <1>6, <1>7, <1>8 DEF CacheInv

\* A node is applied: it is the next one of the document, if the record of the
\* file is up to date, and no other node has its name.
LEMMA ApplyStep ==
    ASSUME OneHome, CacheInv, NEW t \in Loaders, ApplyNode(t)
    PROVE  CacheInv'
<1>1. PICK g \in Files : g = file[t] BY DEF ApplyNode, CacheInv, TypeInv
<1>2. PICK N, e : N = nodes[t] /\ e = Head(N) OBVIOUS
<1>3. /\ file[t] = g /\ g # None /\ N # None /\ N # <<>>
      /\ datas' = IF ListAllMember(e) /\ datas[e.name] # None /\ e.value # Unconvertible
                  THEN [datas EXCEPT ![e.name] = e.value] ELSE datas
      /\ nodes' = [nodes EXCEPT ![t] = Tail(N)]
      /\ UNCHANGED <<diskVars, callVars, s_file2modifytime, pc, todo, file, cached, doubt>>
    BY <1>1, <1>2 DEF ApplyNode
<1>4. /\ N \in Seq({N[i] : i \in DOMAIN N})
      /\ \A i \in 1 .. Len(N) : \E d \in Documents[g] \ {Broken, Gone} : \E j \in 1 .. Len(d) : N[i] = d[j]
    BY <1>2, <1>3 DEF CacheInv, NodesInv, FromFile
<1>5. Len(N) \in Nat /\ Len(N) > 0 /\ e = N[1] BY <1>2, <1>3, <1>4
<1>6. PICK d0 \in Documents[g] \ {Broken, Gone} : \E j \in 1 .. Len(d0) : e = d0[j]
    <2>1. 1 \in 1 .. Len(N) BY <1>5
    <2> QED BY <1>4, <1>5, <2>1
<1>7. e.name \in Names /\ e.value # None
    <2>1. IsDocument(d0) BY ConfigAssumption
    <2>2. PICK j \in 1 .. Len(d0) : e = d0[j] BY <1>6
    <2>3. j \in DOMAIN d0 BY <2>1 DEF IsDocument
    <2> QED BY <2>1, <2>2, <2>3 DEF IsDocument
<1>8. /\ IsFunction(datas, Names)'
      /\ \A n \in Names : n # e.name => datas'[n] = datas[n]
      /\ datas'[e.name] = IF ListAllMember(e) /\ datas[e.name] # None /\ e.value # Unconvertible
                          THEN e.value ELSE datas[e.name]
    BY <1>3, <1>7 DEF CacheInv, TypeInv, IsFunction
<1>9. RegisteredNames' = RegisteredNames BY <1>7, <1>8 DEF RegisteredNames
<1>10. AcceptInv' BY <1>9 DEF CacheInv, AcceptInv, Accepted
<1>11. nodes'[t] = Tail(N) /\ \A u \in Loaders : u # t => nodes'[u] = nodes[u]
    BY <1>3 DEF CacheInv, TypeInv, IsFunction
<1>12. TypeInv'
    <2>1. IsFunction(nodes, Loaders)' BY <1>3 DEF CacheInv, TypeInv, IsFunction
    <2> QED BY <1>3, <1>8, <2>1 DEF CacheInv, TypeInv, IsFunction, diskVars, callVars
<1>13. /\ Tail(N) \in Seq({Tail(N)[i] : i \in DOMAIN Tail(N)}) /\ Len(Tail(N)) = Len(N) - 1
       /\ \A i \in 1 .. Len(N) - 1 : Tail(N)[i] = N[i + 1]
    <2>1. PICK S : N \in Seq(S) BY <1>4
    <2>2. /\ Tail(N) \in Seq(S) /\ Len(Tail(N)) = Len(N) - 1
          /\ \A i \in 1 .. Len(N) - 1 : Tail(N)[i] = N[i + 1]
        BY <1>3, <2>1
    <2>3. \A T \in Seq(S) : T \in Seq({T[i] : i \in DOMAIN T}) OBVIOUS
    <2> QED BY <2>2, <2>3
<1>14. NodesInv'
    <2>1. SUFFICES ASSUME NEW u \in Loaders, file'[u] # None, nodes'[u] # None
          PROVE  FromFile(nodes'[u], file'[u])
        BY DEF NodesInv, FromFile
    <2>2. CASE u = t
        <3>1. ASSUME NEW i \in 1 .. Len(Tail(N))
              PROVE  \E d \in Documents[g] \ {Broken, Gone} : \E j \in 1 .. Len(d) : Tail(N)[i] = d[j]
            <4>1. i + 1 \in 1 .. Len(N) /\ Tail(N)[i] = N[i + 1] BY <1>5, <1>13, <3>1
            <4> QED BY <1>4, <4>1
        <3>2. nodes'[u] = Tail(N) /\ file'[u] = g BY <1>3, <1>11, <2>2
        <3>3. FromFile(Tail(N), g) BY <1>13, <3>1 DEF FromFile
        <3> QED BY <3>2, <3>3
    <2>3. CASE u # t
        <3>1. nodes'[u] = nodes[u] /\ file'[u] = file[u] BY <1>3, <1>11, <2>3
        <3>2. nodes[u] # None /\ file[u] # None BY <2>1, <3>1
        <3>3. FromFile(nodes[u], file[u]) BY <3>2 DEF CacheInv, NodesInv
        <3> QED BY <3>1, <3>3
    <2> QED BY <2>2, <2>3
<1>15. ASSUME NEW f \in Files, f # g PROVE FileOK(f)'
    <2>1. ASSUME NEW x, Entry(f, x) PROVE datas'[x.name] = datas[x.name]
        <3>1. PICK i \in 1 .. Len(disk[f]) : x = disk[f][i] BY <2>1 DEF Entry
        <3>2. disk[f] \in Documents[f] \ {Broken, Gone} BY <2>1 DEF Entry, CacheInv, TypeInv
        <3>3. x.name # e.name BY <1>6, <1>15, <3>1, <3>2 DEF OneHome
        <3>4. x.name \in Names BY <2>1 DEF Entry, CacheInv, TypeInv
        <3> QED BY <1>8, <3>3, <3>4
    <2>2. \A u \in Loaders : Passed(u, f)' => s_file2modifytime[f] = mtime[f]
        <3>1. \A u \in Loaders : Passed(u, f)' => Passed(u, f) BY <1>3 DEF Passed, diskVars, callVars
        <3> QED BY <3>1 DEF CacheInv, FileOK
    <2>3. \A u \in Loaders : file[u] = f => nodes'[u] = nodes[u] BY <1>3, <1>11, <1>15
    <2>4. Untouched(f) BY <1>3, <1>9, <2>1, <2>2, <2>3 DEF Untouched, diskVars
    <2> QED BY <2>4, FileFrame DEF CacheInv
<1>16. FileOK(g)'
    <2>1. FileOK(g) BY DEF CacheInv
    <2>2. cached'[g] \subseteq RegisteredNames' BY <1>3, <1>9, <2>1 DEF FileOK
    <2>3. g \notin doubt' =>
            /\ s_file2modifytime'[g] <= mtime'[g]
            /\ \A u, v \in Loaders : file'[u] = g /\ file'[v] = g => u = v
        BY <1>3, <2>1 DEF FileOK, diskVars
    <2>4. ASSUME Recorded(g)' PROVE Halfway(t, g)'
        <3>1. PICK D, C : D = disk[g] /\ C = cached[g] OBVIOUS
        <3>2. disk'[g] = D /\ cached'[g] = C BY <1>3, <3>1 DEF diskVars
        <3>3. Recorded(g) BY <1>3, <2>4 DEF Recorded, diskVars
        <3>4. Halfway(t, g) BY <1>3, <2>1, <3>3 DEF FileOK
        <3> DEFINE k == Len(D) - Len(N)
        <3>5. /\ D \notin {Broken, Gone}
              /\ Len(N) <= Len(D)
              /\ \A i \in 1 .. Len(N) : N[i] = D[k + i]
              /\ \A i \in 1 .. k : Holds(D[i], C)
            BY <1>2, <1>3, <3>1, <3>4 DEF Halfway
        <3>6. /\ Len(D) \in Nat /\ D \in Documents[g] \ {Broken, Gone}
              /\ \A i \in 1 .. Len(D) : D[i].name \in Names
            BY <3>1, <3>5, IsDoc DEF CacheInv, TypeInv
        <3>7. k \in Nat /\ k + 1 \in 1 .. Len(D) /\ e = D[k + 1]
            <4>1. k \in Nat /\ k + 1 \in 1 .. Len(D) BY <1>5, <3>5, <3>6
            <4> QED BY <1>5, <3>5, <4>1
        <3>8. ASSUME NEW i \in 1 .. k PROVE Holds(D[i], C)'
            <4>1. i \in 1 .. Len(D) /\ i # k + 1 BY <3>6, <3>7
            <4>2. D[i].name # e.name BY <3>6, <3>7, <4>1 DEF OneHome
            <4>3. datas'[D[i].name] = datas[D[i].name] BY <1>8, <3>6, <4>1, <4>2
            <4> QED BY <3>5, <4>3 DEF Holds
        <3>9. Holds(D[k + 1], C)'
            <4>1. SUFFICES ASSUME e.name \in C, e.value # Unconvertible PROVE datas'[e.name] = e.value
                BY <3>7 DEF Holds
            <4>2. e.name \in RegisteredNames BY <2>1, <3>1, <4>1 DEF FileOK
            <4>3. datas[e.name] # None /\ ListAllMember(e)
                BY <4>2 DEF RegisteredNames, CacheInv, AcceptInv, ListAllMember
            <4> QED BY <1>8, <4>1, <4>3
        <3>10. ASSUME NEW i \in 1 .. k + 1 PROVE Holds(D[i], C)'
            BY <3>7, <3>8, <3>9
        <3>11. Len(D) - Len(Tail(N)) = k + 1 /\ Len(Tail(N)) <= Len(D) BY <1>5, <1>13, <3>5, <3>6
        <3>12. \A i \in 1 .. Len(Tail(N)) : Tail(N)[i] = D[k + 1 + i]
            <4>1. SUFFICES ASSUME NEW i \in 1 .. Len(Tail(N)) PROVE Tail(N)[i] = D[k + 1 + i] OBVIOUS
            <4>2. i + 1 \in 1 .. Len(N) /\ Tail(N)[i] = N[i + 1] BY <1>5, <1>13
            <4>3. k + (i + 1) = k + 1 + i BY <3>7
            <4> QED BY <3>5, <4>2, <4>3
        <3> HIDE DEF k
        <3> QED BY <1>11, <3>2, <3>5, <3>10, <3>11, <3>12 DEF Halfway, Holds
    <2>5. ~ \A u \in Loaders : file'[u] # g BY <1>3
    <2>6. \A u \in Loaders : Passed(u, g)' => s_file2modifytime'[g] = mtime'[g]
        <3>1. \A u \in Loaders : Passed(u, g)' => Passed(u, g) BY <1>3 DEF Passed, diskVars, callVars
        <3> QED BY <1>3, <2>1, <3>1 DEF FileOK, diskVars
    <2>7. ASSUME Recorded(g)', NEW u \in Loaders, file'[u] = g PROVE Halfway(u, g)'
        <3>1. u = t BY <1>3, <2>3, <2>7 DEF Recorded
        <3> QED BY <2>4, <2>7, <3>1
    <2> QED BY <2>2, <2>3, <2>5, <2>6, <2>7 DEF FileOK, Recorded
<1> QED BY <1>10, <1>12, <1>14, <1>15, <1>16 DEF CacheInv

\* A write makes the record of the file old, or doubtful.
LEMMA EditStep ==
    ASSUME CacheInv, NEW g \in Files, NEW d \in Documents[g], Edit(g, d)
    PROVE  CacheInv'
<1>1. /\ disk' = [disk EXCEPT ![g] = d]
      /\ settled' = [t \in Loaders |-> settled[t] \ {g}]
      /\ UNCHANGED <<datas, s_file2modifytime, pc, todo, file, nodes, cached>>
    BY DEF Edit
<1>2. PICK s \in {mtime[g], mtime[g] + 1} :
        /\ mtime' = [mtime EXCEPT ![g] = s]
        /\ doubt' = IF s = mtime[g] THEN doubt \union {g} ELSE doubt
    BY DEF Edit
<1>3. mtime[g] \in Nat /\ s \in Nat BY <1>2 DEF CacheInv, TypeInv
<1>4. TypeInv'
    <2>1. IsFunction(disk, Files)' /\ \A f \in Files : disk'[f] \in Documents[f]
        BY <1>1 DEF CacheInv, TypeInv, IsFunction
    <2>2. mtime' \in [Files -> Nat] BY <1>2, <1>3 DEF CacheInv, TypeInv
    <2>3. settled' \in [Loaders -> SUBSET Files] BY <1>1 DEF CacheInv, TypeInv
    <2> QED BY <1>1, <2>1, <2>2, <2>3 DEF CacheInv, TypeInv, IsFunction
<1>5. AcceptInv' /\ RegisteredNames' = RegisteredNames BY <1>1, AcceptFrame DEF CacheInv
<1>6. NodesInv' BY <1>1, NodesFrame DEF CacheInv
<1>7. ASSUME NEW f \in Files, f # g PROVE FileOK(f)'
    <2>1. /\ disk'[f] = disk[f] /\ mtime'[f] = mtime[f] /\ (f \in doubt' <=> f \in doubt)
        BY <1>1, <1>2, <1>7 DEF CacheInv, TypeInv, IsFunction
    <2>2. \A u \in Loaders : Passed(u, f)' => Passed(u, f) BY <1>1, <2>1 DEF Passed
    <2>3. \A u \in Loaders : Passed(u, f)' => s_file2modifytime[f] = mtime[f]
        BY <2>2 DEF CacheInv, FileOK
    <2>4. Untouched(f) BY <1>1, <1>5, <2>1, <2>3 DEF Untouched
    <2> QED BY <2>4, FileFrame DEF CacheInv
<1>8. FileOK(g)'
    <2>1. FileOK(g) BY DEF CacheInv
    <2>2. cached'[g] \subseteq RegisteredNames' BY <1>1, <1>5, <2>1 DEF FileOK
    <2>3. \A u \in Loaders : ~Passed(u, g)' BY <1>1 DEF Passed
    <2>4. CASE s = mtime[g]
        <3>1. g \in doubt' BY <1>2, <2>4
        <3> QED BY <2>2, <2>3, <3>1 DEF FileOK, Recorded
    <2>5. CASE s # mtime[g]
        <3>1. doubt' = doubt /\ mtime'[g] = mtime[g] + 1 BY <1>2, <2>5 DEF CacheInv, TypeInv
        <3>2. s_file2modifytime[g] \in Nat BY DEF CacheInv, TypeInv
        <3>3. g \notin doubt' => s_file2modifytime'[g] < mtime'[g]
            BY <1>1, <1>3, <2>1, <3>1, <3>2 DEF FileOK
        <3>4. ~Recorded(g)' BY <1>1, <1>3, <3>1, <3>2, <3>3 DEF Recorded
        <3>5. g \notin doubt' =>
                /\ s_file2modifytime'[g] <= mtime'[g]
                /\ \A t, u \in Loaders : file'[t] = g /\ file'[u] = g => t = u
            BY <1>1, <1>3, <2>1, <3>1, <3>2, <3>3 DEF FileOK
        <3> QED BY <2>2, <2>3, <3>4, <3>5 DEF FileOK
    <2> QED BY <2>4, <2>5
<1> QED BY <1>4, <1>5, <1>6, <1>7, <1>8 DEF CacheInv

LEMMA CacheInvStep ==
    ASSUME OneHome, CacheInv, [Next]_vars
    PROVE  CacheInv'
<1>1. ASSUME NEW n \in Names, Lookup(n) PROVE CacheInv' BY <1>1, LookupStep
<1>2. ASSUME NEW t \in Loaders, NEW force \in BOOLEAN, LoadBegin(t, force) PROVE CacheInv'
    BY <1>2, BeginStep
<1>3. ASSUME NEW t \in Loaders, NEW f \in Files, StatSkip(t, f) PROVE CacheInv'
    BY <1>3, SkipStep DEF StatSkip
<1>4. ASSUME NEW t \in Loaders, NEW f \in Files, StatRecord(t, f) \/ StatGarbage(t, f)
      PROVE  CacheInv'
    BY <1>4, RecordStep, GarbageStep
<1>5. ASSUME NEW t \in Loaders, LoadFile(t) \/ LoadFileThrow(t) \/ ApplyNode(t) \/ FileDone(t)
      PROVE  CacheInv'
    BY <1>5, ReadStep, LeaveStep, ApplyStep
<1>6. ASSUME NEW t \in Loaders, LoadReturn(t) PROVE CacheInv' BY <1>6, ReturnStep
<1>7. ASSUME NEW f \in Files, NEW d \in Documents[f], Edit(f, d) PROVE CacheInv' BY <1>7, EditStep
<1>8. CASE UNCHANGED vars
    <2>1. TypeInv' BY <1>8 DEF vars, CacheInv, TypeInv, IsFunction
    <2>2. \A f \in Files, t \in Loaders : Passed(t, f)' => Passed(t, f) BY <1>8 DEF vars, Passed
    <2>3. \A f \in Files : \A t \in Loaders : Passed(t, f)' => s_file2modifytime[f] = mtime[f]
        BY <2>2 DEF CacheInv, FileOK
    <2> QED BY <1>8, <2>1, <2>3, CallStep DEF vars
<1> QED BY <1>1, <1>2, <1>3, <1>4, <1>5, <1>6, <1>7, <1>8 DEF Next

LEMMA CacheInvHolds ==
    ASSUME OneHome
    PROVE  Spec => []CacheInv
<1>1. Init => CacheInv BY CacheInvInit
<1>2. CacheInv /\ [Next]_vars => CacheInv' BY CacheInvStep
<1> QED BY <1>1, <1>2, PTL DEF Spec

\* A file whose recorded time is its time, and which no loader is at, has been
\* applied to the variables that existed when it was recorded: passing it over
\* loses nothing.  Excepted are the records in doubt (two loaders at once, a
\* second write within the second, an lstat that failed).
THEOREM CacheIsFresh ==
    ASSUME OneHome
    PROVE  Spec => []CacheFresh
<1>1. CacheInv => CacheFresh BY DEF CacheInv, FileOK, CacheFresh, Recorded, Trusted
<1> QED BY <1>1, CacheInvHolds, PTL

\* When LoadFromConfDir returns, the variables have the values of every file
\* that was not written during the call and whose record is not in doubt,
\* whether the call applied it or passed it over, and whatever other loaders
\* and broken files there are.
THEOREM LoadedWhenReturned ==
    ASSUME OneHome
    PROVE  Spec => []LoadedOnReturn
<1>1. ASSUME CacheInv PROVE LoadedOnReturn
    <2>1. SUFFICES ASSUME NEW t \in Loaders, pc[t] \in {"scan", "force"}, todo[t] = {},
                          NEW f \in settled[t], Trusted(f)
          PROVE  Agrees(f, known[t] \cap cached[f])
        BY DEF LoadedOnReturn
    <2>2. f \in Files /\ FileOK(f) BY <1>1 DEF CacheInv, TypeInv
    <2>3. CASE disk[f] = Gone BY <2>3 DEF Agrees
    <2>4. CASE disk[f] # Gone
        <3>1. Passed(t, f) BY <2>1, <2>4 DEF Passed, Trusted
        <3>2. Recorded(f) BY <2>1, <2>2, <3>1 DEF FileOK, Recorded, Trusted
        <3>3. Agrees(f, cached[f]) BY <2>1, <2>2, <3>2 DEF FileOK, Trusted
        <3> QED BY <3>3 DEF Agrees
    <2> QED BY <2>3, <2>4
<1> QED BY <1>1, CacheInvHolds, PTL

=============================================================================
