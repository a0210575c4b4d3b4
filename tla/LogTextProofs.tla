---------------------------- MODULE LogTextProofs ----------------------------
(***************************************************************************)
(* Proofs about the text of the log and of its configuration, and about    *)
(* the file it goes to: that a FileLogAppender recovers within three       *)
(* seconds from what happens to its file, that LogFormatter reports just   *)
(* the patterns that do not follow the grammar and loses no character of   *)
(* the others, that what toString writes fromString reads back, and that   *)
(* a dump of the loggers restores them.                                    *)
(*                                                                         *)
(* Text has any length here.  What a recursive function makes of it is     *)
(* proved by induction over the numbers, in the form SetInduction: a set   *)
(* of numbers with 0 in it and with n + 1 for each n is all of them.       *)
(***************************************************************************)
EXTENDS LogFormatter, LogYaml, FileLogAppender, FiniteSetTheorems, SequenceTheorems,
        WellFoundedInduction, NaturalsInduction, TLAPS

-----------------------------------------------------------------------------
(* The log file.                                                           *)

Streams == [file : Nat \union {NoFile}, fail : BOOLEAN]

AppenderTypeOK ==
    /\ m_lastTime \in Nat /\ clock \in Nat /\ trouble \in Nat /\ files \in Nat
    /\ m_filestream \in Streams
    /\ path \in Nat \union {NoFile}
    /\ denied \in BOOLEAN /\ full \in BOOLEAN
    /\ log \in [Threads -> {"idle", "check", "reopen", "last", "write"}]
    /\ event \in [Threads -> Nat]
    /\ fate \in [Threads -> {"kept", "dropped", "astray"}]
    /\ ~m_filestream.fail => m_filestream.file # NoFile

\* No time on record is in the future.
ClockInv ==
    /\ m_lastTime <= clock /\ trouble <= clock
    /\ \A t \in Threads : event[t] <= clock

\* The next write is lost although a reopening would help: the stream writes
\* to a file that has another name by now, or was not opened and could be.
Stale ==
    \/ ~m_filestream.fail /\ m_filestream.file # path
    \/ m_filestream.fail /\ m_filestream.file = NoFile /\ ~denied

\* A stale stream has not been reopened since the trouble, so m_lastTime, and
\* what a thread is about to make of it, are no later; and an event three
\* seconds after the trouble gets to the write only by a reopening.
StaleInv ==
    Stale =>
        /\ m_lastTime <= trouble
        /\ \A t \in Threads : log[t] \in {"last", "write"} => event[t] < trouble + 3
        /\ \A t \in Threads : log[t] = "last" => event[t] <= trouble

AppenderInv == AppenderTypeOK /\ ClockInv /\ StaleInv /\ NotAstray /\ Recovered

-----------------------------------------------------------------------------
LEMMA AppenderInitInv == AppenderInit => AppenderInv
<1> SUFFICES ASSUME AppenderInit PROVE AppenderInv OBVIOUS
<1> USE AppenderAssumption DEF AppenderInit
<1>1. CASE denied
    <2>1. m_filestream \in Streams /\ m_filestream.fail /\ m_filestream.file = NoFile
        BY <1>1 DEF Streams
    <2>2. AppenderTypeOK BY <1>1, <2>1 DEF AppenderTypeOK
    <2> QED BY <1>1, <2>1, <2>2 DEF AppenderInv, ClockInv, StaleInv, Stale, NotAstray, Recovered
<1>2. CASE ~denied
    <2>1. m_filestream \in Streams /\ ~m_filestream.fail /\ m_filestream.file = 1
        BY <1>2 DEF Streams
    <2>2. AppenderTypeOK
        <3>1. /\ path \in Nat /\ files \in Nat /\ m_filestream.file # NoFile
              /\ m_lastTime \in Nat /\ clock \in Nat /\ trouble \in Nat
            BY <1>2, <2>1
        <3>2. denied \in BOOLEAN /\ full \in BOOLEAN BY Zenon
        <3> QED BY <2>1, <3>1, <3>2 DEF AppenderTypeOK
    <2> QED BY <1>2, <2>1, <2>2 DEF AppenderInv, ClockInv, StaleInv, Stale, NotAstray, Recovered
<1> QED BY <1>1, <1>2

\* reopen() leaves a stream that is not stale, and does not unstick one.
LEMMA ReopenFresh ==
    ASSUME AppenderInv, NEW t \in Threads, Reopen(t)
    PROVE  /\ m_filestream' \in Streams
           /\ path' \in Nat \union {NoFile} /\ files' \in Nat
           /\ ~m_filestream'.fail => m_filestream'.file # NoFile
           /\ ~Stale'
           /\ Stuck => Stuck'
<1> DEFINE s == IF m_filestream.fail THEN m_filestream ELSE [m_filestream EXCEPT !.file = NoFile]
<1>1. /\ m_filestream \in Streams /\ path \in Nat \union {NoFile} /\ files \in Nat
      /\ denied \in BOOLEAN /\ NoFile \notin Nat /\ denied' = denied
    BY AppenderAssumption DEF AppenderInv, AppenderTypeOK, Reopen, outerVars
<1>2. s \in Streams /\ (Stuck => s = m_filestream) BY <1>1 DEF Streams, Stuck
<1>3. OpenForWrite(s) BY DEF Reopen
<1> HIDE DEF s
<1>4. CASE /\ s.file # NoFile \/ denied
           /\ m_filestream' = [s EXCEPT !.fail = TRUE]
           /\ UNCHANGED diskVars
    <2>1. /\ m_filestream' \in Streams /\ m_filestream'.fail /\ m_filestream'.file = s.file
        BY <1>2, <1>4 DEF Streams
    <2> QED BY <1>1, <1>2, <1>4, <2>1 DEF Stale, Stuck, diskVars
<1>5. CASE /\ s.file = NoFile /\ ~denied
           /\ files' = IF path = NoFile THEN files + 1 ELSE files
           /\ path' = IF path = NoFile THEN files + 1 ELSE path
           /\ m_filestream' = [file |-> path', fail |-> FALSE]
    <2>1. files' \in Nat /\ path' \in Nat BY <1>1, <1>5
    <2>2. /\ m_filestream' \in Streams /\ ~m_filestream'.fail /\ m_filestream'.file = path'
        BY <2>1, <1>5 DEF Streams
    <2> QED BY <1>1, <1>2, <1>5, <2>1, <2>2 DEF Stale, Stuck
<1> QED BY <1>3, <1>4, <1>5 DEF OpenForWrite

\* The steps of a thread through log().
LEMMA LogStep ==
    ASSUME AppenderInv, NEW t \in Threads,
           LogBegin(t) \/ LogCheck(t) \/ Reopen(t) \/ SetLast(t) \/ Write(t)
    PROVE  AppenderInv'
<1> USE DEF AppenderInv
<1>1. CASE LogBegin(t)
    <2> USE <1>1 DEF LogBegin, diskVars, outerVars
    <2>1. AppenderTypeOK' BY DEF AppenderTypeOK
    <2>2. ClockInv' BY DEF ClockInv, AppenderTypeOK
    <2>3. StaleInv' BY DEF StaleInv, Stale, AppenderTypeOK
    <2>4. NotAstray' BY DEF NotAstray, AppenderTypeOK
    <2>5. Recovered' BY DEF Recovered, Stuck, AppenderTypeOK
    <2> QED BY <2>1, <2>2, <2>3, <2>4, <2>5
<1>2. CASE LogCheck(t)
    <2> USE <1>2 DEF LogCheck, diskVars, outerVars
    <2>1. AppenderTypeOK' BY DEF AppenderTypeOK
    <2>2. ClockInv' BY DEF ClockInv, AppenderTypeOK
    <2>3. StaleInv' BY DEF StaleInv, Stale, AppenderTypeOK
    <2>4. NotAstray' BY DEF NotAstray, AppenderTypeOK
    <2>5. Recovered' BY DEF Recovered, Stuck, AppenderTypeOK
    <2> QED BY <2>1, <2>2, <2>3, <2>4, <2>5
<1>3. CASE Reopen(t)
    <2>0. /\ log[t] = "reopen" /\ log' = [log EXCEPT ![t] = "last"]
          /\ UNCHANGED <<m_lastTime, event, fate, outerVars>>
        BY <1>3 DEF Reopen
    <2> USE <2>0 DEF outerVars
    <2>1. AppenderTypeOK' BY <1>3, ReopenFresh DEF AppenderTypeOK
    <2>2. ClockInv' BY DEF ClockInv, AppenderTypeOK
    <2>3. StaleInv' BY <1>3, ReopenFresh DEF StaleInv
    <2>4. NotAstray' BY DEF NotAstray, AppenderTypeOK
    <2>5. Recovered' BY <1>3, ReopenFresh DEF Recovered, AppenderTypeOK
    <2> QED BY <2>1, <2>2, <2>3, <2>4, <2>5
<1>4. CASE SetLast(t)
    <2> USE <1>4 DEF SetLast, diskVars, outerVars
    <2>1. AppenderTypeOK' BY DEF AppenderTypeOK
    <2>2. ClockInv' BY DEF ClockInv, AppenderTypeOK
    <2>3. StaleInv' BY DEF StaleInv, Stale, AppenderTypeOK
    <2>4. NotAstray' BY DEF NotAstray, AppenderTypeOK
    <2>5. Recovered' BY DEF Recovered, Stuck, AppenderTypeOK
    <2> QED BY <2>1, <2>2, <2>3, <2>4, <2>5
<1>5. CASE Write(t)
    <2>0. /\ log[t] = "write" /\ log' = [log EXCEPT ![t] = "idle"]
          /\ UNCHANGED <<m_lastTime, event, diskVars, outerVars>>
        BY <1>5 DEF Write
    <2>1. /\ m_filestream' \in Streams /\ m_filestream'.file = m_filestream.file
          /\ m_filestream'.fail <=> m_filestream.fail \/ full \/ m_filestream.file = NoFile
        BY <1>5 DEF Write, AppenderTypeOK, Streams
    <2>2. fate' = [fate EXCEPT ![t] = IF m_filestream'.fail THEN "dropped"
                                      ELSE IF m_filestream.file = path THEN "kept" ELSE "astray"]
        BY <1>5 DEF Write
    <2>3. AppenderTypeOK' BY <2>0, <2>1, <2>2 DEF AppenderTypeOK, diskVars, outerVars
    <2>4. Stale' => Stale
        BY <2>0, <2>1 DEF Stale, diskVars, outerVars, AppenderTypeOK
    <2>5. ClockInv' BY <2>0 DEF ClockInv, outerVars, AppenderTypeOK
    <2>6. StaleInv' BY <2>0, <2>4 DEF StaleInv, outerVars, AppenderTypeOK
    <2>7. Stale => event[t] < trouble + 3 BY <2>0 DEF StaleInv
    <2>8. fate'[t] = "astray" => Stale
        BY <2>1, <2>2 DEF Stale, AppenderTypeOK
    <2>9. fate'[t] # "kept" => denied \/ full \/ Stuck' \/ Stale
        BY <2>1, <2>2 DEF Stale, Stuck, AppenderTypeOK
    <2>10. Stuck => Stuck' BY <2>1 DEF Stuck
    <2>11. NotAstray'
        BY <2>0, <2>2, <2>7, <2>8 DEF NotAstray, outerVars, AppenderTypeOK
    <2>12. Recovered'
        BY <2>0, <2>2, <2>7, <2>9, <2>10 DEF Recovered, outerVars, AppenderTypeOK
    <2> QED BY <2>3, <2>5, <2>6, <2>11, <2>12
<1> QED BY <1>1, <1>2, <1>3, <1>4, <1>5

\* Trouble, whatever it is: no event is later than the time it comes at.
LEMMA TroubleStep ==
    ASSUME AppenderInv, Disturb, path' \in Nat \union {NoFile}, denied' \in BOOLEAN,
           full' \in BOOLEAN
    PROVE  AppenderInv'
<1> USE DEF AppenderInv, Disturb, AppenderTypeOK
<1>1. AppenderTypeOK' OBVIOUS
<1>2. ClockInv' BY DEF ClockInv
<1>3. \A t \in Threads : event[t] < trouble' + 3 /\ event[t] <= trouble'
    BY DEF ClockInv
<1>4. StaleInv' BY <1>3 DEF StaleInv, ClockInv
<1>5. NotAstray' BY <1>3 DEF NotAstray
<1>6. Recovered' BY <1>3 DEF Recovered
<1> QED BY <1>1, <1>2, <1>4, <1>5, <1>6

LEMMA AppenderInvStep == AppenderInv /\ [AppenderNext]_appenderVars => AppenderInv'
<1> SUFFICES ASSUME AppenderInv, [AppenderNext]_appenderVars PROVE AppenderInv'
    OBVIOUS
<1>1. ASSUME NEW t \in Threads,
             LogBegin(t) \/ LogCheck(t) \/ Reopen(t) \/ SetLast(t) \/ Write(t)
      PROVE  AppenderInv'
    BY <1>1, LogStep
<1>2. CASE Rotate
    BY <1>2, TroubleStep DEF Rotate, AppenderInv, AppenderTypeOK
<1>3. CASE Deny
    BY <1>3, TroubleStep DEF Deny, AppenderInv, AppenderTypeOK, Disturb
<1>4. CASE Fill
    BY <1>4, TroubleStep DEF Fill, AppenderInv, AppenderTypeOK, Disturb
<1>5. CASE Tick
    <2> USE <1>5 DEF Tick, diskVars, AppenderInv
    <2>1. AppenderTypeOK' BY DEF AppenderTypeOK
    <2>2. ClockInv' BY DEF ClockInv, AppenderTypeOK
    <2>3. StaleInv' BY DEF StaleInv, Stale
    <2>4. NotAstray' BY DEF NotAstray
    <2>5. Recovered' BY DEF Recovered, Stuck
    <2> QED BY <2>1, <2>2, <2>3, <2>4, <2>5
<1>6. CASE UNCHANGED appenderVars
    BY <1>6 DEF appenderVars, AppenderInv, AppenderTypeOK, ClockInv, StaleInv, Stale, NotAstray,
                Recovered, Stuck
<1> QED BY <1>1, <1>2, <1>3, <1>4, <1>5, <1>6 DEF AppenderNext

LEMMA AppenderInvariance == AppenderSpec => []AppenderInv
BY AppenderInitInv, AppenderInvStep, PTL DEF AppenderSpec

\* No event goes to a file that was moved away three seconds before it: for
\* every number of threads that share the appender, of troubles and of
\* seconds, although the test of m_lastTime, the reopening and the assignment
\* of m_lastTime are separate steps.
THEOREM NeverAstray == AppenderSpec => []NotAstray
BY AppenderInvariance, PTL DEF AppenderInv

\* Three seconds after the last trouble every event is in the file that
\* m_filename names, unless the trouble goes on or a write on a full disk has
\* left the stream open in failure, which reopen() never closes.
THEOREM RecoversInTime == AppenderSpec => []Recovered
BY AppenderInvariance, PTL DEF AppenderInv

-----------------------------------------------------------------------------
(* Induction, and sequences of sequences.                                  *)

\* A non-empty set of naturals has a smallest element.
LEMMA LeastNat ==
    ASSUME NEW S, S \subseteq Nat, S # {}
    PROVE  \E k \in S : \A j \in S : k <= j
<1>1. IsWellFoundedOn(OpToRel(<, Nat), Nat)
    BY NatLessThanWellFounded
<1>2. \E k \in S : \A j \in S : <<j, k>> \notin OpToRel(<, Nat)
    BY <1>1, WFMin
<1>3. \A j, k \in Nat : j < k => <<j, k>> \in OpToRel(<, Nat)
    BY DEF OpToRel
<1>4. PICK k \in S : \A j \in S : <<j, k>> \notin OpToRel(<, Nat)
    BY <1>2
<1>5. ASSUME NEW j \in S PROVE k <= j
    <2>1. j \in Nat /\ k \in Nat /\ ~(j < k)
        BY <1>3, <1>4
    <2> QED
        BY <2>1
<1> QED
    BY <1>5

\* Induction over the naturals, for a set of them.
LEMMA SetInduction ==
    ASSUME NEW S, 0 \in S, \A n \in Nat : n \in S => n + 1 \in S
    PROVE  \A n \in Nat : n \in S
<1> SUFFICES ASSUME Nat \ S # {} PROVE FALSE
    OBVIOUS
<1>1. PICK k \in Nat \ S : \A j \in Nat \ S : k <= j
    BY LeastNat
<1>2. k # 0 /\ k - 1 \in Nat /\ k - 1 \in S
    BY <1>1
<1> QED
    BY <1>1, <1>2

\* A function on 1 .. n is a sequence.
LEMMA FunctionIsSeq ==
    ASSUME NEW S, NEW n \in Nat, NEW f \in [1 .. n -> S]
    PROVE  f \in Seq(S) /\ Len(f) = n
OBVIOUS

\* What FlattenSeq makes of the first sequences of ss.
Joins(F, ss, n) ==
    /\ DOMAIN F = 1 .. n
    /\ \A k \in 1 .. n : F[k] = IF k = 1 THEN ss[k] ELSE F[k - 1] \o ss[k]

\* The function in FlattenSeq is defined by its equation.
LEMMA JoinsExists ==
    ASSUME NEW X, NEW ss \in Seq(Seq(X))
    PROVE  \A n \in 0 .. Len(ss) : \E F \in [1 .. n -> Seq(X)] : Joins(F, ss, n)
<1> DEFINE S == {n \in Nat : n <= Len(ss) => \E F \in [1 .. n -> Seq(X)] : Joins(F, ss, n)}
<1>1. 0 \in S
    <2> DEFINE E == [k \in 1 .. 0 |-> <<>>]
    <2>1. E \in [1 .. 0 -> Seq(X)] /\ Joins(E, ss, 0)
        BY DEF Joins
    <2> QED BY <2>1
<1>2. ASSUME NEW n \in Nat, n \in S PROVE n + 1 \in S
    <2> SUFFICES ASSUME n + 1 <= Len(ss)
                 PROVE  \E F \in [1 .. n + 1 -> Seq(X)] : Joins(F, ss, n + 1)
        OBVIOUS
    <2>1. PICK F \in [1 .. n -> Seq(X)] : Joins(F, ss, n)
        BY <1>2
    <2>2. ss[n + 1] \in Seq(X) OBVIOUS
    <2> DEFINE v == IF n + 1 = 1 THEN ss[n + 1] ELSE F[n] \o ss[n + 1]
               G == [k \in 1 .. n + 1 |-> IF k = n + 1 THEN v ELSE F[k]]
    <2>3. v \in Seq(X)
        <3>1. CASE n = 0 BY <2>2, <3>1
        <3>2. CASE n # 0
            <4>1. F[n] \in Seq(X) BY <3>2
            <4> QED BY <2>2, <3>2, <4>1
        <3> QED BY <3>1, <3>2
    <2>4. G \in [1 .. n + 1 -> Seq(X)] BY <2>3
    <2>5. Joins(G, ss, n + 1)
        <3>1. ASSUME NEW k \in 1 .. n + 1
              PROVE  G[k] = IF k = 1 THEN ss[k] ELSE G[k - 1] \o ss[k]
            <4>1. CASE k = n + 1 BY <4>1
            <4>2. CASE k # n + 1
                <5>1. k \in 1 .. n /\ G[k] = F[k] /\ (k # 1 => G[k - 1] = F[k - 1]) BY <4>2
                <5> QED BY <5>1, <2>1 DEF Joins
            <4> QED BY <4>1, <4>2
        <3> QED BY <3>1 DEF Joins
    <2> QED BY <2>4, <2>5
<1> HIDE DEF S
<1>3. \A n \in Nat : n \in S BY <1>1, <1>2, SetInduction
<1> QED BY <1>3 DEF S

LEMMA JoinsUnique ==
    ASSUME NEW ss, NEW n \in Nat, NEW F, NEW G, Joins(F, ss, n), NEW m \in Nat, n <= m, Joins(G, ss, m)
    PROVE  \A k \in 1 .. n : F[k] = G[k]
<1> DEFINE S == {k \in Nat : k \in 1 .. n => F[k] = G[k]}
<1>1. 0 \in S OBVIOUS
<1>2. ASSUME NEW k \in Nat, k \in S PROVE k + 1 \in S
    <2> SUFFICES ASSUME k + 1 \in 1 .. n PROVE F[k + 1] = G[k + 1] OBVIOUS
    <2>1. k + 1 \in 1 .. m OBVIOUS
    <2>2. /\ F[k + 1] = IF k + 1 = 1 THEN ss[k + 1] ELSE F[(k + 1) - 1] \o ss[k + 1]
          /\ G[k + 1] = IF k + 1 = 1 THEN ss[k + 1] ELSE G[(k + 1) - 1] \o ss[k + 1]
        BY <2>1, Zenon DEF Joins
    <2>3. (k + 1) - 1 = k /\ (k + 1 = 1 \/ k \in 1 .. n) OBVIOUS
    <2> QED BY <1>2, <2>2, <2>3
<1> HIDE DEF S
<1>3. \A k \in Nat : k \in S BY <1>1, <1>2, SetInduction
<1> QED BY <1>3 DEF S

LEMMA FlattenIsJoin ==
    ASSUME NEW X, NEW ss \in Seq(Seq(X)), Len(ss) # 0, NEW F, Joins(F, ss, Len(ss))
    PROVE  FlattenSeq(ss) = F[Len(ss)]
<1> DEFINE Eq(f) == f = [i_1 \in 1 .. Len(ss) |-> IF i_1 = 1 THEN ss[i_1] ELSE f[i_1 - 1] \o ss[i_1]]
<1>1. PICK f \in [1 .. Len(ss) -> Seq(X)] : Joins(f, ss, Len(ss))
    BY JoinsExists
<1>2. Eq(f) BY <1>1 DEF Joins
<1> DEFINE g == CHOOSE h : Eq(h)
<1>3. Eq(g) BY <1>2
<1>4. FlattenSeq(ss) = g[Len(ss)] BY DEF FlattenSeq
<1> HIDE DEF g
<1>5. Joins(g, ss, Len(ss)) BY <1>3 DEF Joins
<1> QED BY <1>4, <1>5, JoinsUnique

LEMMA FlattenEmpty == FlattenSeq(<<>>) = <<>>
BY DEF FlattenSeq

LEMMA FlattenType ==
    ASSUME NEW X, NEW ss \in Seq(Seq(X))
    PROVE  FlattenSeq(ss) \in Seq(X)
<1>1. CASE Len(ss) = 0
    <2>1. ss = <<>> /\ <<>> \in Seq(X) BY <1>1, EmptySeq
    <2> QED BY <2>1, FlattenEmpty
<1>2. CASE Len(ss) # 0
    <2>1. PICK F \in [1 .. Len(ss) -> Seq(X)] : Joins(F, ss, Len(ss))
        BY JoinsExists
    <2>2. Len(ss) \in Nat BY LenProperties
    <2>3. Len(ss) \in 1 .. Len(ss) BY <1>2, <2>2
    <2>4. F[Len(ss)] \in Seq(X) BY <2>3, Zenon
    <2> HIDE DEF Joins
    <2> QED BY <1>2, <2>1, <2>4, FlattenIsJoin
<1> QED BY <1>1, <1>2

LEMMA FlattenAppend ==
    ASSUME NEW X, NEW ss \in Seq(Seq(X)), NEW s \in Seq(X)
    PROVE  FlattenSeq(Append(ss, s)) = FlattenSeq(ss) \o s
<1> DEFINE n == Len(ss)
           tt == Append(ss, s)
<1>1. tt \in Seq(Seq(X)) /\ Len(tt) = n + 1 /\ n \in Nat
    OBVIOUS
<1>2. tt[n + 1] = s /\ \A k \in 1 .. n : tt[k] = ss[k]
    OBVIOUS
<1>3. PICK F \in [1 .. n -> Seq(X)] : Joins(F, ss, n)
    BY JoinsExists
<1> DEFINE v == IF n = 0 THEN s ELSE F[n] \o s
           G == [k \in 1 .. n + 1 |-> IF k = n + 1 THEN v ELSE F[k]]
<1>4. Joins(G, tt, n + 1)
    <2>1. ASSUME NEW k \in 1 .. n + 1
          PROVE  G[k] = IF k = 1 THEN tt[k] ELSE G[k - 1] \o tt[k]
        <3>1. CASE k = n + 1 BY <1>1, <1>2, <3>1
        <3>2. CASE k # n + 1
            <4>1. k \in 1 .. n /\ G[k] = F[k] /\ (k # 1 => G[k - 1] = F[k - 1]) BY <3>2
            <4> QED BY <1>2, <1>3, <4>1 DEF Joins
        <3> QED BY <3>1, <3>2
    <2> QED BY <2>1 DEF Joins
<1>5. G[n + 1] = v BY <1>1
<1> HIDE DEF G, tt
<1>6. FlattenSeq(tt) = v
    <2>1. Len(tt) # 0 /\ Joins(G, tt, Len(tt)) BY <1>1, <1>4
    <2>2. FlattenSeq(tt) = G[Len(tt)] BY <1>1, <2>1, FlattenIsJoin
    <2> QED BY <1>1, <1>5, <2>2
<1>7. CASE n = 0
    <2>1. ss = <<>> BY <1>7
    <2> QED BY <1>6, <1>7, <2>1, FlattenEmpty DEF tt
<1>8. CASE n # 0
    BY <1>3, <1>6, <1>8, FlattenIsJoin DEF tt
<1> QED BY <1>7, <1>8

\* A sequence is the one of its elements, one by one.
LEMMA FlattenChars ==
    ASSUME NEW X, NEW s \in Seq(X)
    PROVE  FlattenSeq([k \in DOMAIN s |-> <<s[k]>>]) = s
<1> DEFINE ss == [k \in DOMAIN s |-> <<s[k]>>]
           F == [k \in 1 .. Len(s) |-> SubSeq(s, 1, k)]
<1>1. ss \in Seq(Seq(X)) /\ Len(ss) = Len(s)
    <2>1. Len(s) \in Nat /\ DOMAIN s = 1 .. Len(s) /\ \A k \in 1 .. Len(s) : s[k] \in X
        BY LenProperties
    <2>2. \A x \in X : <<x>> \in Seq(X) OBVIOUS
    <2>3. ss \in [1 .. Len(s) -> Seq(X)] BY <2>1, <2>2
    <2> HIDE DEF ss
    <2> QED BY <2>1, <2>3, FunctionIsSeq
<1>2. CASE Len(s) = 0
    <2>1. s = <<>> /\ ss = <<>> BY <1>1, <1>2
    <2> QED BY <2>1, FlattenEmpty
<1>3. CASE Len(s) # 0
    <2>1. ASSUME NEW k \in 1 .. Len(s)
          PROVE  F[k] = IF k = 1 THEN ss[k] ELSE F[k - 1] \o ss[k]
        <3>1. CASE k = 1
            <4>1. SubSeq(s, 1, 1) = <<s[1]>>
                <5>1. SubSeq(s, 1, 1) = <<s[1]>> \o SubSeq(s, 2, 1) BY <1>3, SubSeqRecursiveFirst
                <5>2. SubSeq(s, 2, 1) = <<>> BY SubSeqEmpty
                <5>3. s[1] \in X BY <1>3
                <5>4. <<s[1]>> \in Seq(X) BY <5>3
                <5> QED BY <5>1, <5>2, <5>4, ConcatEmptySeq
            <4> QED BY <3>1, <4>1
        <3>2. CASE k # 1
            <4>1. SubSeq(s, 1, k) = SubSeq(s, 1, k - 1) \o <<s[k]>>
                BY <3>2, SubSeqRecursiveSecond
            <4>2. F[k] = SubSeq(s, 1, k) /\ F[k - 1] = SubSeq(s, 1, k - 1) /\ ss[k] = <<s[k]>> BY <3>2
            <4> QED BY <3>2, <4>1, <4>2
        <3> QED BY <3>1, <3>2
    <2>2. Joins(F, ss, Len(ss)) BY <1>1, <2>1 DEF Joins
    <2>3. F[Len(ss)] = s BY <1>1, <1>3
    <2> HIDE DEF F, ss
    <2> QED BY <1>1, <1>3, <2>2, <2>3, FlattenIsJoin DEF ss
<1> QED BY <1>2, <1>3

-----------------------------------------------------------------------------
(* The parser of patterns.                                                 *)

\* The characters of the patterns, and the texts of errors.
InPatterns == UNION {Range(p) : p \in Patterns}
Alphabet == InPatterns \union {"%", LBrace, RBrace, "pattern_error", "error_format"}

Entries == [type : {0, 1}, str : Seq(Alphabet), fmt : Seq(Alphabet)]

FormatterTypeOK ==
    /\ m_pattern \in Seq(Alphabet) /\ i \in 1 .. Len(m_pattern) + 1
    /\ m_error \in BOOLEAN /\ pc \in {"parse", "done"}
    /\ nstr \in Seq(Alphabet) /\ vec \in Seq(Entries) /\ m_items \in Seq(Entries)

\* t is how the entries v were written in the pattern.
Spells(v, t) ==
    \E b \in [DOMAIN v -> BOOLEAN] :
        FlattenSeq([k \in DOMAIN v |-> Written(v[k], b[k])]) = t

\* The entries found so far, and then nstr, are what was read.
SpellInv ==
    pc = "parse" /\ ~m_error =>
        \E m \in 0 .. i - 1 :
            /\ Spells(vec, SubSeq(m_pattern, 1, m))
            /\ nstr = SubSeq(m_pattern, m + 1, i - 1)

\* f says which suffixes of p follow the grammar.
FollowsOf(f, p) ==
    /\ f \in [1 .. Len(p) + 3 -> BOOLEAN]
    /\ \A k \in 1 .. Len(p) + 3 : f[k] = Grammar(p, f, k)

\* The pattern follows the grammar if what was read does and the rest does.
ErrorInv ==
    pc = "parse" /\ NoEscape(m_pattern) =>
        \A f : FollowsOf(f, m_pattern) =>
            (f[1] <=> ~m_error /\ (\A k \in DOMAIN vec : Known(vec[k])) /\ f[i])

FormatterInv == FormatterTypeOK /\ SpellInv /\ ErrorInv /\ ErrorExact /\ ItemsFaithful

LEMMA Braces == LBrace # RBrace /\ LBrace # "%" /\ RBrace # "%" /\ "end" \notin {"%", LBrace, RBrace}
BY DEF LBrace, RBrace

LEMMA AlphabetSeqs ==
    /\ <<"%">> \in Seq(Alphabet) /\ <<LBrace>> \in Seq(Alphabet) /\ <<RBrace>> \in Seq(Alphabet)
    /\ <<"pattern_error">> \in Seq(Alphabet) /\ <<"error_format">> \in Seq(Alphabet)
    /\ <<>> \in Seq(Alphabet)
<1>1. \A x \in Alphabet : <<x>> \in Seq(Alphabet)
    OBVIOUS
<1>2. {"%", LBrace, RBrace, "pattern_error", "error_format"} \subseteq Alphabet
    BY DEF Alphabet
<1>3. <<>> \in Seq(Alphabet)
    BY EmptySeq
<1> QED BY <1>1, <1>2, <1>3

LEMMA WrittenFacts ==
    ASSUME NEW s \in Seq(Alphabet), NEW f \in Seq(Alphabet)
    PROVE  /\ Text(s) \in Entries /\ Format(s, f) \in Entries
           /\ Written(Text(s), FALSE) = s
           /\ Written(Format(s, f), TRUE) = <<"%">> \o s \o (<<LBrace>> \o f \o <<RBrace>>)
           /\ Written(Format(s, <<>>), FALSE) = <<"%">> \o s \o <<>>
<1>1. Text(s) \in Entries /\ Format(s, f) \in Entries
    <2>1. <<>> \in Seq(Alphabet) OBVIOUS
    <2> QED BY <2>1 DEF Text, Format, Entries
<1>2. Written(Text(s), FALSE) = s
    <2>1. Text(s).type = 0 /\ Text(s).str = s BY DEF Text
    <2> QED BY <2>1, Zenon DEF Written
<1>3. /\ Written(Format(s, f), TRUE) = <<"%">> \o s \o (<<LBrace>> \o f \o <<RBrace>>)
      /\ Written(Format(s, <<>>), FALSE) = <<"%">> \o s \o <<>>
    <2>1. \A g : Format(s, g).type # 0 /\ Format(s, g).str = s /\ Format(s, g).fmt = g
        BY DEF Format
    <2>3. Written(Format(s, f), TRUE) = <<"%">> \o s \o
                (IF f # <<>> \/ TRUE THEN <<LBrace>> \o f \o <<RBrace>> ELSE <<>>)
        BY <2>1, Zenon DEF Written
    <2>4. Written(Format(s, <<>>), FALSE) = <<"%">> \o s \o
                (IF <<>> # <<>> \/ FALSE THEN <<LBrace>> \o <<>> \o <<RBrace>> ELSE <<>>)
        BY <2>1, Zenon DEF Written
    <2> QED BY <2>3, <2>4
<1> QED BY <1>1, <1>2, <1>3

LEMMA WrittenType ==
    ASSUME NEW e \in Entries, NEW b \in BOOLEAN
    PROVE  Written(e, b) \in Seq(Alphabet)
<1>1. e.type \in {0, 1} /\ e.str \in Seq(Alphabet) /\ e.fmt \in Seq(Alphabet)
    BY DEF Entries
<1>2. CASE e.type = 0
    BY <1>1, <1>2, Zenon DEF Written
<1>3. CASE e.type = 1
    <2>1. Written(e, b) = <<"%">> \o e.str \o (IF e.fmt # <<>> \/ b THEN <<LBrace>> \o e.fmt \o <<RBrace>> ELSE <<>>)
        BY <1>3 DEF Written
    <2>2. <<"%">> \in Seq(Alphabet) /\ <<LBrace>> \in Seq(Alphabet) /\ <<RBrace>> \in Seq(Alphabet) /\ <<>> \in Seq(Alphabet)
        BY AlphabetSeqs
    <2>3. \A x, y \in Seq(Alphabet) : x \o y \in Seq(Alphabet)
        BY ConcatProperties
    <2>4. <<LBrace>> \o e.fmt \o <<RBrace>> \in Seq(Alphabet) /\ <<"%">> \o e.str \in Seq(Alphabet)
        BY <1>1, <2>2, <2>3
    <2> QED BY <2>1, <2>2, <2>3, <2>4
<1> QED BY <1>1, <1>2, <1>3

LEMMA SpellsNothing == Spells(<<>>, <<>>)
<1> DEFINE b == [k \in DOMAIN <<>> |-> TRUE]
<1>1. b \in [DOMAIN <<>> -> BOOLEAN] OBVIOUS
<1>2. [k \in DOMAIN <<>> |-> Written(<<>>[k], b[k])] = <<>> OBVIOUS
<1> QED BY <1>1, <1>2, FlattenEmpty DEF Spells

LEMMA SpellsAppend ==
    ASSUME NEW v \in Seq(Entries), NEW t, Spells(v, t), NEW e \in Entries, NEW c \in BOOLEAN
    PROVE  Spells(Append(v, e), t \o Written(e, c))
<1>1. PICK b \in [DOMAIN v -> BOOLEAN] :
            FlattenSeq([k \in DOMAIN v |-> Written(v[k], b[k])]) = t
    BY DEF Spells
<1> DEFINE n == Len(v)
           w == Append(v, e)
           d == [k \in 1 .. n + 1 |-> IF k = n + 1 THEN c ELSE b[k]]
           ss == [k \in DOMAIN v |-> Written(v[k], b[k])]
           tt == [k \in DOMAIN w |-> Written(w[k], d[k])]
<1>2. n \in Nat /\ DOMAIN v = 1 .. n BY LenProperties
<1>3. w \in Seq(Entries) /\ Len(w) = n + 1 /\ DOMAIN w = 1 .. n + 1
    BY <1>2, AppendProperties, LenProperties
<1>4. w[n + 1] = e /\ \A k \in 1 .. n : w[k] = v[k]
    BY AppendProperties
<1>5. d \in [DOMAIN w -> BOOLEAN]
    BY <1>2, <1>3
<1>6. ss \in Seq(Seq(Alphabet)) /\ Len(ss) = n
    <2>1. \A k \in 1 .. n : v[k] \in Entries /\ b[k] \in BOOLEAN BY <1>2
    <2>2. ss \in [1 .. n -> Seq(Alphabet)]
        BY <1>2, <2>1, WrittenType
    <2> HIDE DEF ss
    <2> QED BY <1>2, <2>2, FunctionIsSeq
<1>7. Written(e, c) \in Seq(Alphabet) BY WrittenType
<1>8. tt = Append(ss, Written(e, c))
    <2>1. ASSUME NEW k \in 1 .. n + 1 PROVE tt[k] = Append(ss, Written(e, c))[k]
        <3>1. CASE k = n + 1
            <4>1. d[k] = c BY <1>2, <3>1
            <4>2. tt[k] = Written(e, c) BY <1>3, <1>4, <3>1, <4>1
            <4> QED BY <1>6, <1>7, <3>1, <4>2, AppendProperties
        <3>2. CASE k # n + 1
            <4>1. k \in 1 .. n /\ d[k] = b[k] BY <1>2, <3>2
            <4>2. tt[k] = Written(v[k], b[k]) BY <1>3, <1>4, <4>1
            <4>3. ss[k] = Written(v[k], b[k]) BY <1>2, <4>1
            <4> QED BY <1>6, <1>7, <4>1, <4>2, <4>3, AppendProperties
        <3> QED BY <3>1, <3>2
    <2> DEFINE uu == Append(ss, Written(e, c))
    <2>2. uu \in Seq(Seq(Alphabet)) /\ Len(uu) = n + 1
        BY <1>6, <1>7, AppendProperties
    <2>3. DOMAIN uu = 1 .. n + 1 /\ uu = [k \in 1 .. n + 1 |-> uu[k]]
        BY <2>2, LenProperties
    <2>4. DOMAIN tt = 1 .. n + 1 /\ tt = [k \in 1 .. n + 1 |-> tt[k]]
        BY <1>3
    <2>5. \A k \in 1 .. n + 1 : tt[k] = uu[k] BY <2>1
    <2> HIDE DEF tt, uu
    <2> QED BY <2>3, <2>4, <2>5, Zenon DEF uu
<1>9. FlattenSeq(tt) = t \o Written(e, c)
    <2> HIDE DEF tt
    <2> QED BY <1>1, <1>6, <1>7, <1>8, FlattenAppend
<1> HIDE DEF d
<1> QED BY <1>5, <1>9 DEF Spells

\* The grammar at k asks about later suffixes only.
LEMMA GrammarLocal ==
    ASSUME NEW p, Len(p) \in Nat, NEW k \in 1 .. Len(p) + 3, NEW f, NEW g,
           \A j \in k + 1 .. Len(p) + 3 : f[j] = g[j]
    PROVE  Grammar(p, f, k) = Grammar(p, g, k)
<1>1. CASE k > Len(p)
    BY <1>1 DEF Grammar
<1>2. CASE k <= Len(p)
    <2>1. f[k + 1] = g[k + 1] /\ f[k + 2] = g[k + 2]
        BY <1>2
    <2>2. \A q \in k + 3 .. Len(p) : f[q + 1] = g[q + 1]
        BY <1>2
    <2> QED BY <2>1, <2>2 DEF Grammar
<1> QED BY <1>1, <1>2

\* Which suffixes follow the grammar is defined, from the end backwards.
LEMMA FollowsExists ==
    ASSUME NEW p, Len(p) \in Nat
    PROVE  \E f : FollowsOf(f, p)
<1> DEFINE L == Len(p) + 3
           From(f, n) == /\ f \in [1 .. L -> BOOLEAN]
                         /\ \A k \in 1 .. L : k > L - n => f[k] = Grammar(p, f, k)
           S == {n \in Nat : n <= L => \E f : From(f, n)}
<1>1. 0 \in S
    <2> DEFINE e == [k \in 1 .. L |-> TRUE]
    <2>1. e \in [1 .. L -> BOOLEAN] OBVIOUS
    <2>2. \A k \in 1 .. L : ~(k > L - 0) OBVIOUS
    <2>3. From(e, 0) BY <2>1, <2>2
    <2> QED BY <2>3
<1>2. ASSUME NEW n \in Nat, n \in S PROVE n + 1 \in S
    <2> SUFFICES ASSUME n + 1 <= L PROVE \E f : From(f, n + 1) OBVIOUS
    <2>1. PICK f : From(f, n) BY <1>2
    <2> DEFINE h == L - n
               g == [k \in 1 .. L |-> IF k = h THEN Grammar(p, f, h) ELSE f[k]]
    <2>2. h \in 1 .. L /\ L \in Nat OBVIOUS
    <2>3. Grammar(p, f, h) \in BOOLEAN BY DEF Grammar
    <2>4. g \in [1 .. L -> BOOLEAN] BY <2>1, <2>3
    <2>5. ASSUME NEW k \in 1 .. L, k > L - (n + 1) PROVE g[k] = Grammar(p, g, k)
        <3>1. k >= h BY <2>5
        <3>2. \A j \in k + 1 .. L : g[j] = f[j] BY <2>2, <3>1
        <3>3. Grammar(p, g, k) = Grammar(p, f, k) BY <3>2, GrammarLocal
        <3>4. CASE k = h BY <2>2, <3>3, <3>4
        <3>5. CASE k # h
            <4>1. k > L - n BY <2>2, <3>1, <3>5
            <4> QED BY <2>1, <3>3, <3>5, <4>1
        <3> QED BY <3>4, <3>5
    <2>6. From(g, n + 1) BY <2>4, <2>5
    <2> QED BY <2>6
<1> HIDE DEF S
<1>3. \A n \in Nat : n \in S BY <1>1, <1>2, SetInduction
<1>4. L \in Nat /\ L \in S BY <1>3
<1>5. PICK f : From(f, L) BY <1>4 DEF S
<1>6. FollowsOf(f, p) BY <1>5 DEF FollowsOf
<1> QED BY <1>6

\* WellFormed is what the function of its definition says of the whole.
LEMMA WellFormedFollows ==
    ASSUME NEW p, Len(p) \in Nat
    PROVE  \E f : FollowsOf(f, p) /\ WellFormed(p) = f[1]
<1> DEFINE Eq(f) == f = [k \in 1 .. Len(p) + 3 |-> Grammar(p, f, k)]
           g == CHOOSE f : Eq(f)
<1>1. PICK f : FollowsOf(f, p) BY FollowsExists
<1>2. Eq(f) BY <1>1 DEF FollowsOf
<1>3. Eq(g) BY <1>2
<1>4. WellFormed(p) = g[1] BY DEF WellFormed
<1> HIDE DEF g
<1>5. \A k : Grammar(p, g, k) \in BOOLEAN BY DEF Grammar
<1>6. FollowsOf(g, p) BY <1>3, <1>5, Zenon DEF FollowsOf
<1> QED BY <1>4, <1>6

\* Where a name ends, and where the braces behind it do.
LEMMA NameEndFacts ==
    ASSUME FormatterTypeOK, i <= Len(m_pattern)
    PROVE  /\ NameEnd \in i + 1 .. Len(m_pattern) + 1
           /\ NameEnd <= Len(m_pattern) => m_pattern[NameEnd] \notin Letters \union {RBrace}
           /\ \A n \in i + 1 .. NameEnd - 1 : m_pattern[n] \in Letters \union {RBrace}
<1> DEFINE S == {n \in i + 1 .. Len(m_pattern) : m_pattern[n] \notin Letters \union {RBrace}}
                    \union {Len(m_pattern) + 1}
<1>1. Len(m_pattern) \in Nat /\ i \in Nat BY DEF FormatterTypeOK
<1>2. S \subseteq Nat /\ Len(m_pattern) + 1 \in S BY <1>1
<1>3. NameEnd = Min(S) BY DEF NameEnd
<1> HIDE DEF S
<1>4. PICK k \in S : \A j \in S : k <= j BY <1>2, LeastNat
<1>5. NameEnd \in S /\ \A j \in S : NameEnd <= j BY <1>3, <1>4 DEF Min
<1>6. /\ NameEnd \in i + 1 .. Len(m_pattern) + 1
      /\ NameEnd <= Len(m_pattern) => m_pattern[NameEnd] \notin Letters \union {RBrace}
    BY <1>1, <1>5 DEF S, FormatterTypeOK
<1>7. ASSUME NEW n \in i + 1 .. NameEnd - 1 PROVE m_pattern[n] \in Letters \union {RBrace}
    <2>1. n \in i + 1 .. Len(m_pattern) /\ ~(NameEnd <= n) BY <1>1, <1>6
    <2>2. n \notin S BY <1>5, <2>1
    <2> QED BY <2>1, <2>2 DEF S
<1> QED BY <1>6, <1>7

LEMMA ClosingFacts ==
    ASSUME FormatterTypeOK, i <= Len(m_pattern), Closing # {}
    PROVE  /\ Min(Closing) \in NameEnd + 1 .. Len(m_pattern)
           /\ m_pattern[Min(Closing)] = RBrace
           /\ \A n \in NameEnd + 1 .. Min(Closing) - 1 : m_pattern[n] # RBrace
<1>1. Len(m_pattern) \in Nat /\ NameEnd \in Nat
    <2>1. i \in Nat /\ Len(m_pattern) \in Nat BY DEF FormatterTypeOK
    <2> QED BY <2>1, NameEndFacts
<1>2. Closing \subseteq Nat BY <1>1 DEF Closing
<1>3. PICK k \in Closing : \A j \in Closing : k <= j BY <1>2, LeastNat
<1>4. Min(Closing) \in Closing /\ \A j \in Closing : Min(Closing) <= j BY <1>3 DEF Min
<1> QED BY <1>1, <1>4 DEF Closing

\* What has been found, with the text in front of the place reached.
LEMMA FlushedFacts ==
    ASSUME FormatterTypeOK
    PROVE  /\ Flushed \in Seq(Entries)
           /\ (\A k \in DOMAIN Flushed : Known(Flushed[k])) <=> (\A k \in DOMAIN vec : Known(vec[k]))
           /\ SpellInv /\ pc = "parse" /\ ~m_error => Spells(Flushed, SubSeq(m_pattern, 1, i - 1))
<1>1. CASE nstr = <<>>
    <2>1. Flushed = vec BY <1>1 DEF Flushed
    <2>2. ASSUME SpellInv, pc = "parse", ~m_error
          PROVE  Spells(vec, SubSeq(m_pattern, 1, i - 1))
        <3>1. PICK m \in 0 .. i - 1 : Spells(vec, SubSeq(m_pattern, 1, m))
                                      /\ nstr = SubSeq(m_pattern, m + 1, i - 1)
            BY <2>2 DEF SpellInv
        <3>2. m = i - 1
            <4>1. \A n \in m + 1 .. i - 1 : m_pattern[n] \in Alphabet BY DEF FormatterTypeOK
            <4>2. Len(SubSeq(m_pattern, m + 1, i - 1)) = IF m + 1 <= i - 1 THEN i - 1 - (m + 1) + 1 ELSE 0
                BY <4>1, SubSeqProperties DEF FormatterTypeOK
            <4> QED BY <1>1, <3>1, <4>2 DEF FormatterTypeOK
        <3> QED BY <3>1, <3>2
    <2> QED BY <2>1, <2>2 DEF FormatterTypeOK
<1>2. CASE nstr # <<>>
    <2>1. Flushed = Append(vec, Text(nstr)) BY <1>2 DEF Flushed
    <2>2. nstr \in Seq(Alphabet) /\ vec \in Seq(Entries) BY DEF FormatterTypeOK
    <2>3. Text(nstr) \in Entries BY <2>2, WrittenFacts
    <2>4. Known(Text(nstr)) BY DEF Known, Text
    <2>5. /\ Flushed \in Seq(Entries) /\ DOMAIN vec = 1 .. Len(vec)
          /\ DOMAIN Flushed = 1 .. Len(vec) + 1 /\ Flushed[Len(vec) + 1] = Text(nstr)
          /\ \A k \in 1 .. Len(vec) : Flushed[k] = vec[k]
        BY <2>1, <2>2, <2>3, AppendProperties, LenProperties
    <2>6. (\A k \in DOMAIN Flushed : Known(Flushed[k])) <=> (\A k \in DOMAIN vec : Known(vec[k]))
        <3>1. Len(vec) \in Nat BY <2>2, LenProperties
        <3>2. 1 .. Len(vec) + 1 = 1 .. Len(vec) \union {Len(vec) + 1} BY <3>1
        <3> QED BY <2>4, <2>5, <3>2
    <2>7. ASSUME SpellInv, pc = "parse", ~m_error
          PROVE  Spells(Flushed, SubSeq(m_pattern, 1, i - 1))
        <3>1. PICK m \in 0 .. i - 1 : Spells(vec, SubSeq(m_pattern, 1, m))
                                      /\ nstr = SubSeq(m_pattern, m + 1, i - 1)
            BY <2>7 DEF SpellInv
        <3>2. Spells(Append(vec, Text(nstr)), SubSeq(m_pattern, 1, m) \o Written(Text(nstr), FALSE))
            BY <2>2, <2>3, <3>1, SpellsAppend
        <3>3. Written(Text(nstr), FALSE) = SubSeq(m_pattern, m + 1, i - 1)
            BY <2>2, <3>1, WrittenFacts
        <3>4. SubSeq(m_pattern, 1, m) \o SubSeq(m_pattern, m + 1, i - 1) = SubSeq(m_pattern, 1, i - 1)
            <4>1. /\ m_pattern \in Seq(Alphabet) /\ 1 \in 1 .. Len(m_pattern) + 1
                  /\ m \in 1 - 1 .. Len(m_pattern) /\ i - 1 \in m .. Len(m_pattern)
                BY DEF FormatterTypeOK
            <4> QED BY <4>1, ConcatAdjacentSubSeq
        <3> QED BY <2>1, <3>2, <3>3, <3>4
    <2> QED BY <2>5, <2>6, <2>7
<1> QED BY <1>1, <1>2

\* An item without braces, as a piece of the pattern.
LEMMA NamePiece ==
    ASSUME NEW p \in Seq(Alphabet), NEW j \in 1 .. Len(p), p[j] = "%",
           NEW n \in j + 1 .. Len(p) + 1
    PROVE  /\ SubSeq(p, j + 1, n - 1) \in Seq(Alphabet)
           /\ <<"%">> \o SubSeq(p, j + 1, n - 1) = SubSeq(p, j, n - 1)
           /\ Written(Format(SubSeq(p, j + 1, n - 1), <<>>), FALSE) = SubSeq(p, j, n - 1)
<1> DEFINE s == SubSeq(p, j + 1, n - 1)
<1>1. s \in Seq(Alphabet)
    <2>1. \A k \in j + 1 .. n - 1 : p[k] \in Alphabet OBVIOUS
    <2> QED BY <2>1, SubSeqProperties
<1>2. <<"%">> \o s = SubSeq(p, j, n - 1)
    BY SubSeqRecursiveFirst
<1>3. <<"%">> \in Seq(Alphabet) /\ <<>> \in Seq(Alphabet) BY AlphabetSeqs
<1>4. <<"%">> \o s \in Seq(Alphabet) BY <1>1, <1>3, ConcatProperties
<1> HIDE DEF s
<1>5. Written(Format(s, <<>>), FALSE) = <<"%">> \o s \o <<>>
    BY <1>1, <1>3, WrittenFacts
<1>6. Written(Format(s, <<>>), FALSE) = SubSeq(p, j, n - 1)
    BY <1>2, <1>4, <1>5, ConcatEmptySeq
<1> QED BY <1>1, <1>2, <1>6 DEF s

\* An item with braces, as a piece of the pattern.
LEMMA FormatPiece ==
    ASSUME NEW p \in Seq(Alphabet), NEW j \in 1 .. Len(p), p[j] = "%",
           NEW n \in j + 1 .. Len(p), p[n] = LBrace, NEW q \in n + 1 .. Len(p), p[q] = RBrace
    PROVE  /\ SubSeq(p, n + 1, q - 1) \in Seq(Alphabet)
           /\ Written(Format(SubSeq(p, j + 1, n - 1), SubSeq(p, n + 1, q - 1)), TRUE)
                = SubSeq(p, j, q)
<1> DEFINE s == SubSeq(p, j + 1, n - 1)
           f == SubSeq(p, n + 1, q - 1)
<1>0. /\ Len(p) \in Nat /\ j \in Nat /\ n \in Nat /\ q \in Nat
      /\ 1 <= j /\ j < n /\ n < q /\ q <= Len(p)
    <2>1. Len(p) \in Nat BY LenProperties
    <2>2. j \in Nat /\ 1 <= j BY <2>1
    <2>3. n \in Nat /\ j < n BY <2>1, <2>2
    <2> QED BY <2>1, <2>2, <2>3
<1> USE <1>0
<1>1. f \in Seq(Alphabet)
    <2>1. \A k \in n + 1 .. q - 1 : p[k] \in Alphabet OBVIOUS
    <2> QED BY <2>1, SubSeqProperties
<1>2. s \in Seq(Alphabet) /\ <<"%">> \o s = SubSeq(p, j, n - 1)
    BY NamePiece
<1>3. <<LBrace>> \o f = SubSeq(p, n, q - 1)
    BY SubSeqRecursiveFirst
<1>4. <<LBrace>> \o f \o <<RBrace>> = SubSeq(p, n, q)
    BY <1>3, SubSeqRecursiveSecond
<1>5. SubSeq(p, j, n - 1) \o SubSeq(p, n, q) = SubSeq(p, j, q)
    <2>1. j \in 1 .. Len(p) + 1 /\ n - 1 \in j - 1 .. Len(p) /\ q \in n - 1 .. Len(p) /\ (n - 1) + 1 = n
        OBVIOUS
    <2> HIDE DEF s, f
    <2>2. SubSeq(p, j, n - 1) \o SubSeq(p, (n - 1) + 1, q) = SubSeq(p, j, q)
        BY <2>1, ConcatAdjacentSubSeq
    <2> QED BY <2>1, <2>2
<1> HIDE DEF s, f
<1>6. Written(Format(s, f), TRUE) = <<"%">> \o s \o (<<LBrace>> \o f \o <<RBrace>>)
    BY <1>1, <1>2, WrittenFacts
<1>7. Written(Format(s, f), TRUE) = SubSeq(p, j, q)
    BY <1>2, <1>4, <1>5, <1>6
<1> QED BY <1>1, <1>7 DEF s, f

LEMMA FormatterInitInv == Init => FormatterInv
<1> SUFFICES ASSUME Init PROVE FormatterInv OBVIOUS
<1>1. m_pattern \in Seq(Alphabet)
    <2>1. m_pattern \in Patterns /\ m_pattern \in Seq(Range(m_pattern))
        BY FormatterAssumption DEF Init
    <2>2. Range(m_pattern) \subseteq Alphabet BY <2>1 DEF Alphabet, InPatterns
    <2> QED BY <2>1, <2>2, SeqMonotonic
<1>2. Len(m_pattern) \in Nat BY <1>1, LenProperties
<1>3. <<>> \in Seq(Alphabet) /\ <<>> \in Seq(Entries) BY EmptySeq
<1>4. FormatterTypeOK
    <2>1. i \in 1 .. Len(m_pattern) + 1 BY <1>2 DEF Init
    <2>2. /\ m_error \in BOOLEAN /\ pc \in {"parse", "done"}
          /\ nstr \in Seq(Alphabet) /\ vec \in Seq(Entries) /\ m_items \in Seq(Entries)
        BY <1>3, Zenon DEF Init
    <2> QED BY <1>1, <2>1, <2>2 DEF FormatterTypeOK
<1>5. SpellInv
    <2>1. SubSeq(m_pattern, 1, 0) = <<>> BY SubSeqEmpty
    <2>2. 0 \in 0 .. i - 1 /\ 0 + 1 = 1 /\ i - 1 = 0 BY DEF Init
    <2>3. Spells(vec, SubSeq(m_pattern, 1, 0)) BY <2>1, SpellsNothing DEF Init
    <2>4. nstr = SubSeq(m_pattern, 0 + 1, i - 1) BY <2>1, <2>2 DEF Init
    <2> QED BY <2>2, <2>3, <2>4 DEF SpellInv
<1>6. ErrorInv BY DEF Init, ErrorInv, FollowsOf
<1>7. ErrorExact /\ ItemsFaithful BY DEF Init, ErrorExact, ItemsFaithful
<1> QED BY <1>4, <1>5, <1>6, <1>7 DEF FormatterInv

\* A character goes into the text.
LEMMA CharacterStep ==
    ASSUME FormatterInv, pc = "parse", i <= Len(m_pattern), nstr' = Append(nstr, m_pattern[i]),
           i' = i + 1, UNCHANGED <<m_pattern, m_error, m_items, vec, pc>>
    PROVE  FormatterTypeOK' /\ SpellInv' /\ ErrorExact' /\ ItemsFaithful'
<1>1. /\ m_pattern \in Seq(Alphabet) /\ Len(m_pattern) \in Nat /\ i \in 1 .. Len(m_pattern)
      /\ nstr \in Seq(Alphabet) /\ m_pattern[i] \in Alphabet
    BY DEF FormatterInv, FormatterTypeOK
<1>2. FormatterTypeOK'
    <2>1. nstr' \in Seq(Alphabet) /\ i' \in 1 .. Len(m_pattern) + 1
        BY <1>1, AppendProperties
    <2> QED BY <2>1 DEF FormatterInv, FormatterTypeOK
<1>3. SpellInv'
    <2>0. i' - 1 = i BY <1>1
    <2> SUFFICES ASSUME ~m_error
                 PROVE  \E m \in 0 .. i : /\ Spells(vec, SubSeq(m_pattern, 1, m))
                                          /\ nstr' = SubSeq(m_pattern, m + 1, i)
        BY <2>0, Zenon DEF SpellInv
    <2>1. PICK m \in 0 .. i - 1 : /\ Spells(vec, SubSeq(m_pattern, 1, m))
                                  /\ nstr = SubSeq(m_pattern, m + 1, i - 1)
        BY DEF FormatterInv, SpellInv
    <2>2. m + 1 \in 1 .. Len(m_pattern) /\ i \in m + 1 .. Len(m_pattern) BY <1>1
    <2>3. SubSeq(m_pattern, m + 1, i) = SubSeq(m_pattern, m + 1, i - 1) \o <<m_pattern[i]>>
        BY <1>1, <2>2, SubSeqRecursiveSecond
    <2>4. nstr' = nstr \o <<m_pattern[i]>> BY <1>1, AppendIsConcat
    <2>5. m \in 0 .. i BY <1>1
    <2> QED BY <2>1, <2>3, <2>4, <2>5
<1>4. ErrorExact' BY DEF ErrorExact
<1>5. ItemsFaithful' BY DEF ItemsFaithful
<1> QED BY <1>2, <1>3, <1>4, <1>5

LEMMA LiteralStep ==
    ASSUME FormatterInv, Literal
    PROVE  FormatterInv'
<1>1. /\ pc = "parse" /\ i <= Len(m_pattern) /\ nstr' = Append(nstr, m_pattern[i])
      /\ i' = i + 1 /\ UNCHANGED <<m_pattern, m_error, m_items, vec, pc>> /\ m_pattern[i] # "%"
    BY DEF Literal, At
<1>2. ErrorInv'
    <2> SUFFICES ASSUME NoEscape(m_pattern), NEW f, FollowsOf(f, m_pattern)
                 PROVE  f[1] <=> ~m_error /\ (\A k \in DOMAIN vec : Known(vec[k])) /\ f[i + 1]
        BY <1>1 DEF ErrorInv, Known
    <2>1. f[1] <=> ~m_error /\ (\A k \in DOMAIN vec : Known(vec[k])) /\ f[i]
        BY <1>1 DEF FormatterInv, ErrorInv
    <2>2. Len(m_pattern) \in Nat /\ i \in 1 .. Len(m_pattern) /\ i \in 1 .. Len(m_pattern) + 3
          /\ i + 1 \in 1 .. Len(m_pattern) + 3
        BY <1>1 DEF FormatterInv, FormatterTypeOK
    <2>3. f[i] = Grammar(m_pattern, f, i) /\ f[i + 1] \in BOOLEAN
        BY <2>2 DEF FollowsOf
    <2>4. Grammar(m_pattern, f, i) <=> f[i + 1]
        <3>1. ~(i > Len(m_pattern)) BY <2>2
        <3> QED BY <1>1, <3>1, Zenon DEF Grammar
    <2> QED BY <2>1, <2>3, <2>4
<1>3. FormatterTypeOK' /\ SpellInv' /\ ErrorExact' /\ ItemsFaithful'
    BY <1>1, CharacterStep
<1> QED BY <1>2, <1>3 DEF FormatterInv

LEMMA EscapeStep ==
    ASSUME FormatterInv, Escape
    PROVE  FormatterInv'
<1>1. /\ pc = "parse" /\ i < Len(m_pattern) /\ nstr' = Append(nstr, m_pattern[i])
      /\ i' = i + 1 /\ UNCHANGED <<m_pattern, m_error, m_items, vec, pc>>
      /\ m_pattern[i] = "%" /\ m_pattern[i + 1] = "%"
    BY DEF Escape, At, AtEscape
<1>2. i \in 1 .. Len(m_pattern) - 1 /\ i <= Len(m_pattern)
    BY <1>1 DEF FormatterInv, FormatterTypeOK
<1>3. ~NoEscape(m_pattern)
    <2>1. <<m_pattern[i], m_pattern[i + 1]>> = <<"%", "%">> BY <1>1
    <2> QED BY <1>2, <2>1 DEF NoEscape
<1>4. ErrorInv' BY <1>1, <1>3 DEF ErrorInv
<1>5. FormatterTypeOK' /\ SpellInv' /\ ErrorExact' /\ ItemsFaithful'
    BY <1>1, <1>2, CharacterStep
<1> QED BY <1>4, <1>5 DEF FormatterInv

\* The parser and the grammar agree about an item: that the name is in the
\* table, and where the rest begins.
LEMMA ItemGrammar ==
    ASSUME FormatterTypeOK, i <= Len(m_pattern), m_pattern[i] = "%", ~AtEscape,
           NEW f, FollowsOf(f, m_pattern), NEW g
    PROVE  /\ ~Braced => (f[i] <=> Known(Format(Sub(i + 1, NameEnd - 1), g)) /\ f[NameEnd])
           /\ Braced /\ Closing # {} =>
                (f[i] <=> Known(Format(Sub(i + 1, NameEnd - 1), g)) /\ f[Min(Closing) + 1])
           /\ Braced /\ Closing = {} => ~f[i]
<1> DEFINE p == m_pattern
           C(n) == IF n <= Len(p) THEN p[n] ELSE "end"
           B == \E q \in i + 3 .. Len(p) :
                    p[q] = RBrace /\ (\A r \in i + 3 .. q - 1 : p[r] # RBrace) /\ f[q + 1]
<1>1. /\ p \in Seq(Alphabet) /\ Len(p) \in Nat /\ i \in 1 .. Len(p) /\ i \in Nat
      /\ i \in 1 .. Len(p) + 3 /\ i + 2 \in 1 .. Len(p) + 3
    BY DEF FormatterTypeOK
<1>2. /\ NameEnd \in i + 1 .. Len(p) + 1
      /\ NameEnd <= Len(p) => p[NameEnd] \notin Letters \union {RBrace}
      /\ \A n \in i + 1 .. NameEnd - 1 : p[n] \in Letters \union {RBrace}
    BY NameEndFacts
<1>3. Known(Format(Sub(i + 1, NameEnd - 1), g)) <=> NameEnd = i + 2 /\ p[i + 1] \in Items
    <2>1. \A k \in i + 1 .. NameEnd - 1 : p[k] \in Alphabet BY <1>1, <1>2
    <2>2. i + 1 \in Int /\ NameEnd - 1 \in Int BY <1>1, <1>2
    <2>3. /\ Len(Sub(i + 1, NameEnd - 1)) = IF i + 1 <= NameEnd - 1 THEN (NameEnd - 1) - (i + 1) + 1 ELSE 0
          /\ \A k \in 1 .. (NameEnd - 1) - (i + 1) + 1 : Sub(i + 1, NameEnd - 1)[k] = p[(i + 1) + k - 1]
        BY <2>1, <2>2, SubSeqProperties DEF Sub
    <2>4. Len(Sub(i + 1, NameEnd - 1)) = 1 <=> NameEnd = i + 2
        <3>1. \A a, n \in Nat : (IF a + 1 <= n - 1 THEN (n - 1) - (a + 1) + 1 ELSE 0) = 1 <=> n = a + 2
            OBVIOUS
        <3>2. NameEnd \in Nat BY <1>1, <1>2
        <3> HIDE DEF p
        <3> QED BY <1>1, <2>3, <3>1, <3>2
    <2>5. NameEnd = i + 2 => Sub(i + 1, NameEnd - 1)[1] = p[i + 1]
        BY <1>1, <1>2, <2>3
    <2>6. /\ Format(Sub(i + 1, NameEnd - 1), g).type = 1
          /\ Format(Sub(i + 1, NameEnd - 1), g).str = Sub(i + 1, NameEnd - 1)
        BY DEF Format
    <2> QED BY <2>4, <2>5, <2>6, Zenon DEF Known
<1>4. C(i + 1) # "%"
    BY <1>1, Braces DEF AtEscape
<1>5. f[i] <=> C(i + 1) \in Items /\ (IF C(i + 2) = LBrace THEN B
                                      ELSE C(i + 2) \notin Letters \union {RBrace} /\ f[i + 2])
    <2>1. f[i] = Grammar(p, f, i) BY <1>1 DEF FollowsOf
    <2>2. ~(i > Len(p)) /\ C(i) = "%" BY <1>1
    <2> QED BY <1>4, <2>1, <2>2, Zenon DEF Grammar
<1>6. Items \subseteq Letters /\ "%" \notin Letters /\ LBrace \notin Letters /\ RBrace \notin Letters /\ "end" \notin Letters
    BY FormatterAssumption
<1>7. NameEnd # i + 2 \/ p[i + 1] \notin Items => ~f[i]
    <2> SUFFICES ASSUME f[i] PROVE NameEnd = i + 2 /\ p[i + 1] \in Items OBVIOUS
    <2>1. i + 1 <= Len(p) /\ p[i + 1] \in Items /\ C(i + 2) \notin Letters \union {RBrace}
        BY <1>1, <1>5, <1>6, Braces
    <2>2. NameEnd # i + 1 BY <1>2, <1>6, <2>1
    <2>3. ~(i + 2 \in i + 1 .. NameEnd - 1)
        BY <1>1, <1>2, <2>1
    <2> QED BY <1>1, <1>2, <2>1, <2>2, <2>3
<1>8. CASE NameEnd # i + 2 \/ p[i + 1] \notin Items
    BY <1>3, <1>7, <1>8
<1>9. CASE NameEnd = i + 2 /\ p[i + 1] \in Items
    <2>1. i + 1 <= Len(p) /\ C(i + 1) = p[i + 1] BY <1>1, <1>2, <1>9
    <2>2. C(i + 2) \notin Letters \union {RBrace} BY <1>1, <1>2, <1>6, <1>9, Braces
    <2>3. Braced <=> C(i + 2) = LBrace BY <1>1, <1>9, Braces DEF Braced
    <2>4. CASE ~Braced
        BY <1>3, <1>5, <1>9, <2>1, <2>2, <2>3, <2>4
    <2>5. CASE Braced /\ Closing = {}
        <3>1. ~B BY <1>1, <1>9, <2>5 DEF Closing
        <3> QED BY <1>5, <2>3, <2>5, <3>1
    <2>6. CASE Braced /\ Closing # {}
        <3>1. /\ Min(Closing) \in i + 3 .. Len(p) /\ p[Min(Closing)] = RBrace
              /\ \A n \in i + 3 .. Min(Closing) - 1 : p[n] # RBrace
            BY <1>1, <1>9, <2>6, ClosingFacts
        <3>2. ASSUME NEW q \in i + 3 .. Len(p), p[q] = RBrace, \A r \in i + 3 .. q - 1 : p[r] # RBrace
              PROVE  q = Min(Closing)
            <4>1. ~(q \in i + 3 .. Min(Closing) - 1) BY <3>1, <3>2
            <4>2. ~(Min(Closing) \in i + 3 .. q - 1) BY <3>1, <3>2
            <4> QED BY <1>1, <3>1, <4>1, <4>2
        <3>3. B <=> f[Min(Closing) + 1] BY <3>1, <3>2
        <3> QED BY <1>3, <1>5, <1>9, <2>1, <2>3, <2>6, <3>3
    <2> QED BY <2>4, <2>5, <2>6
<1> QED BY <1>8, <1>9

\* An item is pushed, and the text in front of it before it.
LEMMA PushStep ==
    ASSUME FormatterInv, pc = "parse", i <= Len(m_pattern),
           NEW s \in Seq(Alphabet), NEW g \in Seq(Alphabet), NEW c \in BOOLEAN,
           NEW next \in i + 1 .. Len(m_pattern) + 1, PushFormat(s, g, next),
           Written(Format(s, g), c) = SubSeq(m_pattern, i, next - 1),
           \A f : FollowsOf(f, m_pattern) => (f[i] <=> Known(Format(s, g)) /\ f[next])
    PROVE  FormatterInv'
<1>1. /\ vec' = Append(Flushed, Format(s, g)) /\ nstr' = <<>> /\ i' = next
      /\ UNCHANGED <<m_pattern, m_error, m_items, pc>>
    BY DEF PushFormat
<1>2. /\ m_pattern \in Seq(Alphabet) /\ Len(m_pattern) \in Nat /\ i \in 1 .. Len(m_pattern)
      /\ next \in 1 .. Len(m_pattern) + 1
    BY DEF FormatterInv, FormatterTypeOK
<1>3. /\ Flushed \in Seq(Entries)
      /\ (\A k \in DOMAIN Flushed : Known(Flushed[k])) <=> (\A k \in DOMAIN vec : Known(vec[k]))
      /\ ~m_error => Spells(Flushed, SubSeq(m_pattern, 1, i - 1))
    BY FlushedFacts DEF FormatterInv
<1>4. Format(s, g) \in Entries BY WrittenFacts
<1>5. /\ vec' \in Seq(Entries) /\ DOMAIN Flushed = 1 .. Len(Flushed) /\ Len(Flushed) \in Nat
      /\ DOMAIN vec' = 1 .. Len(Flushed) + 1 /\ vec'[Len(Flushed) + 1] = Format(s, g)
      /\ \A k \in 1 .. Len(Flushed) : vec'[k] = Flushed[k]
    BY <1>1, <1>3, <1>4, AppendProperties, LenProperties
<1>6. FormatterTypeOK'
    <2>1. <<>> \in Seq(Alphabet) BY EmptySeq
    <2> QED BY <1>1, <1>2, <1>5, <2>1 DEF FormatterInv, FormatterTypeOK
<1>7. SpellInv'
    <2> SUFFICES ASSUME ~m_error
                 PROVE  \E m \in 0 .. next - 1 : /\ Spells(vec', SubSeq(m_pattern, 1, m))
                                                 /\ nstr' = SubSeq(m_pattern, m + 1, next - 1)
        BY <1>1, Zenon DEF SpellInv
    <2>1. Spells(vec', SubSeq(m_pattern, 1, i - 1) \o SubSeq(m_pattern, i, next - 1))
        BY <1>1, <1>3, <1>4, SpellsAppend
    <2>2. SubSeq(m_pattern, 1, i - 1) \o SubSeq(m_pattern, i, next - 1) = SubSeq(m_pattern, 1, next - 1)
        <3>1. /\ 1 \in 1 .. Len(m_pattern) + 1 /\ i - 1 \in 1 - 1 .. Len(m_pattern)
              /\ next - 1 \in i - 1 .. Len(m_pattern) /\ (i - 1) + 1 = i
            BY <1>2
        <3>2. SubSeq(m_pattern, 1, i - 1) \o SubSeq(m_pattern, (i - 1) + 1, next - 1)
                    = SubSeq(m_pattern, 1, next - 1)
            BY <1>2, <3>1, ConcatAdjacentSubSeq
        <3> QED BY <3>1, <3>2
    <2>3. next - 1 \in 0 .. next - 1 /\ (next - 1) + 1 > next - 1 /\ next - 1 \in Int BY <1>2
    <2>4. SubSeq(m_pattern, (next - 1) + 1, next - 1) = <<>> BY <2>3, SubSeqEmpty
    <2> QED BY <1>1, <2>1, <2>2, <2>3, <2>4
<1>8. ErrorInv'
    <2> SUFFICES ASSUME NoEscape(m_pattern), NEW f, FollowsOf(f, m_pattern)
                 PROVE  f[1] <=> ~m_error /\ (\A k \in DOMAIN vec' : Known(vec'[k])) /\ f[next]
        BY <1>1 DEF ErrorInv, Known
    <2>1. f[1] <=> ~m_error /\ (\A k \in DOMAIN vec : Known(vec[k])) /\ f[i]
        BY DEF FormatterInv, ErrorInv
    <2>2. 1 .. Len(Flushed) + 1 = 1 .. Len(Flushed) \union {Len(Flushed) + 1} BY <1>5
    <2>3. (\A k \in DOMAIN vec' : Known(vec'[k])) <=>
                (\A k \in DOMAIN Flushed : Known(Flushed[k])) /\ Known(Format(s, g))
        BY <1>5, <2>2
    <2>4. f[i] <=> Known(Format(s, g)) /\ f[next]
        OBVIOUS
    <2> QED BY <1>3, <2>1, <2>3, <2>4
<1>9. ErrorExact' BY <1>1 DEF ErrorExact
<1>10. ItemsFaithful' BY <1>1 DEF ItemsFaithful
<1> QED BY <1>6, <1>7, <1>8, <1>9, <1>10 DEF FormatterInv

LEMMA NameStep ==
    ASSUME FormatterInv, Name \/ NameAndFormat
    PROVE  FormatterInv'
<1>1. pc = "parse" /\ i <= Len(m_pattern) /\ m_pattern[i] = "%" /\ ~AtEscape
    BY DEF Name, NameAndFormat, At
<1>2. /\ FormatterTypeOK /\ m_pattern \in Seq(Alphabet) /\ Len(m_pattern) \in Nat
      /\ i \in 1 .. Len(m_pattern) /\ i \in Nat
    BY <1>1 DEF FormatterInv, FormatterTypeOK
<1>3. NameEnd \in i + 1 .. Len(m_pattern) + 1
    BY <1>1, <1>2, NameEndFacts
<1>4. /\ Sub(i + 1, NameEnd - 1) \in Seq(Alphabet)
      /\ Written(Format(Sub(i + 1, NameEnd - 1), <<>>), FALSE) = SubSeq(m_pattern, i, NameEnd - 1)
    BY <1>1, <1>2, <1>3, NamePiece DEF Sub
<1>5. CASE Name
    <2>1. ~Braced /\ PushFormat(Sub(i + 1, NameEnd - 1), <<>>, NameEnd) BY <1>5 DEF Name
    <2>2. <<>> \in Seq(Alphabet) BY EmptySeq
    <2>3. \A f : FollowsOf(f, m_pattern) =>
                (f[i] <=> Known(Format(Sub(i + 1, NameEnd - 1), <<>>)) /\ f[NameEnd])
        BY <1>1, <1>2, <2>1, ItemGrammar
    <2> QED BY <1>1, <1>3, <1>4, <2>1, <2>2, <2>3, PushStep
<1>6. CASE NameAndFormat
    <2> DEFINE q == Min(Closing)
               g == Sub(NameEnd + 1, q - 1)
    <2>1. Braced /\ Closing # {} /\ PushFormat(Sub(i + 1, NameEnd - 1), g, q + 1)
        BY <1>6 DEF NameAndFormat
    <2>2. q \in NameEnd + 1 .. Len(m_pattern) /\ m_pattern[q] = RBrace
        BY <1>1, <1>2, <2>1, ClosingFacts
    <2>3. NameEnd \in i + 1 .. Len(m_pattern) /\ m_pattern[NameEnd] = LBrace
        BY <1>2, <1>3, <2>1 DEF Braced
    <2>4. /\ g \in Seq(Alphabet)
          /\ Written(Format(Sub(i + 1, NameEnd - 1), g), TRUE) = SubSeq(m_pattern, i, q)
        BY <1>1, <1>2, <2>2, <2>3, FormatPiece DEF Sub
    <2>5. \A f : FollowsOf(f, m_pattern) =>
                (f[i] <=> Known(Format(Sub(i + 1, NameEnd - 1), g)) /\ f[q + 1])
        BY <1>1, <1>2, <2>1, ItemGrammar
    <2> HIDE DEF g, q
    <2>6. q + 1 \in i + 1 .. Len(m_pattern) + 1 /\ (q + 1) - 1 = q BY <1>2, <1>3, <2>2
    <2>7. Written(Format(Sub(i + 1, NameEnd - 1), g), TRUE) = SubSeq(m_pattern, i, (q + 1) - 1)
        BY <2>4, <2>6
    <2> QED BY <1>1, <1>4, <2>1, <2>4, <2>5, <2>6, <2>7, PushStep
<1> QED BY <1>5, <1>6

LEMMA OpenBraceStep ==
    ASSUME FormatterInv, OpenBrace
    PROVE  FormatterInv'
<1>1. /\ pc = "parse" /\ i <= Len(m_pattern) /\ m_pattern[i] = "%" /\ ~AtEscape
      /\ Braced /\ Closing = {} /\ m_error' = TRUE /\ i' = i + 1
      /\ vec' = Append(vec, Text(<<"pattern_error">>)) /\ UNCHANGED <<m_pattern, m_items, nstr, pc>>
    BY DEF OpenBrace, At
<1>2. FormatterTypeOK'
    <2>1. /\ vec \in Seq(Entries) /\ Len(m_pattern) \in Nat /\ i \in 1 .. Len(m_pattern)
        BY <1>1 DEF FormatterInv, FormatterTypeOK
    <2>2. Text(<<"pattern_error">>) \in Entries BY AlphabetSeqs, WrittenFacts
    <2>3. vec' \in Seq(Entries) BY <1>1, <2>1, <2>2, AppendProperties
    <2>4. i' \in 1 .. Len(m_pattern) + 1 BY <1>1, <2>1
    <2> QED BY <1>1, <2>3, <2>4 DEF FormatterInv, FormatterTypeOK
<1>3. SpellInv' BY <1>1 DEF SpellInv
<1>4. ErrorInv'
    <2> SUFFICES ASSUME NoEscape(m_pattern), NEW f, FollowsOf(f, m_pattern)
                 PROVE  ~f[1]
        BY <1>1, Zenon DEF ErrorInv
    <2>1. ~f[i] BY <1>1, ItemGrammar DEF FormatterInv
    <2>2. f[1] => f[i] BY <1>1 DEF FormatterInv, ErrorInv
    <2> QED BY <2>1, <2>2
<1>5. ErrorExact' /\ ItemsFaithful' BY <1>1 DEF ErrorExact, ItemsFaithful
<1> QED BY <1>2, <1>3, <1>4, <1>5 DEF FormatterInv

LEMMA BuildStep ==
    ASSUME FormatterInv, Build
    PROVE  FormatterInv'
<1> DEFINE F == Flushed
<1>1. /\ pc = "parse" /\ i > Len(m_pattern)
      /\ m_items' = [k \in DOMAIN F |-> IF Known(F[k]) THEN F[k] ELSE Text(<<"error_format">>)]
      /\ m_error' = (m_error \/ \E k \in DOMAIN F : ~Known(F[k]))
      /\ vec' = F /\ nstr' = <<>> /\ pc' = "done" /\ UNCHANGED <<m_pattern, i>>
    BY DEF Build
<1>2. /\ F \in Seq(Entries)
      /\ (\A k \in DOMAIN F : Known(F[k])) <=> (\A k \in DOMAIN vec : Known(vec[k]))
      /\ ~m_error => Spells(F, SubSeq(m_pattern, 1, i - 1))
    BY <1>1, FlushedFacts DEF FormatterInv
<1>3. /\ m_pattern \in Seq(Alphabet) /\ Len(m_pattern) \in Nat /\ i = Len(m_pattern) + 1
    BY <1>1 DEF FormatterInv, FormatterTypeOK
<1> HIDE DEF F
<1>4. DOMAIN F = 1 .. Len(F) /\ Len(F) \in Nat BY <1>2, LenProperties
<1>5. FormatterTypeOK'
    <2>1. Text(<<"error_format">>) \in Entries BY AlphabetSeqs, WrittenFacts
    <2>2. \A k \in 1 .. Len(F) : F[k] \in Entries BY <1>2
    <2>3. m_items' \in [1 .. Len(F) -> Entries] BY <1>1, <1>4, <2>1, <2>2
    <2>4. m_items' \in Seq(Entries) BY <1>4, <2>3, FunctionIsSeq
    <2>5. <<>> \in Seq(Alphabet) BY EmptySeq
    <2>6. m_error' \in BOOLEAN BY <1>1, Zenon DEF FormatterInv, FormatterTypeOK
    <2> QED BY <1>1, <1>2, <1>3, <2>4, <2>5, <2>6 DEF FormatterInv, FormatterTypeOK
<1>6. SpellInv' /\ ErrorInv' BY <1>1 DEF SpellInv, ErrorInv
<1>7. ErrorExact'
    <2> SUFFICES ASSUME NoEscape(m_pattern) PROVE m_error' <=> ~WellFormed(m_pattern)
        BY <1>1, Zenon DEF ErrorExact
    <2>1. PICK f : FollowsOf(f, m_pattern) /\ WellFormed(m_pattern) = f[1]
        BY <1>3, WellFormedFollows
    <2>2. f[1] <=> ~m_error /\ (\A k \in DOMAIN vec : Known(vec[k])) /\ f[i]
        BY <1>1, <2>1 DEF FormatterInv, ErrorInv
    <2>3. f[i]
        <3>1. i \in 1 .. Len(m_pattern) + 3 BY <1>3
        <3> QED BY <1>1, <2>1, <3>1, Zenon DEF FollowsOf, Grammar
    <2> QED BY <1>1, <1>2, <2>1, <2>2, <2>3
<1>8. ItemsFaithful'
    <2> SUFFICES ASSUME ~m_error', NoEscape(m_pattern) PROVE Spells(m_items', m_pattern)
        BY <1>1, Zenon DEF ItemsFaithful, Spells
    <2>1. ~m_error /\ \A k \in DOMAIN F : Known(F[k]) BY <1>1
    <2>2. m_items' = F
        <3>1. F = [k \in DOMAIN F |-> F[k]] BY <1>2, <1>4
        <3> QED BY <1>1, <2>1, <3>1
    <2>3. SubSeq(m_pattern, 1, i - 1) = m_pattern
        <3>1. i - 1 = Len(m_pattern) BY <1>3
        <3> QED BY <1>3, <3>1, SubSeqFull
    <2> QED BY <1>2, <2>1, <2>2, <2>3
<1> QED BY <1>5, <1>6, <1>7, <1>8 DEF FormatterInv

LEMMA FormatterInvStep == FormatterInv /\ [Next]_vars => FormatterInv'
<1> SUFFICES ASSUME FormatterInv, [Next]_vars PROVE FormatterInv' OBVIOUS
<1>1. CASE UNCHANGED vars
    <2> USE <1>1 DEF vars
    <2>1. FormatterTypeOK' BY DEF FormatterInv, FormatterTypeOK
    <2>2. SpellInv' BY Zenon DEF FormatterInv, SpellInv
    <2>3. ErrorInv' BY Zenon DEF FormatterInv, ErrorInv
    <2>4. ErrorExact' BY Zenon DEF FormatterInv, ErrorExact
    <2>5. ItemsFaithful' BY Zenon DEF FormatterInv, ItemsFaithful
    <2> QED BY <2>1, <2>2, <2>3, <2>4, <2>5 DEF FormatterInv
<1> QED
    BY <1>1, LiteralStep, EscapeStep, NameStep, OpenBraceStep, BuildStep DEF Next

LEMMA FormatterInvariance == FormatterSpec => []FormatterInv
BY FormatterInitInv, FormatterInvStep, PTL DEF FormatterSpec

\* isError is exact, for patterns of every length without "%%": LogFormatter::init
\* reports an error if and only if the pattern does not follow its grammar, so
\* that setFormatter and the listener refuse no good pattern and take no bad one.
THEOREM ErrorsAreExact == FormatterSpec => []ErrorExact
BY FormatterInvariance, PTL DEF FormatterInv

\* The items LogFormatter::init makes of an accepted pattern of any length
\* without "%%", written down again, are the pattern: its loop loses, doubles or moves nothing.
THEOREM NothingIsLost == FormatterSpec => []ItemsFaithful
BY FormatterInvariance, PTL DEF FormatterInv

-----------------------------------------------------------------------------
(* The casts.                                                              *)

\* The values a text can have.
Values == {ElementOf[x] : x \in Scalars} \ {Thrown}

CastTypeOK ==
    /\ kind \in {"scalar", "vector", "set", "map"}
    /\ kind = "scalar" => value \in Values
    /\ kind = "vector" => value \in Seq(Values)
    /\ kind = "set" => value \in SUBSET Values /\ IsFiniteSet(value)
    /\ kind = "map" => value \in [DOMAIN value -> Values] /\ IsFiniteSet(DOMAIN value)

\* The image of a finite set.
LEMMA FiniteImage ==
    ASSUME NEW f, IsFiniteSet(DOMAIN f)
    PROVE  IsFiniteSet({f[x] : x \in DOMAIN f})
<1> DEFINE T == {f[x] : x \in DOMAIN f}
           g == [x \in DOMAIN f |-> f[x]]
<1>1. g \in Surjection(DOMAIN f, T)
    BY DEF Surjection
<1> QED BY <1>1, FS_Surjection

\* A document of the elements of a set has each of them once.
LEMMA SetInSequence ==
    ASSUME NEW S, IsFiniteSet(S), NEW s \in SetToSeqs(S)
    PROVE  \E n \in Nat : /\ s \in [1 .. n -> S]
                          /\ \A j, k \in 1 .. n : j # k => s[j] # s[k]
                          /\ \A x \in S : \E k \in 1 .. n : s[k] = x
<1> DEFINE n == Cardinality(S)
<1>1. n \in Nat BY FS_CardinalityType
<1>2. s \in [1 .. n -> S] /\ \A j, k \in 1 .. n : j # k => s[j] # s[k]
    BY DEF SetToSeqs
<1>3. s \in Injection(1 .. n, S) BY <1>2 DEF Injection, IsInjective
<1>4. Cardinality(1 .. n) = n BY <1>1, FS_Interval
<1> HIDE DEF n
<1>5. s \in Surjection(1 .. n, S) BY <1>3, <1>4, FS_Injection DEF n
<1> QED BY <1>1, <1>2, <1>5 DEF Surjection

\* All items with keys of their own are inserted.
LEMMA InsertedAll ==
    ASSUME NEW n \in Nat, NEW keys, DOMAIN keys = 1 .. n,
           \A j, k \in 1 .. n : j # k => keys[j] # keys[k]
    PROVE  Inserted(keys) = 1 .. n
<1>1. ASSUME NEW j \in 1 .. n, NEW h \in 1 .. j - 1 PROVE keys[h] # keys[j]
    <2>1. h \in 1 .. n /\ h # j OBVIOUS
    <2> QED BY <2>1
<1> QED BY <1>1 DEF Inserted

LEMMA TextOfFacts ==
    ASSUME NEW v \in Values
    PROVE  TextOf(v) \in Scalars /\ ElementOf[TextOf(v)] = v
<1>1. \E x \in Scalars : ElementOf[x] = v BY DEF Values
<1> QED BY <1>1, Zenon DEF TextOf

LEMMA ListedFacts ==
    ASSUME NEW s
    PROVE  Listed(s).items = s
BY DEF Listed

\* What Cast and Texts are for each kind of variable.
LEMMA CastCases ==
    ASSUME NEW d, NEW v
    PROVE  /\ Cast("scalar", d) = Element(d.scalar) /\ Texts("scalar", v) = {Scalar(TextOf(v))}
           /\ Cast("vector", d) = SeqCast(Elements(d)) /\ Texts("vector", v) = {SeqText(v)}
           /\ Cast("set", d) = SetCast(Elements(d), Elements(d))
           /\ Texts("set", v) = SetTexts({TextOf(n) : n \in v})
           /\ Cast("map", d) = MapCast(MapElements(d), KeysOf(d)) /\ Texts("map", v) = MapTexts(v)
BY DEF Cast, Texts

LEMMA ScalarStable ==
    ASSUME NEW v \in Values, NEW d \in Texts("scalar", v)
    PROVE  Cast("scalar", d) = v
<1>1. d = Scalar(TextOf(v)) BY CastCases
<1>2. d.scalar = TextOf(v) BY <1>1 DEF Scalar
<1> QED BY <1>2, CastCases, TextOfFacts DEF Element

LEMMA VectorStable ==
    ASSUME NEW v \in Seq(Values), NEW d \in Texts("vector", v)
    PROVE  Cast("vector", d) = v
<1>1. d = SeqText(v) BY CastCases
<1>2. d.items = [k \in DOMAIN v |-> TextOf(v[k])] BY <1>1, ListedFacts DEF SeqText
<1>3. \A k \in DOMAIN v : v[k] \in Values OBVIOUS
<1>4. Elements(d) = [k \in DOMAIN v |-> ElementOf[TextOf(v[k])]]
    BY <1>2 DEF Elements, Element
<1>5. \A k \in DOMAIN v : ElementOf[TextOf(v[k])] = v[k] BY <1>3, TextOfFacts
<1>6. Elements(d) = v
    <2>1. v = [k \in DOMAIN v |-> v[k]] OBVIOUS
    <2> QED BY <1>4, <1>5, <2>1, Zenon
<1>7. Thrown \notin Range(v) BY <1>3 DEF Range, Values
<1> QED BY <1>6, <1>7, CastCases DEF SeqCast

LEMMA SetStable ==
    ASSUME NEW v \in SUBSET Values, IsFiniteSet(v), NEW d \in Texts("set", v)
    PROVE  Cast("set", d) = v
<1> DEFINE T == {TextOf(x) : x \in v}
           t == [x \in v |-> TextOf(x)]
<1>1. IsFiniteSet(T)
    <2>1. DOMAIN t = v /\ T = {t[x] : x \in DOMAIN t} OBVIOUS
    <2> HIDE DEF T, t
    <2> QED BY <2>1, FiniteImage
<1>2. d \in SetTexts(T) BY CastCases
<1> HIDE DEF T, t
<1>3. PICK s \in SetToSeqs(T) : d = Listed(s) BY <1>2 DEF SetTexts
<1>4. PICK n \in Nat : /\ s \in [1 .. n -> T]
                       /\ \A j, k \in 1 .. n : j # k => s[j] # s[k]
                       /\ \A x \in T : \E k \in 1 .. n : s[k] = x
    BY <1>1, SetInSequence
<1>5. \A y \in T : ElementOf[y] \in v /\ TextOf(ElementOf[y]) = y
    <2>1. \A x \in v : ElementOf[TextOf(x)] = x BY TextOfFacts
    <2> QED BY <2>1 DEF T
<1> DEFINE e == Elements(d)
<1>6. e = [k \in 1 .. n |-> ElementOf[s[k]]]
    BY <1>3, <1>4, ListedFacts DEF Elements, Element
<1>7. /\ DOMAIN e = 1 .. n /\ \A k \in 1 .. n : e[k] = ElementOf[s[k]] /\ e[k] \in v
    BY <1>4, <1>5, <1>6
<1> HIDE DEF e
<1>8. \A j, k \in 1 .. n : j # k => e[j] # e[k]
    <2> SUFFICES ASSUME NEW j \in 1 .. n, NEW k \in 1 .. n, e[j] = e[k] PROVE s[j] = s[k]
        BY <1>4
    <2> QED BY <1>4, <1>5, <1>7
<1>9. Inserted(e) = 1 .. n BY <1>7, <1>8, InsertedAll
<1>10. Thrown \notin Range(e) BY <1>7 DEF Range, Values
<1>11. {e[k] : k \in 1 .. n} = v
    <2>1. ASSUME NEW x \in v PROVE \E k \in 1 .. n : e[k] = x
        <3>1. TextOf(x) \in T /\ ElementOf[TextOf(x)] = x BY TextOfFacts DEF T
        <3> QED BY <1>4, <1>7, <3>1
    <2> QED BY <1>7, <2>1
<1> QED BY <1>9, <1>10, <1>11, CastCases DEF SetCast, SetOf, e

LEMMA MapStable ==
    ASSUME NEW v, v \in [DOMAIN v -> Values], IsFiniteSet(DOMAIN v), NEW d \in Texts("map", v)
    PROVE  Cast("map", d) = v
<1> DEFINE t == [x \in DOMAIN v |-> [key |-> x, val |-> TextOf(v[x])]]
           T == {[key |-> x, val |-> TextOf(v[x])] : x \in DOMAIN v}
<1>1. IsFiniteSet(T)
    <2>1. DOMAIN t = DOMAIN v /\ T = {t[x] : x \in DOMAIN t} OBVIOUS
    <2> HIDE DEF T, t
    <2> QED BY <2>1, FiniteImage
<1>2. PICK s \in SetToSeqs(T) : d = Listed(s) BY CastCases DEF MapTexts, SetTexts
<1>3. \A y \in T : /\ y.key \in DOMAIN v /\ y = [key |-> y.key, val |-> TextOf(v[y.key])]
                   /\ ElementOf[y.val] = v[y.key]
    <2>1. \A x \in DOMAIN v : v[x] \in Values OBVIOUS
    <2>2. \A x \in DOMAIN v : ElementOf[TextOf(v[x])] = v[x] BY <2>1, TextOfFacts
    <2> QED BY <2>2
<1>4. ASSUME NEW x \in DOMAIN v PROVE \E y \in T : y.key = x
    <2>1. [key |-> x, val |-> TextOf(v[x])] \in T OBVIOUS
    <2>2. [key |-> x, val |-> TextOf(v[x])].key = x OBVIOUS
    <2> QED BY <2>1, <2>2
<1> HIDE DEF T, t
<1>5. PICK n \in Nat : /\ s \in [1 .. n -> T]
                       /\ \A j, k \in 1 .. n : j # k => s[j] # s[k]
                       /\ \A x \in T : \E k \in 1 .. n : s[k] = x
    BY <1>1, SetInSequence
<1> DEFINE e == MapElements(d)
           keys == KeysOf(d)
<1>6. e = [k \in 1 .. n |-> ElementOf[s[k].val]] /\ keys = [k \in 1 .. n |-> s[k].key]
    BY <1>2, <1>5, ListedFacts DEF MapElements, Element, KeysOf
<1>7. /\ DOMAIN e = 1 .. n /\ DOMAIN keys = 1 .. n
      /\ \A k \in 1 .. n : keys[k] = s[k].key /\ keys[k] \in DOMAIN v /\ e[k] = v[keys[k]]
    BY <1>3, <1>5, <1>6
<1> HIDE DEF e, keys
<1>8. \A j, k \in 1 .. n : j # k => keys[j] # keys[k]
    <2> SUFFICES ASSUME NEW j \in 1 .. n, NEW k \in 1 .. n, keys[j] = keys[k] PROVE s[j] = s[k]
        BY <1>5
    <2>1. s[j].key = s[k].key BY <1>7
    <2> QED BY <1>3, <1>5, <2>1
<1>9. Inserted(keys) = 1 .. n BY <1>7, <1>8, InsertedAll
<1>10. Thrown \notin Range(e) BY <1>7 DEF Range, Values
<1>11. Range(keys) = DOMAIN v
    <2>1. ASSUME NEW x \in DOMAIN v PROVE \E k \in 1 .. n : keys[k] = x
        <3>1. PICK y \in T : y.key = x BY <1>4
        <3> QED BY <1>5, <1>7, <3>1
    <2> QED BY <1>7, <2>1 DEF Range
<1>12. ASSUME NEW x \in DOMAIN v
       PROVE  e[CHOOSE k \in Inserted(keys) : keys[k] = x] = v[x]
    <2>1. \E k \in 1 .. n : keys[k] = x BY <1>7, <1>11 DEF Range
    <2>2. PICK k : k = CHOOSE h \in 1 .. n : keys[h] = x OBVIOUS
    <2>3. k \in 1 .. n /\ keys[k] = x BY <2>1, <2>2, Zenon
    <2> QED BY <1>7, <1>9, <2>2, <2>3
<1>13. MapCast(e, keys) = [x \in DOMAIN v |-> e[CHOOSE k \in Inserted(keys) : keys[k] = x]]
    BY <1>10, <1>11, Zenon DEF MapCast
<1>14. MapCast(e, keys) = [x \in DOMAIN v |-> v[x]]
    <2> DEFINE G(x) == e[CHOOSE k \in Inserted(keys) : keys[k] = x]
    <2>1. \A x \in DOMAIN v : G(x) = v[x] BY <1>12
    <2>2. MapCast(e, keys) = [x \in DOMAIN v |-> G(x)] BY <1>13
    <2> HIDE DEF G
    <2> QED BY <2>1, <2>2
<1>15. v = [x \in DOMAIN v |-> v[x]] OBVIOUS
<1>16. Cast("map", d) = MapCast(e, keys) BY CastCases DEF e, keys
<1> QED BY <1>14, <1>15, <1>16, Zenon

LEMMA StableText == CastTypeOK => TextStable
<1> SUFFICES ASSUME CastTypeOK, NEW d \in Texts(kind, value) PROVE Cast(kind, d) = value
    BY DEF TextStable
<1>1. CASE kind = "scalar" BY <1>1, ScalarStable DEF CastTypeOK
<1>2. CASE kind = "vector" BY <1>2, VectorStable DEF CastTypeOK
<1>3. CASE kind = "set" BY <1>3, SetStable DEF CastTypeOK
<1>4. CASE kind = "map" BY <1>4, MapStable DEF CastTypeOK
<1> QED BY <1>1, <1>2, <1>3, <1>4 DEF CastTypeOK

LEMMA CastInitType == CastInit => CastTypeOK
<1> SUFFICES ASSUME CastInit PROVE CastTypeOK OBVIOUS
<1>1. kind \in {"scalar", "vector", "set", "map"} BY LexicalCastAssumption DEF CastInit
<1>2. CASE kind = "scalar"
    <2>1. value = 0 BY <1>2 DEF CastInit
    <2>2. 0 \in Values BY LexicalCastAssumption DEF Values
    <2> QED BY <1>2, <2>1, <2>2 DEF CastTypeOK
<1>3. CASE kind = "vector"
    <2>1. value = <<>> BY <1>3 DEF CastInit
    <2> QED BY <1>3, <2>1, EmptySeq DEF CastTypeOK
<1>4. CASE kind = "set"
    <2>1. value = {} BY <1>4 DEF CastInit
    <2> QED BY <1>4, <2>1, FS_EmptySet DEF CastTypeOK
<1>5. CASE kind = "map"
    <2>1. value = [x \in {} |-> 0] BY <1>5 DEF CastInit
    <2>2. DOMAIN value = {} /\ value \in [{} -> Values] BY <2>1
    <2> QED BY <1>5, <2>2, FS_EmptySet DEF CastTypeOK
<1> QED BY <1>1, <1>2, <1>3, <1>4, <1>5

\* The items of a document of a container are a sequence, and its scalars are
\* texts.
LEMMA DocumentFacts ==
    ASSUME NEW k, NEW d \in CastDocuments(k)
    PROVE  /\ k = "scalar" => d.scalar \in Scalars
           /\ k \in {"vector", "set"} => \E n \in Nat : d.items \in [1 .. n -> Scalars]
           /\ k = "map" => \E n \in Nat : d.items \in [1 .. n -> [key : MapKeys, val : Scalars]]
<1> DEFINE seqs(S) == {Listed(s) : s \in UNION {[1 .. n -> S] : n \in 0 .. MaxItems}}
<1>0. ASSUME NEW S, NEW e \in seqs(S) PROVE \E n \in Nat : e.items \in [1 .. n -> S]
    <2>1. PICK s \in UNION {[1 .. n -> S] : n \in 0 .. MaxItems} : e = Listed(s) BY <1>0
    <2>2. PICK n \in 0 .. MaxItems : s \in [1 .. n -> S] BY <2>1
    <2>3. n \in Nat BY LexicalCastAssumption
    <2> QED BY <2>1, <2>2, <2>3, ListedFacts
<1> HIDE DEF seqs
<1>1. CASE k = "scalar"
    <2>1. d \in {Scalar(x) : x \in Scalars} BY <1>1 DEF CastDocuments
    <2> QED BY <1>1, <2>1 DEF Scalar
<1>2. CASE k = "map"
    <2>1. d \in seqs([key : MapKeys, val : Scalars]) BY <1>2 DEF CastDocuments, seqs
    <2> QED BY <1>0, <1>2, <2>1
<1>3. CASE k \in {"vector", "set"}
    <2>1. d \in seqs(Scalars) \union {Scalar(x) : x \in Scalars} BY <1>3 DEF CastDocuments, seqs
    <2>2. ASSUME d \in {Scalar(x) : x \in Scalars} PROVE d.items \in [1 .. 0 -> Scalars]
        <3>1. d.items = <<>> BY <2>2 DEF Scalar
        <3> QED BY <3>1
    <2> QED BY <1>0, <1>3, <2>1, <2>2
<1> QED BY <1>1, <1>2, <1>3

LEMMA CastStep == CastTypeOK /\ [CastNext]_castVars => CastTypeOK'
<1> SUFFICES ASSUME CastTypeOK, [CastNext]_castVars PROVE CastTypeOK' OBVIOUS
<1>1. CASE UNCHANGED castVars BY <1>1 DEF castVars, CastTypeOK
<1>2. ASSUME NEW d \in CastDocuments(kind), FromString(d) PROVE CastTypeOK'
    <2>1. kind' = kind BY <1>2 DEF FromString
    <2>2. CASE Cast(kind, d) = Thrown
        <3>1. value' = value BY <1>2, <2>2 DEF FromString
        <3> QED BY <2>1, <3>1 DEF CastTypeOK
    <2>3. CASE Cast(kind, d) # Thrown
        <3>1. value' = Cast(kind, d) BY <1>2, <2>3 DEF FromString
        <3>2. CASE kind = "scalar"
            <4>1. d.scalar \in Scalars BY <1>2, <3>2, DocumentFacts
            <4>2. value' \in Values BY <2>3, <3>1, <3>2, <4>1, CastCases DEF Values, Element
            <4> QED BY <2>1, <3>2, <4>2 DEF CastTypeOK
        <3>3. CASE kind \in {"vector", "set"}
            <4>1. PICK n \in Nat : d.items \in [1 .. n -> Scalars] BY <1>2, <3>3, DocumentFacts
            <4> DEFINE e == Elements(d)
            <4>2. e = [k \in 1 .. n |-> ElementOf[d.items[k]]] BY <4>1 DEF Elements, Element
            <4> HIDE DEF e
            <4>3. Thrown \notin Range(e) BY <2>3, <3>3, CastCases DEF SeqCast, SetCast, SetOf, e
            <4>4. e \in [1 .. n -> Values]
                <5>1. \A k \in 1 .. n : e[k] # Thrown BY <4>2, <4>3 DEF Range
                <5>2. \A k \in 1 .. n : e[k] = ElementOf[d.items[k]] /\ d.items[k] \in Scalars BY <4>1, <4>2
                <5> QED BY <4>2, <5>1, <5>2 DEF Values
            <4>5. CASE kind = "vector"
                <5>1. value' = e BY <3>1, <4>3, <4>5, CastCases DEF SeqCast, e
                <5>2. e \in Seq(Values) BY <4>4, FunctionIsSeq
                <5> QED BY <2>1, <4>5, <5>1, <5>2 DEF CastTypeOK
            <4>6. CASE kind = "set"
                <5>1. value' = {e[k] : k \in Inserted(e)} BY <3>1, <4>3, <4>6, CastCases DEF SetCast, SetOf, e
                <5>2. Inserted(e) \subseteq 1 .. n BY <4>4 DEF Inserted
                <5>3. IsFiniteSet({e[k] : k \in DOMAIN e})
                    <6>1. IsFiniteSet(1 .. n) BY FS_Interval
                    <6> QED BY <4>4, <6>1, FiniteImage
                <5>4. value' \in SUBSET {e[k] : k \in DOMAIN e} BY <4>4, <5>1, <5>2
                <5>5. IsFiniteSet(value') BY <5>3, <5>4, FS_Subset
                <5>6. value' \in SUBSET Values BY <4>4, <5>1, <5>2
                <5> QED BY <2>1, <4>6, <5>5, <5>6 DEF CastTypeOK
            <4> QED BY <3>3, <4>5, <4>6
        <3>4. CASE kind = "map"
            <4>1. PICK n \in Nat : d.items \in [1 .. n -> [key : MapKeys, val : Scalars]]
                BY <1>2, <3>4, DocumentFacts
            <4> DEFINE e == MapElements(d)
                       keys == KeysOf(d)
            <4>2. /\ e = [k \in 1 .. n |-> ElementOf[d.items[k].val]]
                  /\ keys = [k \in 1 .. n |-> d.items[k].key]
                BY <4>1 DEF MapElements, Element, KeysOf
            <4> HIDE DEF e, keys
            <4>3. Thrown \notin Range(e) /\ value' = MapCast(e, keys)
                BY <2>3, <3>1, <3>4, CastCases DEF MapCast, e, keys
            <4>4. \A k \in 1 .. n : e[k] \in Values
                <5>1. \A k \in 1 .. n : e[k] # Thrown BY <4>2, <4>3 DEF Range
                <5>2. \A k \in 1 .. n : d.items[k].val \in Scalars BY <4>1
                <5> QED BY <4>2, <5>1, <5>2 DEF Values
            <4>5. value' = [x \in Range(keys) |-> e[CHOOSE k \in Inserted(keys) : keys[k] = x]]
                BY <4>3 DEF MapCast
            <4>6. ASSUME NEW x \in Range(keys)
                  PROVE  e[CHOOSE k \in Inserted(keys) : keys[k] = x] \in Values
                <5>1. DOMAIN keys = 1 .. n BY <4>2
                <5> DEFINE S == {k \in 1 .. n : keys[k] = x}
                <5>2. S # {} /\ S \subseteq Nat BY <5>1 DEF Range
                <5>3. PICK j \in S : \A h \in S : j <= h BY <5>2, LeastNat
                <5>4. j \in Inserted(keys) /\ keys[j] = x
                    <6>1. ASSUME NEW h \in 1 .. j - 1 PROVE keys[h] # keys[j]
                        <7>1. h \in 1 .. n /\ ~(j <= h) BY <5>3
                        <7> QED BY <5>3, <7>1
                    <6> QED BY <5>1, <5>3, <6>1 DEF Inserted
                <5>5. PICK c : c = CHOOSE k \in Inserted(keys) : keys[k] = x OBVIOUS
                <5>6. c \in Inserted(keys) BY <5>4, <5>5
                <5>7. c \in 1 .. n BY <5>1, <5>6 DEF Inserted
                <5> QED BY <4>4, <5>5, <5>7
            <4>7. value' \in [Range(keys) -> Values] BY <4>5, <4>6
            <4>8. IsFiniteSet(Range(keys))
                <5>1. IsFiniteSet(1 .. n) BY FS_Interval
                <5>2. DOMAIN keys = 1 .. n BY <4>2
                <5>3. IsFiniteSet({keys[k] : k \in DOMAIN keys}) BY <5>1, <5>2, FiniteImage
                <5> QED BY <5>3 DEF Range
            <4>9. DOMAIN value' = Range(keys) BY <4>7
            <4> QED BY <2>1, <3>4, <4>7, <4>8, <4>9 DEF CastTypeOK
        <3> QED BY <3>2, <3>3, <3>4 DEF CastTypeOK
    <2> QED BY <2>2, <2>3
<1> QED BY <1>1, <1>2 DEF CastNext

LEMMA CastTypeInvariance == CastSpec => []CastTypeOK
BY CastInitType, CastStep, PTL DEF CastSpec

\* toString and fromString agree: for scalars, vectors, sets and maps of every
\* size, and in whatever order a container is walked through, the text written
\* is read back as the value, whatever documents were loaded before.
THEOREM TextsAreStable == CastSpec => []TextStable
BY CastTypeInvariance, StableText, PTL

-----------------------------------------------------------------------------
(* The loggers, dumped and restored.                                       *)

IsSequence(s) == s \in Seq(Range(s))

Good(p) == p # None /\ p \notin BadFormats

\* The record has the fields of an appender, and they are in order.
GoodAppender(a) ==
    /\ a = [type |-> a.type, file |-> a.file, level |-> a.level, formatter |-> a.formatter]
    /\ a.level \in 0 .. 5 /\ Good(a.formatter)
    /\ \/ a.type = "StdoutLogAppender" /\ a.file = None
       \/ a.type = "FileLogAppender" /\ a.file # None

GoodLogger(n, l) ==
    /\ l = [name |-> n, level |-> l.level, formatter |-> l.formatter, appenders |-> l.appenders]
    /\ l.level \in 0 .. 5 /\ Good(l.formatter)
    /\ IsSequence(l.appenders) /\ \A k \in DOMAIN l.appenders : GoodAppender(l.appenders[k])

GoodLogs(L) ==
    /\ "root" \in DOMAIN L /\ None \notin DOMAIN L /\ IsFiniteSet(DOMAIN L)
    /\ \A n \in DOMAIN L : GoodLogger(n, L[n])

\* A definition whose appenders the listener can make.
GoodDefine(d) ==
    /\ d.level \in 0 .. 5 /\ IsSequence(d.appenders)
    /\ \A k \in DOMAIN d.appenders : \E a : ValidAppender(a) /\ d.appenders[k] = AppenderFrom(a)

\* A process has good loggers; what it was dumped to is a dump of them.
LogYamlInv ==
    /\ process \in {"boot", "running"} => GoodLogs(logs)
    /\ process = "dumped" => GoodLogs(was) /\ logs = Boot /\ dump \in Dumps(was)
    /\ DumpRestores

-----------------------------------------------------------------------------
\* A function on 1 .. n, and what is appended to it.
LEMMA SequenceFacts ==
    ASSUME NEW n \in Nat, NEW f, DOMAIN f = 1 .. n, f = [k \in 1 .. n |-> f[k]]
    PROVE  IsSequence(f) /\ Len(f) = n
<1>1. f \in [1 .. n -> Range(f)] BY DEF Range
<1> QED BY <1>1, FunctionIsSeq DEF IsSequence

LEMMA SequenceDomain ==
    ASSUME NEW s, IsSequence(s)
    PROVE  Len(s) \in Nat /\ DOMAIN s = 1 .. Len(s) /\ s = [k \in 1 .. Len(s) |-> s[k]]
BY LenProperties DEF IsSequence

LEMMA MapSequence ==
    ASSUME NEW s, IsSequence(s), NEW t, DOMAIN t = DOMAIN s, t = [k \in DOMAIN s |-> t[k]]
    PROVE  IsSequence(t)
BY SequenceDomain, SequenceFacts

LEMMA AppendSequence ==
    ASSUME NEW s, IsSequence(s), NEW e
    PROVE  /\ IsSequence(Append(s, e))
           /\ \A k \in DOMAIN Append(s, e) : Append(s, e)[k] = e \/ (k \in DOMAIN s /\ Append(s, e)[k] = s[k])
<1> DEFINE X == Range(s) \union {e}
           t == Append(s, e)
<1>1. s \in Seq(X) BY SeqMonotonic DEF IsSequence
<1>2. e \in X OBVIOUS
<1> HIDE DEF X
<1>3. /\ t \in Seq(X) /\ Len(t) = Len(s) + 1 /\ t[Len(s) + 1] = e
      /\ \A k \in 1 .. Len(s) : t[k] = s[k]
    BY <1>1, <1>2, AppendProperties
<1>4. Len(s) \in Nat /\ DOMAIN s = 1 .. Len(s) /\ DOMAIN t = 1 .. Len(s) + 1
    BY <1>1, <1>3, LenProperties
<1>5. t = [k \in 1 .. Len(s) + 1 |-> t[k]] BY <1>3, <1>4, LenProperties
<1> HIDE DEF t
<1>6. IsSequence(t) BY <1>4, <1>5, SequenceFacts
<1>7. \A k \in 1 .. Len(s) + 1 : k = Len(s) + 1 \/ k \in 1 .. Len(s) BY <1>4
<1> QED BY <1>3, <1>4, <1>6, <1>7 DEF t

LEMMA LevelFacts ==
    /\ \A x : LevelFrom(x) \in 0 .. 5
    /\ \A n \in 0 .. 5 : LevelFrom(LevelTo(n)) = n
<1>1. ASSUME NEW x PROVE LevelFrom(x) \in 0 .. 5
    <2>1. CASE \E k \in 1 .. 5 : x \in {LevelNames[k], Lower[k]}
        <3>1. PICK c : c = CHOOSE k \in 1 .. 5 : x \in {LevelNames[k], Lower[k]} OBVIOUS
        <3>2. c \in 1 .. 5 BY <2>1, <3>1
        <3>3. LevelFrom(x) = c BY <2>1, <3>1 DEF LevelFrom
        <3> QED BY <3>2, <3>3
    <2>2. CASE ~\E k \in 1 .. 5 : x \in {LevelNames[k], Lower[k]}
        BY <2>2 DEF LevelFrom
    <2> QED BY <2>1, <2>2
<1>2. LevelFrom(LevelTo(0)) = 0
    BY LogYamlAssumption DEF LevelFrom, LevelTo
<1>3. \A j, k \in 1 .. 5 : j # k => LevelNames[j] # LevelNames[k]
    BY DEF LevelNames
<1>4. \A j, k \in 1 .. 5 : LevelNames[j] # Lower[k]
    BY DEF LevelNames, Lower
<1>5. ASSUME NEW n \in 1 .. 5 PROVE LevelFrom(LevelTo(n)) = n
    <2>1. LevelTo(n) = LevelNames[n] BY DEF LevelTo
    <2>2. \A k \in 1 .. 5 : LevelNames[n] \in {LevelNames[k], Lower[k]} <=> k = n
        BY <1>3, <1>4
    <2>3. PICK c : c = CHOOSE k \in 1 .. 5 : LevelNames[n] \in {LevelNames[k], Lower[k]} OBVIOUS
    <2>4. c = n BY <2>2, <2>3
    <2>5. LevelFrom(LevelNames[n]) = c BY <2>2, <2>3 DEF LevelFrom
    <2> QED BY <2>1, <2>4, <2>5
<1>6. \A n \in 0 .. 5 : n = 0 \/ n \in 1 .. 5 OBVIOUS
<1> QED BY <1>1, <1>2, <1>5, <1>6

\* A new logger is good.
LEMMA NewLoggerGood ==
    ASSUME NEW n, n # None
    PROVE  GoodLogger(n, NewLogger(n))
<1>1. Good(DefaultFormat) BY LogYamlAssumption DEF Good
<1>2. GoodAppender(StdoutAppender) BY <1>1 DEF StdoutAppender, GoodAppender
<1>3. GoodAppender(FileAppender(n)) BY <1>1 DEF FileAppender, GoodAppender
<1> DEFINE A == <<StdoutAppender, FileAppender(n)>>
           B == A \o A
<1>4. IsSequence(A) /\ \A k \in DOMAIN A : GoodAppender(A[k])
    <2>1. DOMAIN A = 1 .. 2 /\ A = [k \in 1 .. 2 |-> A[k]] OBVIOUS
    <2>2. IsSequence(A) BY <2>1, SequenceFacts
    <2>3. A[1] = StdoutAppender /\ A[2] = FileAppender(n) /\ \A k \in 1 .. 2 : k = 1 \/ k = 2 OBVIOUS
    <2> HIDE DEF A
    <2> QED BY <1>2, <1>3, <2>1, <2>2, <2>3
<1>5. Len(A) = 2 OBVIOUS
<1>6. IsSequence(B) /\ \A k \in DOMAIN B : GoodAppender(B[k])
    <2> HIDE DEF A
    <2>1. A \in Seq(Range(A)) BY <1>4 DEF IsSequence
    <2>2. /\ A \o A \in Seq(Range(A)) /\ Len(A \o A) = Len(A) + Len(A)
           /\ \A k \in 1 .. Len(A) + Len(A) : (A \o A)[k] = IF k <= Len(A) THEN A[k] ELSE A[k - Len(A)]
        BY <2>1, ConcatProperties
    <2>3. Len(A) + Len(A) = 4 BY <1>5
    <2>4. /\ B \in Seq(Range(A)) /\ Len(B) = 4
          /\ \A k \in 1 .. 4 : B[k] = IF k <= 2 THEN A[k] ELSE A[k - 2]
        BY <1>5, <2>2, <2>3
    <2>5. DOMAIN B = 1 .. 4 /\ B = [k \in 1 .. 4 |-> B[k]] BY <2>4, LenProperties
    <2> HIDE DEF B
    <2>6. IsSequence(B) BY <2>5, SequenceFacts
    <2>7. DOMAIN A = 1 .. 2 BY <1>4, <1>5, SequenceDomain
    <2>8. ASSUME NEW k \in 1 .. 4 PROVE GoodAppender(B[k])
        <3>1. k <= 2 => k \in 1 .. 2 OBVIOUS
        <3>2. ~(k <= 2) => k - 2 \in 1 .. 2 OBVIOUS
        <3> QED BY <1>4, <2>4, <2>7, <3>1, <3>2
    <2> QED BY <2>5, <2>6, <2>8
<1> HIDE DEF A, B
<1>7. PICK C : C = IF n = "root" THEN B ELSE A OBVIOUS
<1>8. NewLogger(n) = [name |-> n, level |-> 1, formatter |-> DefaultFormat, appenders |-> C]
    BY <1>7 DEF NewLogger, A, B
<1>9. IsSequence(C) /\ \A k \in DOMAIN C : GoodAppender(C[k]) BY <1>4, <1>6, <1>7
<1> QED BY <1>1, <1>8, <1>9 DEF GoodLogger

LEMMA BootGood == GoodLogs(Boot)
<1>1. DOMAIN Boot = {"root"} /\ Boot["root"] = NewLogger("root") BY DEF Boot
<1>2. "root" # None BY LogYamlAssumption
<1>3. IsFiniteSet({"root"}) BY FS_Singleton
<1> QED BY <1>1, <1>2, <1>3, NewLoggerGood DEF GoodLogs

\* What is read of a definition, the listener can make.
LEMMA DefineFromGood ==
    ASSUME NEW d, IsSequence(d.appenders)
    PROVE  GoodDefine(DefineFrom(d)) /\ DefineFrom(d).name = d.name
<1> DEFINE D == d.appenders
           X == {AppenderFrom(D[k]) : k \in {j \in DOMAIN D : ValidAppender(D[j])}}
           ss == [k \in DOMAIN D |-> IF ValidAppender(D[k]) THEN <<AppenderFrom(D[k])>> ELSE <<>>]
           A == FlattenSeq(ss)
<1>1. DefineFrom(d) = [name |-> d.name, level |-> LevelFrom(d.level), formatter |-> d.formatter, appenders |-> A]
    BY DEF DefineFrom
<1>2. A \in Seq(X)
    <2>1. \A x \in X : <<x>> \in Seq(X) OBVIOUS
    <2>2. <<>> \in Seq(X) BY EmptySeq
    <2>3. ASSUME NEW k \in DOMAIN D PROVE ss[k] \in Seq(X)
        <3>1. CASE ValidAppender(D[k])
            <4>1. AppenderFrom(D[k]) \in X BY <3>1
            <4>2. ss[k] = <<AppenderFrom(D[k])>> BY <3>1
            <4> HIDE DEF X, ss
            <4> QED BY <2>1, <4>1, <4>2
        <3>2. CASE ~ValidAppender(D[k])
            <4>1. ss[k] = <<>> BY <3>2
            <4> HIDE DEF X, ss
            <4> QED BY <2>2, <4>1
        <3> QED BY <3>1, <3>2
    <2>4. ss \in [DOMAIN D -> Seq(X)]
        <3> HIDE DEF X
        <3> QED BY <2>3
    <2>5. Len(D) \in Nat /\ DOMAIN D = 1 .. Len(D) BY SequenceDomain
    <2> HIDE DEF X, ss, D
    <2>6. ss \in Seq(Seq(X)) BY <2>4, <2>5, FunctionIsSeq
    <2> QED BY <2>6, FlattenType
<1>3. \A x \in X : \E a : ValidAppender(a) /\ x = AppenderFrom(a) OBVIOUS
<1> HIDE DEF A, X
<1>4. Len(A) \in Nat /\ DOMAIN A = 1 .. Len(A) /\ A = [k \in 1 .. Len(A) |-> A[k]]
    BY <1>2, LenProperties
<1>5. IsSequence(A) BY <1>4, SequenceFacts
<1>6. \A k \in DOMAIN A : A[k] \in X BY <1>2, <1>4
<1>7. LevelFrom(d.level) \in 0 .. 5 BY LevelFacts
<1> QED BY <1>1, <1>3, <1>5, <1>6, <1>7 DEF GoodDefine

LEMMA OrElseGood ==
    ASSUME NEW p, NEW q, Good(q)
    PROVE  Good(OrElse(p, q)) /\ (Good(p) => OrElse(p, q) = p)
BY DEF Good, OrElse

\* The listener leaves a logger in order.
LEMMA ConfiguredGood ==
    ASSUME NEW n, NEW l, GoodLogger(n, l), NEW d, GoodDefine(d)
    PROVE  GoodLogger(n, Configured(l, d))
<1> DEFINE p == OrElse(d.formatter, l.formatter)
           D == d.appenders
           A == [k \in DOMAIN D |-> [D[k] EXCEPT !.formatter = OrElse(@, p)]]
<1>1. Good(p) BY OrElseGood DEF GoodLogger
<1>2. l.name = n BY DEF GoodLogger
<1>3. Configured(l, d) = [name |-> n, level |-> d.level, formatter |-> p, appenders |-> A]
    BY <1>2 DEF Configured
<1> HIDE DEF p
<1>4. IsSequence(A)
    <2>1. IsSequence(D) BY DEF GoodDefine
    <2>2. DOMAIN A = DOMAIN D /\ A = [k \in DOMAIN D |-> A[k]] OBVIOUS
    <2> HIDE DEF A, D
    <2> QED BY <2>1, <2>2, MapSequence
<1>5. ASSUME NEW k \in DOMAIN D PROVE GoodAppender(A[k])
    <2>1. PICK a : ValidAppender(a) /\ D[k] = AppenderFrom(a) BY DEF GoodDefine
    <2>2. PICK f : f = IF a.type = "FileLogAppender" THEN a.file ELSE None OBVIOUS
    <2>3. D[k] = [type |-> a.type, file |-> f, level |-> 0, formatter |-> a.formatter]
        BY <2>1, <2>2 DEF AppenderFrom
    <2>4. PICK q : q = OrElse(a.formatter, p) OBVIOUS
    <2>5. A[k] = [D[k] EXCEPT !.formatter = OrElse(@, p)] OBVIOUS
    <2> HIDE DEF A, D
    <2>6. A[k] = [type |-> a.type, file |-> f, level |-> 0, formatter |-> q]
        BY <2>3, <2>4, <2>5
    <2>7. Good(q) BY <1>1, <2>4, OrElseGood
    <2>8. \/ a.type = "StdoutLogAppender" /\ f = None
          \/ a.type = "FileLogAppender" /\ f # None
        BY <2>1, <2>2 DEF ValidAppender
    <2> QED BY <2>6, <2>7, <2>8 DEF GoodAppender
<1>6. \A k \in DOMAIN A : GoodAppender(A[k]) BY <1>5
<1>7. d.level \in 0 .. 5 BY DEF GoodDefine
<1> HIDE DEF A, D
<1> QED BY <1>1, <1>3, <1>4, <1>6, <1>7 DEF GoodLogger

LEMMA getLoggerGood ==
    ASSUME NEW L, GoodLogs(L), NEW n, n # None
    PROVE  GoodLogger(n, getLogger(L, n))
BY NewLoggerGood DEF getLogger, GoodLogs

\* setValue leaves the loggers in order.
LEMMA ApplyGood ==
    ASSUME NEW L, GoodLogs(L), NEW S, IsFiniteSet({d.name : d \in S}),
           \A d \in S : GoodDefine(d) /\ d.name # None
    PROVE  GoodLogs(Apply(L, S))
<1> DEFINE N == {d.name : d \in S}
           A == Apply(L, S)
           U == DOMAIN L \union N
<1>1. DOMAIN A = U BY DEF Apply
<1>2. "root" \in U /\ None \notin U BY DEF GoodLogs
<1>3. IsFiniteSet(U)
    <2>1. IsFiniteSet(DOMAIN L) BY DEF GoodLogs
    <2> HIDE DEF N
    <2> QED BY <2>1, FS_Union DEF N
<1>4. ASSUME NEW n \in U PROVE GoodLogger(n, A[n])
    <2>1. CASE \E d \in S : d.name = n
        <3>1. PICK d : d = CHOOSE e \in S : e.name = n OBVIOUS
        <3>2. d \in S BY <2>1, <3>1
        <3>3. A[n] = Configured(getLogger(L, n), d) BY <2>1, <3>1 DEF Apply
        <3>4. GoodLogger(n, getLogger(L, n)) BY <1>2, getLoggerGood
        <3> QED BY <3>2, <3>3, <3>4, ConfiguredGood
    <2>2. CASE ~\E d \in S : d.name = n
        <3>1. n \in DOMAIN L BY <2>2
        <3>2. A[n] = L[n] BY <2>2 DEF Apply
        <3> QED BY <3>1, <3>2 DEF GoodLogs
    <2> QED BY <2>1, <2>2
<1> HIDE DEF A, U
<1> QED BY <1>1, <1>2, <1>3, <1>4 DEF GoodLogs, A

\* Loading a document does.
LEMMA LoadGood ==
    ASSUME NEW L, GoodLogs(L), NEW doc, IsSequence(doc.items),
           \A k \in DOMAIN doc.items : IsSequence(doc.items[k].appenders)
    PROVE  GoodLogs(LoadLogs(L, doc))
<1>1. CASE \E k \in DOMAIN doc.items : Throws(doc.items[k])
    BY <1>1 DEF LoadLogs
<1>2. CASE ~\E k \in DOMAIN doc.items : Throws(doc.items[k])
    <2> DEFINE D == doc.items
               f == [k \in DOMAIN D |-> DefineFrom(D[k])]
               keys == [k \in DOMAIN D |-> D[k].name]
               S == SetOf(f, keys)
    <2>1. LoadLogs(L, doc) = Apply(L, S) BY <1>2 DEF LoadLogs, LogsFrom
    <2>2. \A k \in DOMAIN D : D[k].name # None BY <1>2 DEF Throws
    <2>3. ASSUME NEW d \in S
          PROVE  \E k \in DOMAIN D : d = DefineFrom(D[k])
        <3>1. PICK k \in Inserted(keys) : d = f[k] BY DEF SetOf
        <3>2. k \in DOMAIN D BY DEF Inserted
        <3> QED BY <3>1, <3>2
    <2>4. \A d \in S : GoodDefine(d) /\ d.name # None /\ \E k \in DOMAIN D : d.name = keys[k]
        <3> SUFFICES ASSUME NEW d \in S
                     PROVE  GoodDefine(d) /\ d.name # None /\ \E k \in DOMAIN D : d.name = keys[k]
            OBVIOUS
        <3> HIDE DEF S
        <3>1. PICK k \in DOMAIN D : d = DefineFrom(D[k]) BY <2>3
        <3>2. GoodDefine(d) /\ d.name = D[k].name BY <3>1, DefineFromGood
        <3> QED BY <2>2, <3>2
    <2>5. IsFiniteSet({d.name : d \in S})
        <3>1. Len(D) \in Nat /\ DOMAIN D = 1 .. Len(D) BY SequenceDomain
        <3>2. IsFiniteSet(DOMAIN D) BY <3>1, FS_Interval
        <3>3. DOMAIN keys = DOMAIN D OBVIOUS
        <3> HIDE DEF keys, S, D
        <3>4. IsFiniteSet({keys[k] : k \in DOMAIN keys}) BY <3>2, <3>3, FiniteImage
        <3>5. {d.name : d \in S} \subseteq {keys[k] : k \in DOMAIN keys} BY <2>4, <3>3
        <3> QED BY <3>4, <3>5, FS_Subset
    <2> HIDE DEF S
    <2> QED BY <2>1, <2>4, <2>5, ApplyGood
<1> QED BY <1>1, <1>2

\* One logger, changed and still in order.
LEMMA OneChanged ==
    ASSUME NEW L, GoodLogs(L), NEW n \in DOMAIN L, NEW l, GoodLogger(n, l)
    PROVE  GoodLogs([L EXCEPT ![n] = l])
BY DEF GoodLogs

\* What the application does leaves the loggers in order.
LEMMA ChangeGood ==
    ASSUME GoodLogs(logs), NEW n \in LogNames, Change(n)
    PROVE  GoodLogs(logs')
<1>1. n # None BY LogYamlAssumption
<1>2. CASE n \notin DOMAIN logs
    <2> DEFINE U == DOMAIN logs \union {n}
    <2>1. logs' = [m \in U |-> getLogger(logs, m)] BY <1>2 DEF Change
    <2>2. "root" \in U /\ None \notin U BY <1>1 DEF GoodLogs
    <2>3. IsFiniteSet(U)
        <3>1. IsFiniteSet(DOMAIN logs) /\ IsFiniteSet({n}) BY FS_Singleton DEF GoodLogs
        <3> QED BY <3>1, FS_Union
    <2>4. \A m \in U : GoodLogger(m, getLogger(logs, m)) BY <2>2, getLoggerGood
    <2> HIDE DEF U
    <2> QED BY <2>1, <2>2, <2>3, <2>4 DEF GoodLogs
<1>3. CASE n \in DOMAIN logs
    <2>1. GoodLogger(n, logs[n]) BY <1>3 DEF GoodLogs
    <2>2. PICK l : l = logs[n] OBVIOUS
    <2>3. l = [name |-> n, level |-> l.level, formatter |-> l.formatter, appenders |-> l.appenders]
        BY <2>1, <2>2 DEF GoodLogger
    <2>4. Good(OwnFormat) /\ Good(l.formatter) BY <2>1, <2>2, LogYamlAssumption DEF Good, GoodLogger
    <2>5. ASSUME NEW v \in 0 .. 5, logs' = [logs EXCEPT ![n].level = v] PROVE GoodLogs(logs')
        <3> DEFINE m == [name |-> n, level |-> v, formatter |-> l.formatter, appenders |-> l.appenders]
        <3>1. [l EXCEPT !.level = v] = m BY <2>3
        <3>2. logs' = [logs EXCEPT ![n] = m] BY <2>2, <2>5, <3>1
        <3>3. GoodLogger(n, m) BY <2>1, <2>2 DEF GoodLogger
        <3> HIDE DEF m
        <3> QED BY <1>3, <3>2, <3>3, OneChanged
    <2>6. ASSUME logs' = [logs EXCEPT ![n].formatter = OwnFormat] PROVE GoodLogs(logs')
        <3> DEFINE m == [name |-> n, level |-> l.level, formatter |-> OwnFormat, appenders |-> l.appenders]
        <3>1. [l EXCEPT !.formatter = OwnFormat] = m BY <2>3
        <3>2. logs' = [logs EXCEPT ![n] = m] BY <2>2, <2>6, <3>1
        <3>3. GoodLogger(n, m) BY <2>1, <2>2, <2>4 DEF GoodLogger
        <3> HIDE DEF m
        <3> QED BY <1>3, <3>2, <3>3, OneChanged
    <2>7. ASSUME NEW p,
                 logs' = [logs EXCEPT ![n].appenders =
                            Append(@, [FileAppender("own") EXCEPT !.formatter = OrElse(p, logs[n].formatter)])]
          PROVE  GoodLogs(logs')
        <3>1. PICK q : q = OrElse(p, l.formatter) OBVIOUS
        <3> DEFINE e == [type |-> "FileLogAppender", file |-> "own", level |-> 1, formatter |-> q]
                   A == Append(l.appenders, e)
                   m == [name |-> n, level |-> l.level, formatter |-> l.formatter, appenders |-> A]
        <3>2. [FileAppender("own") EXCEPT !.formatter = q] = e BY DEF FileAppender
        <3>3. GoodAppender(e)
            <4>1. Good(q) BY <2>4, <3>1, OrElseGood
            <4>2. "own" # None BY LogYamlAssumption
            <4> QED BY <4>1, <4>2 DEF GoodAppender
        <3>4. logs' = [logs EXCEPT ![n].appenders = Append(@, e)] BY <2>2, <2>7, <3>1, <3>2
        <3> HIDE DEF e
        <3>5. [l EXCEPT !.appenders = Append(@, e)] = m BY <2>3
        <3>6. logs' = [logs EXCEPT ![n] = m] BY <2>2, <3>4, <3>5
        <3>7. IsSequence(l.appenders) /\ \A k \in DOMAIN l.appenders : GoodAppender(l.appenders[k])
            BY <2>1, <2>2 DEF GoodLogger
        <3>8. IsSequence(A) /\ \A k \in DOMAIN A : GoodAppender(A[k])
            BY <3>3, <3>7, AppendSequence
        <3> HIDE DEF A
        <3>9. GoodLogger(n, m) BY <2>1, <2>2, <3>8 DEF GoodLogger
        <3> HIDE DEF m
        <3> QED BY <1>3, <3>6, <3>9, OneChanged
    <2>8. ASSUME logs' = [logs EXCEPT ![n].appenders = <<>>] PROVE GoodLogs(logs')
        <3> DEFINE m == [name |-> n, level |-> l.level, formatter |-> l.formatter, appenders |-> <<>>]
        <3>1. [l EXCEPT !.appenders = <<>>] = m BY <2>3
        <3>2. logs' = [logs EXCEPT ![n] = m] BY <2>2, <2>8, <3>1
        <3>3. IsSequence(<<>>) /\ DOMAIN <<>> = {} BY EmptySeq DEF IsSequence
        <3>4. GoodLogger(n, m) BY <2>1, <2>2, <3>3 DEF GoodLogger
        <3> HIDE DEF m
        <3> QED BY <1>3, <3>2, <3>4, OneChanged
    <2> QED BY <1>3, <2>5, <2>6, <2>7, <2>8 DEF Change
<1> QED BY <1>2, <1>3

-----------------------------------------------------------------------------
(* What the dump of a logger is read as.                                   *)

NoLevel(a) == [type |-> a.type, file |-> a.file, level |-> 0, formatter |-> a.formatter]

\* A logger in order, without the levels of its appenders.
LEMMA BareLogger ==
    ASSUME NEW n, NEW l, GoodLogger(n, l)
    PROVE  NoAppenderLevels(l) = [name |-> n, level |-> l.level, formatter |-> l.formatter,
                                  appenders |-> [k \in DOMAIN l.appenders |-> NoLevel(l.appenders[k])]]
<1> DEFINE A == l.appenders
           B == [k \in DOMAIN A |-> [A[k] EXCEPT !.level = 0]]
           C == [k \in DOMAIN A |-> NoLevel(A[k])]
<1>1. \A k \in DOMAIN A : [A[k] EXCEPT !.level = 0] = NoLevel(A[k])
    <2> SUFFICES ASSUME NEW k \in DOMAIN A PROVE [A[k] EXCEPT !.level = 0] = NoLevel(A[k])
        OBVIOUS
    <2>1. PICK a : a = A[k] OBVIOUS
    <2>2. a = [type |-> a.type, file |-> a.file, level |-> a.level, formatter |-> a.formatter]
        BY <2>1 DEF GoodLogger, GoodAppender
    <2>3. [a EXCEPT !.level = 0] = NoLevel(a) BY <2>2 DEF NoLevel
    <2> QED BY <2>1, <2>3
<1>2. B = C BY <1>1, Zenon
<1>3. NoAppenderLevels(l) = [l EXCEPT !.appenders = B] BY DEF NoAppenderLevels
<1>4. l = [name |-> n, level |-> l.level, formatter |-> l.formatter, appenders |-> A]
    BY DEF GoodLogger
<1> HIDE DEF B, C, A
<1>5. [l EXCEPT !.appenders = B] = [name |-> n, level |-> l.level, formatter |-> l.formatter, appenders |-> B]
    BY <1>4
<1> QED BY <1>2, <1>3, <1>5 DEF A, C

\* What is read of its node.
LEMMA ReadBack ==
    ASSUME NEW n, NEW l, GoodLogger(n, l)
    PROVE  DefineFrom(DefineTo(l)) = NoAppenderLevels(l)
<1> DEFINE A == l.appenders
           T == [k \in DOMAIN A |-> AppenderTo(A[k])]
           C == [k \in DOMAIN A |-> NoLevel(A[k])]
           node == [name |-> n, level |-> LevelTo(l.level), formatter |-> l.formatter, appenders |-> T]
           ss == [k \in DOMAIN A |-> <<C[k]>>]
<1>1. l.name = n BY DEF GoodLogger
<1>2. DefineTo(l) = node BY <1>1 DEF DefineTo
<1>3. ASSUME NEW k \in DOMAIN A PROVE ValidAppender(T[k]) /\ AppenderFrom(T[k]) = NoLevel(A[k])
    <2>1. PICK a : a = A[k] OBVIOUS
    <2>2. GoodAppender(a) BY <2>1 DEF GoodLogger
    <2>3. T[k] = [type |-> a.type, file |-> a.file, level |-> LevelTo(a.level), formatter |-> a.formatter]
        BY <2>1 DEF AppenderTo
    <2> HIDE DEF T, A
    <2>4. ValidAppender(T[k]) BY <2>2, <2>3 DEF ValidAppender, GoodAppender
    <2>5. (IF T[k].type = "FileLogAppender" THEN T[k].file ELSE None) = a.file
        BY <2>2, <2>3 DEF GoodAppender
    <2>6. T[k].type = a.type /\ T[k].formatter = a.formatter BY <2>3
    <2>7. AppenderFrom(T[k]) = NoLevel(a) BY <2>5, <2>6 DEF AppenderFrom, NoLevel
    <2> QED BY <2>1, <2>4, <2>7
<1>4. LevelFrom(LevelTo(l.level)) = l.level BY LevelFacts DEF GoodLogger
<1> DEFINE tt == [k \in DOMAIN T |-> IF ValidAppender(T[k]) THEN <<AppenderFrom(T[k])>> ELSE <<>>]
<1>5. DOMAIN T = DOMAIN A /\ DOMAIN C = DOMAIN A /\ \A k \in DOMAIN A : C[k] = NoLevel(A[k]) OBVIOUS
<1>6. tt = ss
    <2>1. \A k \in DOMAIN A : (IF ValidAppender(T[k]) THEN <<AppenderFrom(T[k])>> ELSE <<>>) = <<C[k]>>
        <3> SUFFICES ASSUME NEW k \in DOMAIN A
                     PROVE  (IF ValidAppender(T[k]) THEN <<AppenderFrom(T[k])>> ELSE <<>>) = <<C[k]>>
            OBVIOUS
        <3>1. ValidAppender(T[k]) /\ AppenderFrom(T[k]) = C[k] BY <1>3, <1>5
        <3> HIDE DEF T, C
        <3> QED BY <3>1
    <2> HIDE DEF T, C, A
    <2> QED BY <1>5, <2>1, Zenon
<1>7. DefineFrom(node) = [name |-> n, level |-> LevelFrom(LevelTo(l.level)), formatter |-> l.formatter,
                          appenders |-> FlattenSeq(tt)]
    <2> HIDE DEF T, C, A
    <2>1. node.name = n /\ node.level = LevelTo(l.level) /\ node.formatter = l.formatter /\ node.appenders = T
        OBVIOUS
    <2> HIDE DEF node
    <2> QED BY <2>1 DEF DefineFrom
<1>8. FlattenSeq(ss) = C
    <2>1. IsSequence(A) BY DEF GoodLogger
    <2>2. C = [k \in DOMAIN A |-> C[k]] OBVIOUS
    <2> HIDE DEF A, C
    <2>3. IsSequence(C) BY <1>5, <2>1, <2>2, MapSequence
    <2> QED BY <1>5, <2>3, FlattenChars DEF IsSequence
<1>9. NoAppenderLevels(l) = [name |-> n, level |-> l.level, formatter |-> l.formatter, appenders |-> C]
    BY BareLogger
<1> HIDE DEF tt, ss, C, T, A, node
<1> QED BY <1>2, <1>4, <1>6, <1>7, <1>8, <1>9

\* What the listener makes of it.
LEMMA ConfiguredBack ==
    ASSUME NEW n, NEW l, GoodLogger(n, l), NEW m, GoodLogger(n, m)
    PROVE  /\ Configured(m, NoAppenderLevels(l)) = NoAppenderLevels(l)
           /\ NoAppenderLevels(NoAppenderLevels(l)) = NoAppenderLevels(l)
           /\ \A k \in DOMAIN NoAppenderLevels(l).appenders : NoAppenderLevels(l).appenders[k].level = 0
<1> DEFINE A == l.appenders
           C == [k \in DOMAIN A |-> NoLevel(A[k])]
           p == OrElse(l.formatter, m.formatter)
           D == [k \in DOMAIN C |-> [C[k] EXCEPT !.formatter = OrElse(@, p)]]
           E == [k \in DOMAIN C |-> [C[k] EXCEPT !.level = 0]]
           b == [name |-> n, level |-> l.level, formatter |-> l.formatter, appenders |-> C]
<1>1. NoAppenderLevels(l) = b BY BareLogger
<1>2. m.name = n /\ p = l.formatter BY OrElseGood DEF GoodLogger
<1>3. DOMAIN C = DOMAIN A /\ \A k \in DOMAIN A : C[k] = NoLevel(A[k]) OBVIOUS
<1>4. ASSUME NEW k \in DOMAIN C
      PROVE  [C[k] EXCEPT !.formatter = OrElse(@, p)] = C[k] /\ [C[k] EXCEPT !.level = 0] = C[k] /\ C[k].level = 0
    <2>1. PICK a : a = A[k] OBVIOUS
    <2>2. GoodAppender(a) BY <1>3, <2>1 DEF GoodLogger
    <2>3. C[k] = [type |-> a.type, file |-> a.file, level |-> 0, formatter |-> a.formatter]
        BY <1>3, <2>1 DEF NoLevel
    <2>4. Good(p) BY OrElseGood DEF GoodLogger
    <2> HIDE DEF A, C, p
    <2>5. OrElse(a.formatter, p) = a.formatter BY <2>2, <2>4, OrElseGood DEF GoodAppender
    <2> QED BY <2>3, <2>5
<1>5. C = [k \in DOMAIN C |-> C[k]] OBVIOUS
<1>6. D = C
    <2> HIDE DEF C, p
    <2> QED BY <1>4, <1>5, Zenon
<1>7. E = C
    <2> HIDE DEF C
    <2> QED BY <1>4, <1>5, Zenon
<1>8. b.name = n /\ b.level = l.level /\ b.formatter = l.formatter /\ b.appenders = C
    <2> HIDE DEF C
    <2> QED OBVIOUS
<1>9. Configured(m, b) = [name |-> n, level |-> l.level, formatter |-> p, appenders |-> D]
    <2> HIDE DEF C, b
    <2> QED BY <1>2, <1>8 DEF Configured
<1>10. NoAppenderLevels(b) = [b EXCEPT !.appenders = E]
    <2> HIDE DEF C, b
    <2> QED BY <1>8 DEF NoAppenderLevels
<1> HIDE DEF A, C, D, E, p
<1>11. [b EXCEPT !.appenders = C] = b OBVIOUS
<1> QED BY <1>1, <1>2, <1>4, <1>6, <1>7, <1>8, <1>9, <1>10, <1>11

\* A new process that loads a dump of the loggers W.
LEMMA LoadsDump ==
    ASSUME NEW W, GoodLogs(W), NEW doc \in Dumps(W)
    PROVE  LoadLogs(Boot, doc) = [n \in DOMAIN W |-> NoAppenderLevels(W[n])]
<1> DEFINE t == [n \in DOMAIN W |-> DefineTo(W[n])]
           T == {DefineTo(W[n]) : n \in DOMAIN W}
<1>1. IsFiniteSet(T)
    <2>1. DOMAIN t = DOMAIN W /\ T = {t[x] : x \in DOMAIN t} OBVIOUS
    <2>2. IsFiniteSet(DOMAIN W) BY DEF GoodLogs
    <2> HIDE DEF T, t
    <2> QED BY <2>1, <2>2, FiniteImage
<1>2. PICK s \in SetToSeqs(T) : doc = Listed(s) BY DEF Dumps, SetTexts
<1>3. \A n \in DOMAIN W : DefineTo(W[n]).name = n /\ n # None
    BY DEF DefineTo, GoodLogs, GoodLogger
<1>4. \A x \in T : x.name \in DOMAIN W /\ x.name # None /\ x = DefineTo(W[x.name])
    BY <1>3
<1>5. \A n \in DOMAIN W : DefineTo(W[n]) \in T OBVIOUS
<1> HIDE DEF t, T
<1>6. PICK N \in Nat : /\ s \in [1 .. N -> T]
                       /\ \A j, k \in 1 .. N : j # k => s[j] # s[k]
                       /\ \A x \in T : \E k \in 1 .. N : s[k] = x
    BY <1>1, SetInSequence
<1>7. doc.items = s /\ DOMAIN s = 1 .. N BY <1>2, <1>6, ListedFacts
<1> DEFINE f == [k \in DOMAIN s |-> DefineFrom(s[k])]
           keys == [k \in DOMAIN s |-> s[k].name]
           S == SetOf(f, keys)
<1>8. LoadLogs(Boot, doc) = Apply(Boot, S)
    <2>1. \A k \in DOMAIN s : ~Throws(s[k]) BY <1>4, <1>6 DEF Throws
    <2> QED BY <1>7, <2>1 DEF LoadLogs, LogsFrom
<1>9. S = {DefineFrom(s[k]) : k \in 1 .. N}
    <2>1. DOMAIN keys = 1 .. N /\ \A k \in 1 .. N : keys[k] = s[k].name BY <1>7
    <2>2. DOMAIN f = 1 .. N /\ \A k \in 1 .. N : f[k] = DefineFrom(s[k]) BY <1>7
    <2> HIDE DEF f, keys
    <2>3. \A j, k \in 1 .. N : j # k => keys[j] # keys[k]
        <3> SUFFICES ASSUME NEW j \in 1 .. N, NEW k \in 1 .. N, keys[j] = keys[k] PROVE s[j] = s[k]
            BY <1>6
        <3>1. s[j].name = s[k].name BY <2>1
        <3>2. s[j] \in T /\ s[k] \in T BY <1>6
        <3> QED BY <1>4, <3>1, <3>2
    <2>4. Inserted(keys) = 1 .. N BY <2>1, <2>3, InsertedAll
    <2> QED BY <2>2, <2>4 DEF SetOf
<1> HIDE DEF f, keys, S
<1>10. \A n \in DOMAIN W : /\ GoodLogger(n, W[n]) /\ DefineFrom(DefineTo(W[n])) = NoAppenderLevels(W[n])
                           /\ NoAppenderLevels(W[n]).name = n
    <2> SUFFICES ASSUME NEW n \in DOMAIN W
                 PROVE  /\ GoodLogger(n, W[n]) /\ DefineFrom(DefineTo(W[n])) = NoAppenderLevels(W[n])
                        /\ NoAppenderLevels(W[n]).name = n
        OBVIOUS
    <2>1. GoodLogger(n, W[n]) BY DEF GoodLogs
    <2>2. NoAppenderLevels(W[n]).name = n BY <2>1, BareLogger
    <2> QED BY <2>1, <2>2, ReadBack
<1>11. \A d \in S : d.name \in DOMAIN W /\ d = NoAppenderLevels(W[d.name])
    <2> SUFFICES ASSUME NEW d \in S PROVE d.name \in DOMAIN W /\ d = NoAppenderLevels(W[d.name])
        OBVIOUS
    <2>1. PICK k \in 1 .. N : d = DefineFrom(s[k]) BY <1>9
    <2>2. PICK n \in DOMAIN W : s[k] = DefineTo(W[n]) BY <1>4, <1>6
    <2>3. d = NoAppenderLevels(W[n]) /\ d.name = n BY <1>10, <2>1, <2>2
    <2> QED BY <2>3
<1>12. \A n \in DOMAIN W : NoAppenderLevels(W[n]) \in S
    <2> SUFFICES ASSUME NEW n \in DOMAIN W PROVE NoAppenderLevels(W[n]) \in S
        OBVIOUS
    <2>1. PICK k \in 1 .. N : s[k] = DefineTo(W[n]) BY <1>5, <1>6
    <2>2. DefineFrom(s[k]) = NoAppenderLevels(W[n]) BY <1>10, <2>1
    <2> QED BY <1>9, <2>2
<1>13. DOMAIN Boot \union {d.name : d \in S} = DOMAIN W
    <2>1. DOMAIN Boot = {"root"} /\ "root" \in DOMAIN W BY DEF Boot, GoodLogs
    <2>2. \A n \in DOMAIN W : \E d \in S : d.name = n BY <1>10, <1>12
    <2> QED BY <1>11, <2>1, <2>2
<1> DEFINE A == Apply(Boot, S)
<1>14. ASSUME NEW n \in DOMAIN W PROVE A[n] = NoAppenderLevels(W[n])
    <2>1. \E d \in S : d.name = n BY <1>10, <1>12
    <2>2. PICK d : d = CHOOSE e \in S : e.name = n OBVIOUS
    <2>3. d = NoAppenderLevels(W[n]) BY <1>11, <2>1, <2>2
    <2>4. A[n] = Configured(getLogger(Boot, n), d) BY <1>13, <2>1, <2>2 DEF Apply
    <2>5. GoodLogger(n, getLogger(Boot, n)) BY <1>3, BootGood, getLoggerGood
    <2> QED BY <1>10, <2>3, <2>4, <2>5, ConfiguredBack
<1>15. DOMAIN A = DOMAIN W /\ A = [n \in DOMAIN A |-> A[n]] BY <1>13 DEF Apply
<1> HIDE DEF A
<1>16. A = [n \in DOMAIN W |-> NoAppenderLevels(W[n])] BY <1>14, <1>15
<1> QED BY <1>8, <1>16 DEF A

-----------------------------------------------------------------------------
LEMMA LogYamlInitInv == LogYamlInit => LogYamlInv
BY BootGood DEF LogYamlInit, LogYamlInv, DumpRestores

LEMMA LogYamlStep == LogYamlInv /\ [LogYamlNext]_logYamlVars => LogYamlInv'
<1> SUFFICES ASSUME LogYamlInv, [LogYamlNext]_logYamlVars PROVE LogYamlInv' OBVIOUS
<1>1. CASE UNCHANGED logYamlVars
    BY <1>1 DEF logYamlVars, LogYamlInv, DumpRestores
<1>2. ASSUME NEW doc \in LogDocs, LoadDocument(doc) PROVE LogYamlInv'
    <2>1. GoodLogs(logs) BY <1>2 DEF LoadDocument, LogYamlInv
    <2>2. IsSequence(doc.items) /\ \A k \in DOMAIN doc.items : IsSequence(doc.items[k].appenders)
        BY LogYamlAssumption DEF IsSequence
    <2>3. GoodLogs(logs') BY <1>2, <2>1, <2>2, LoadGood DEF LoadDocument
    <2>4. process' = "running" BY <1>2 DEF LoadDocument
    <2> QED BY <2>3, <2>4 DEF LogYamlInv, DumpRestores
<1>3. ASSUME NEW n \in LogNames, Change(n) PROVE LogYamlInv'
    <2>1. process = "running" /\ process' = "running" BY <1>3 DEF Change
    <2>2. GoodLogs(logs') BY <1>3, <2>1, ChangeGood DEF LogYamlInv
    <2> QED BY <2>1, <2>2 DEF LogYamlInv, DumpRestores
<1>4. CASE Dump
    <2>1. process = "running" /\ process' = "dumped" /\ was' = logs /\ logs' = Boot /\ dump' \in Dumps(logs)
        BY <1>4 DEF Dump
    <2> QED BY <2>1 DEF LogYamlInv, DumpRestores
<1>5. CASE Restore
    <2>1. process = "dumped" /\ process' = "restored" /\ logs' = LoadLogs(Boot, dump) /\ was' = was
        BY <1>5 DEF Restore, LogYamlInv
    <2>2. GoodLogs(was) /\ dump \in Dumps(was) BY <2>1 DEF LogYamlInv
    <2>3. logs' = [n \in DOMAIN was |-> NoAppenderLevels(was[n])] BY <2>1, <2>2, LoadsDump
    <2>4. ASSUME NEW n \in DOMAIN was
          PROVE  /\ NoAppenderLevels(logs'[n]) = NoAppenderLevels(was[n])
                 /\ \A k \in DOMAIN logs'[n].appenders : logs'[n].appenders[k].level = 0
        <3>1. GoodLogger(n, was[n]) BY <2>2 DEF GoodLogs
        <3>2. logs'[n] = NoAppenderLevels(was[n]) BY <2>3
        <3> QED BY <3>1, <3>2, ConfiguredBack
    <2>5. DOMAIN logs' = DOMAIN was BY <2>3
    <2>6. DumpRestores' BY <2>1, <2>4, <2>5 DEF DumpRestores
    <2> QED BY <2>1, <2>6 DEF LogYamlInv
<1> QED BY <1>1, <1>2, <1>3, <1>4, <1>5 DEF LogYamlNext

LEMMA LogYamlInvariance == LogYamlSpec => []LogYamlInv
BY LogYamlInitInv, LogYamlStep, PTL DEF LogYamlSpec

\* LoggerManager::toYamlString and the conversion of LogDefine agree: a process
\* that loads what another dumped has the loggers of the other, for any
\* documents, names and patterns and after any number of calls of the
\* application.  Only the levels of the appenders are lost.
THEOREM DumpsAreRestored == LogYamlSpec => []DumpRestores
<1>1. LogYamlInv => DumpRestores BY DEF LogYamlInv
<1> QED BY <1>1, LogYamlInvariance, PTL
=============================================================================
