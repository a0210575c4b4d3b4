--------------------------- MODULE FileLogAppender ---------------------------
(***************************************************************************)
(* FileLogAppender (log.cc): the log file behind an appender, which is     *)
(* reopened when an event comes three seconds after the last reopening, so *)
(* that a file moved away or a directory removed is made anew.  Loggers    *)
(* call log() under their own locks; an appender added to two loggers is   *)
(* used by two threads at once.                                            *)
(*                                                                         *)
(* A file is a number, a new one for each file created under m_filename.   *)
(* std::ofstream is external: open() on an open stream fails, a success of *)
(* open() clears a failure, and a stream in failure writes nothing.  A     *)
(* write reaches the disk at once; the buffer of the stream is left out.   *)
(***************************************************************************)
EXTENDS Naturals

CONSTANTS
    Threads,        \* threads that log through this appender
    Full,           \* the disk may be full for a while
    Start,          \* the time at the start, in seconds
    MaxTime,        \* bound: the time at the end
    MaxTroubles,    \* bound: things that happen to the file system
    NoFile

ASSUME AppenderAssumption ==
    /\ Full \in BOOLEAN /\ NoFile \notin Nat
    /\ Start \in Nat /\ Start >= 3      \* time(0), long after 1970
    /\ MaxTime \in Nat /\ MaxTroubles \in Nat

VARIABLES
    m_lastTime,
    m_filestream,   \* the open file, and whether the stream is in failure
    path,           \* the file m_filename names, or NoFile
    denied, full,   \* the file cannot be opened, cannot be written
    files,          \* the number of the last file created
    clock,
    log, event,      \* where a thread is in log(), and the time of its event
    fate,           \* history: what became of its event
    trouble,        \* history: when something last happened to the file
    troubles

appenderVars == <<m_lastTime, m_filestream, path, denied, full, files, clock, log, event, fate,
          trouble, troubles>>
diskVars == <<path, files>>
outerVars == <<denied, full, clock, trouble, troubles>>

\* The constructor has called reopen().
AppenderInit ==
    /\ m_lastTime = 0
    /\ denied \in BOOLEAN
    /\ m_filestream = [file |-> IF denied THEN NoFile ELSE 1, fail |-> denied]
    /\ path = m_filestream.file
    /\ files = IF denied THEN 0 ELSE 1
    /\ full = FALSE
    /\ clock = Start
    /\ log = [t \in Threads |-> "idle"]
    /\ event = [t \in Threads |-> 0]
    /\ fate = [t \in Threads |-> "kept"]
    /\ trouble = Start
    /\ troubles = 0

-----------------------------------------------------------------------------
(* log(), for an event at or above the level of the appender.              *)

LogBegin(t) ==
    /\ log[t] = "idle"
    /\ log' = [log EXCEPT ![t] = "check"]
    /\ event' = [event EXCEPT ![t] = clock]
    /\ UNCHANGED <<m_lastTime, m_filestream, fate, diskVars, outerVars>>

\* Mutant of LogCheck: the file is reopened one second later.
LogCheckLate(t) ==
    /\ log[t] = "check"
    /\ log' = [log EXCEPT ![t] = IF event[t] > m_lastTime + 3 THEN "reopen" ELSE "write"]
    /\ UNCHANGED <<m_lastTime, m_filestream, event, fate, diskVars, outerVars>>

\* The test of m_lastTime, outside the lock of the appender.
LogCheck(t) ==
    /\ log[t] = "check"
    /\ log' = [log EXCEPT ![t] = IF event[t] >= m_lastTime + 3 THEN "reopen" ELSE "write"]
    /\ UNCHANGED <<m_lastTime, m_filestream, event, fate, diskVars, outerVars>>

\* FSUtil::OpenForWrite on stream s.  Its second attempt, after making the
\* directory, fails only if the file cannot be opened or made at all.
OpenForWrite(s) ==
    \/ /\ s.file # NoFile \/ denied
       /\ m_filestream' = [s EXCEPT !.fail = TRUE]
       /\ UNCHANGED diskVars
    \/ /\ s.file = NoFile /\ ~denied
       /\ files' = IF path = NoFile THEN files + 1 ELSE files
       /\ path' = IF path = NoFile THEN files + 1 ELSE path
       /\ m_filestream' = [file |-> path', fail |-> FALSE]

\* reopen: a stream that is not in failure is closed, and the file opened.
Reopen(t) ==
    /\ log[t] = "reopen"
    /\ OpenForWrite(IF m_filestream.fail THEN m_filestream ELSE [m_filestream EXCEPT !.file = NoFile])
    /\ log' = [log EXCEPT ![t] = "last"]
    /\ UNCHANGED <<m_lastTime, event, fate, outerVars>>

SetLast(t) ==
    /\ log[t] = "last"
    /\ m_lastTime' = event[t]
    /\ log' = [log EXCEPT ![t] = "write"]
    /\ UNCHANGED <<m_filestream, event, fate, diskVars, outerVars>>

\* The event is formatted into the stream.
Write(t) ==
    /\ log[t] = "write"
    /\ m_filestream' = [m_filestream EXCEPT !.fail = @ \/ full \/ m_filestream.file = NoFile]
    /\ fate' = [fate EXCEPT ![t] = IF m_filestream'.fail THEN "dropped"
                                   ELSE IF m_filestream.file = path THEN "kept" ELSE "astray"]
    /\ log' = [log EXCEPT ![t] = "idle"]
    /\ UNCHANGED <<m_lastTime, event, diskVars, outerVars>>

-----------------------------------------------------------------------------
(* The file system and the time (external).                                *)

Disturb ==
    /\ troubles < MaxTroubles
    /\ troubles' = troubles + 1
    /\ trouble' = clock
    /\ UNCHANGED <<m_lastTime, m_filestream, files, clock, log, event, fate>>

\* The file is moved away, or its directory removed with it.
Rotate == Disturb /\ path' = NoFile /\ UNCHANGED <<denied, full>>
Deny == Disturb /\ denied' = ~denied /\ UNCHANGED <<path, full>>
Fill == Disturb /\ Full /\ full' = ~full /\ UNCHANGED <<path, denied>>

Tick ==
    /\ clock < MaxTime
    /\ clock' = clock + 1
    /\ UNCHANGED <<m_lastTime, m_filestream, diskVars, denied, full, log, event, fate, trouble,
                   troubles>>

AppenderNext ==
    \/ \E t \in Threads : LogBegin(t) \/ LogCheck(t) \/ Reopen(t) \/ SetLast(t) \/ Write(t)
    \/ Rotate \/ Deny \/ Fill \/ Tick

AppenderSpec == AppenderInit /\ [][AppenderNext]_appenderVars

-----------------------------------------------------------------------------
\* No event goes to a file that was moved away three seconds before it,
\* however the threads that share the appender interleave between the test
\* of m_lastTime, the reopening and the write, on a full disk too.
NotAstray ==
    \A t \in Threads : log[t] = "idle" /\ fate[t] = "astray" => event[t] < trouble + 3

\* The stream is open and in failure.  reopen() closes it only if it is not
\* in failure, and it cannot be opened while it is open.
Stuck == m_filestream.fail /\ m_filestream.file # NoFile

\* An event at least three seconds after the last thing that happened to the
\* file is in the file m_filename names: reopen() does "reopen the log file",
\* unless a write has failed on a full disk, from which it does not recover.
Recovered ==
    \A t \in Threads :
        log[t] = "idle" /\ fate[t] # "kept" =>
            denied \/ full \/ Stuck \/ event[t] < trouble + 3
=============================================================================
