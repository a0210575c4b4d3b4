---------------------------- MODULE LogFormatter ----------------------------
(***************************************************************************)
(* LogFormatter::init (log.cc): the parser of log patterns, one step per   *)
(* round of its loop, over every pattern of a set.  A pattern is the       *)
(* sequence of its characters, by kind: '%', the braces, letters, of which *)
(* Items name a format item, and others.  The inner loop looks for the end *)
(* of an item; it only reads, and its result is a set expression here.     *)
(***************************************************************************)
EXTENDS Naturals, Sequences, FiniteSetsExt, SequencesExt

CONSTANTS
    Patterns,   \* patterns given to the constructor
    Letters,    \* the letters in them
    Items       \* the letters that name a format item

\* The braces around a format.
LBrace == "{"
RBrace == "}"

ASSUME FormatterAssumption ==
    /\ Items \subseteq Letters
    /\ Letters \cap {"%", LBrace, RBrace, "end"} = {}
    /\ \A p \in Patterns : p \in Seq(Range(p))

VARIABLES
    m_pattern,
    m_error,
    m_items,    \* the result
    i,          \* the place reached in the pattern
    nstr,       \* literal text not yet pushed
    vec,        \* what was found so far
    pc

vars == <<m_pattern, m_error, m_items, i, nstr, vec, pc>>

Text(s) == [type |-> 0, str |-> s, fmt |-> <<>>]
Format(s, f) == [type |-> 1, str |-> s, fmt |-> f]

\* nstr, if there is any, becomes an entry of its own.
Flushed == IF nstr = <<>> THEN vec ELSE Append(vec, Text(nstr))

Sub(from, to) == SubSeq(m_pattern, from, to)

\* Where the name of the item at i ends: at the first character that is
\* neither a letter nor a '}'.
NameEnd ==
    Min({n \in i + 1 .. Len(m_pattern) : m_pattern[n] \notin Letters \union {RBrace}}
        \union {Len(m_pattern) + 1})

\* Where the braces that follow the name end.
Closing == {n \in NameEnd + 1 .. Len(m_pattern) : m_pattern[n] = RBrace}

Braced == NameEnd <= Len(m_pattern) /\ m_pattern[NameEnd] = LBrace

AtEscape == i < Len(m_pattern) /\ m_pattern[i + 1] = "%"

Init ==
    /\ m_pattern \in Patterns
    /\ m_error = FALSE
    /\ m_items = <<>>
    /\ i = 1
    /\ nstr = <<>>
    /\ vec = <<>>
    /\ pc = "parse"

At(c) == pc = "parse" /\ i <= Len(m_pattern) /\ (m_pattern[i] = "%") = c

Literal ==
    /\ At(FALSE)
    /\ nstr' = Append(nstr, m_pattern[i])
    /\ i' = i + 1
    /\ UNCHANGED <<m_pattern, m_error, m_items, vec, pc>>

\* "%%": a '%' goes into the text; the loop goes on at the second one.
Escape ==
    /\ At(TRUE) /\ AtEscape
    /\ nstr' = Append(nstr, "%")
    /\ i' = i + 1
    /\ UNCHANGED <<m_pattern, m_error, m_items, vec, pc>>

\* Mutant of PushFormat: the text before the item is not pushed first.
PushFormatFirst(s, f, next) ==
    /\ vec' = Append(vec, Format(s, f))
    /\ nstr' = nstr
    /\ i' = next
    /\ UNCHANGED <<m_pattern, m_error, m_items, pc>>

PushFormat(s, f, next) ==
    /\ vec' = Append(Flushed, Format(s, f))
    /\ nstr' = <<>>
    /\ i' = next
    /\ UNCHANGED <<m_pattern, m_error, m_items, pc>>

\* %xxx
Name ==
    /\ At(TRUE) /\ ~AtEscape
    /\ ~Braced
    /\ PushFormat(Sub(i + 1, NameEnd - 1), <<>>, NameEnd)

\* %xxx{xxx}
NameAndFormat ==
    /\ At(TRUE) /\ ~AtEscape
    /\ Braced /\ Closing # {}
    /\ PushFormat(Sub(i + 1, NameEnd - 1), Sub(NameEnd + 1, Min(Closing) - 1), Min(Closing) + 1)

\* Mutant of OpenBrace: the error is not recorded.
OpenBraceIgnored ==
    /\ At(TRUE) /\ ~AtEscape
    /\ Braced /\ Closing = {}
    /\ vec' = Append(vec, Text(<<"pattern_error">>))
    /\ i' = i + 1
    /\ UNCHANGED <<m_pattern, m_items, m_error, nstr, pc>>

\* The braces are not closed: what follows the '%' is read as text.
OpenBrace ==
    /\ At(TRUE) /\ ~AtEscape
    /\ Braced /\ Closing = {}
    /\ m_error' = TRUE
    /\ vec' = Append(vec, Text(<<"pattern_error">>))
    /\ i' = i + 1
    /\ UNCHANGED <<m_pattern, m_items, nstr, pc>>

Known(e) == e.type = 1 => Len(e.str) = 1 /\ e.str[1] \in Items

\* The end of the pattern; then vec becomes m_items, with an error text for
\* a name that is not in the table.
Build ==
    /\ pc = "parse" /\ i > Len(m_pattern)
    /\ m_items' = [k \in DOMAIN Flushed |->
            IF Known(Flushed[k]) THEN Flushed[k] ELSE Text(<<"error_format">>)]
    /\ m_error' = (m_error \/ \E k \in DOMAIN Flushed : ~Known(Flushed[k]))
    /\ vec' = Flushed
    /\ nstr' = <<>>
    /\ pc' = "done"
    /\ UNCHANGED <<m_pattern, i>>

Next == Literal \/ Escape \/ Name \/ NameAndFormat \/ OpenBrace \/ Build

FormatterSpec == Init /\ [][Next]_vars

-----------------------------------------------------------------------------
(* Properties, against the grammar "%xxx %xxx{xxx} %%" of the comment at   *)
(* init: text, items whose name is in the table, and "%%" for a '%'.       *)

\* The suffix of p from k on follows the grammar, given which of the later
\* ones do; letters and '}' directly behind a name would belong to it.
Grammar(p, follows, k) ==
    LET c(n) == IF n <= Len(p) THEN p[n] ELSE "end" IN
    \/ k > Len(p)
    \/ c(k) # "%" /\ follows[k + 1]
    \/ c(k) = "%" /\ c(k + 1) = "%" /\ follows[k + 2]
    \/ /\ c(k) = "%" /\ c(k + 1) \in Items
       /\ IF c(k + 2) = LBrace
          THEN \E q \in k + 3 .. Len(p) :
                p[q] = RBrace /\ (\A r \in k + 3 .. q - 1 : p[r] # RBrace) /\ follows[q + 1]
          ELSE c(k + 2) \notin Letters \union {RBrace} /\ follows[k + 2]

WellFormed(p) ==
    LET follows[k \in 1 .. Len(p) + 3] == Grammar(p, follows, k) IN follows[1]

\* The pattern has no "%%".
NoEscape(p) == \A k \in 1 .. Len(p) - 1 : <<p[k], p[k + 1]>> # <<"%", "%">>

\* The formatter reports an error for exactly the patterns that do not
\* follow the grammar, apart from "%%", whose second '%' the parser takes for
\* the beginning of an item; Logger::setFormatter and the listener of "logs"
\* rely on isError to keep the formatter they have.
ErrorExact ==
    pc = "done" /\ NoEscape(m_pattern) => (m_error <=> ~WellFormed(m_pattern))

\* How an item is written in a pattern; empty braces may have been there or
\* not.
Written(e, b) ==
    IF e.type = 0 THEN e.str
    ELSE <<"%">> \o e.str \o (IF e.fmt # <<>> \/ b THEN <<LBrace>> \o e.fmt \o <<RBrace>> ELSE <<>>)

\* The items of an accepted pattern, written down again in their order, give
\* the pattern: no character is lost, doubled or moved, across every mix of
\* text, items and braces, again apart from "%%".
ItemsFaithful ==
    pc = "done" /\ ~m_error /\ NoEscape(m_pattern) =>
        \E b \in [DOMAIN m_items -> BOOLEAN] :
            FlattenSeq([k \in DOMAIN m_items |-> Written(m_items[k], b[k])]) = m_pattern
=============================================================================
