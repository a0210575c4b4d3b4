---------------------------- MODULE LexicalCast ----------------------------
(***************************************************************************)
(* LexicalCast (config.h): the conversions between the text of a           *)
(* configuration variable and its value, for scalars and for the           *)
(* containers, and fromString and toString of a variable over them.        *)
(*                                                                         *)
(* A text stands for the YAML document it is parsed to, and yaml-cpp is    *)
(* external: a document is a scalar, or the sequence of its items; those   *)
(* of a map have a key.  A cast of a container takes its items converted,  *)
(* one of them Thrown if their conversion threw, an exception that leaves  *)
(* the cast of the container as well.  Documents of the other shape (a map *)
(* for a vector, a sequence for a map) are left out.                       *)
(***************************************************************************)
EXTENDS Naturals, Sequences, SequencesExt

CONSTANTS
    Thrown,       \* the result of a conversion that throws
    CastKinds,    \* the kinds of variables there are
    Scalars,      \* scalar texts
    ElementOf,    \* what boost::lexical_cast makes of each of them
    MapKeys,      \* keys of maps
    MaxItems      \* bound: items of a document

Scalar(x) == [items |-> <<>>, scalar |-> x]
Listed(s) == [items |-> s, scalar |-> "none"]

ASSUME LexicalCastAssumption ==
    /\ CastKinds \subseteq {"scalar", "vector", "set", "map"}
    /\ MaxItems \in Nat
    /\ Thrown # 0 /\ \E x \in Scalars : ElementOf[x] = 0

\* vector and list.  The size of a scalar is 0: it gives an empty container.
SeqCast(s) == IF Thrown \in Range(s) THEN Thrown ELSE s

\* insert() keeps the first of several items with the same key.
Inserted(keys) == {j \in DOMAIN keys : \A h \in 1 .. j - 1 : keys[h] # keys[j]}

\* set and unordered_set, of elements that are equal if their keys are.
SetOf(s, keys) == {s[k] : k \in Inserted(keys)}
SetCast(s, keys) == IF Thrown \in Range(s) THEN Thrown ELSE SetOf(s, keys)

\* map and unordered_map.
MapCast(s, keys) ==
    IF Thrown \in Range(s) THEN Thrown
    ELSE [x \in Range(keys) |-> s[CHOOSE k \in Inserted(keys) : keys[k] = x]]

\* The documents a set of items may be written as: in its order, or in any.
SetTexts(S) == {Listed(s) : s \in SetToSeqs(S)}

-----------------------------------------------------------------------------
(* A variable of each kind, with numbers as elements.                      *)

Element(x) == ElementOf[x]
TextOf(n) == CHOOSE x \in Scalars : ElementOf[x] = n

Elements(d) == [k \in DOMAIN d.items |-> Element(d.items[k])]
MapElements(d) == [k \in DOMAIN d.items |-> Element(d.items[k].val)]
KeysOf(d) == [k \in DOMAIN d.items |-> d.items[k].key]

SeqText(v) == Listed([k \in DOMAIN v |-> TextOf(v[k])])
MapTexts(f) == SetTexts({[key |-> x, val |-> TextOf(f[x])] : x \in DOMAIN f})

\* Mutant of Cast: the loops begin with the second item.
CastShort(kind, d) ==
    LET rest == Listed(SubSeq(d.items, 2, Len(d.items))) IN
    CASE kind = "scalar" -> Element(d.scalar)
      [] kind = "vector" -> SeqCast(Elements(rest))
      [] kind = "set"    -> SetCast(Elements(rest), Elements(rest))
      [] kind = "map"    -> MapCast(MapElements(rest), KeysOf(rest))

Cast(kind, d) ==
    CASE kind = "scalar" -> Element(d.scalar)
      [] kind = "vector" -> SeqCast(Elements(d))
      [] kind = "set"    -> SetCast(Elements(d), Elements(d))
      [] kind = "map"    -> MapCast(MapElements(d), KeysOf(d))

Texts(kind, v) ==
    CASE kind = "scalar" -> {Scalar(TextOf(v))}
      [] kind = "vector" -> {SeqText(v)}
      [] kind = "set"    -> SetTexts({TextOf(n) : n \in v})
      [] kind = "map"    -> MapTexts(v)

CastDocuments(kind) ==
    LET seqs(S) == {Listed(s) : s \in UNION {[1 .. n -> S] : n \in 0 .. MaxItems}} IN
    CASE kind = "scalar" -> {Scalar(x) : x \in Scalars}
      [] kind = "map"    -> seqs([key : MapKeys, val : Scalars])
      [] OTHER           -> seqs(Scalars) \union {Scalar(x) : x \in Scalars}

VARIABLES
    kind,     \* of the variable
    value     \* its m_val

castVars == <<kind, value>>

CastInit ==
    /\ kind \in CastKinds
    /\ value = CASE kind = "scalar" -> 0
                 [] kind = "vector" -> <<>>
                 [] kind = "set"    -> {}
                 [] kind = "map"    -> [x \in {} |-> 0]

\* fromString: an exception is caught, and the value stays as it was.
FromString(d) ==
    LET v == Cast(kind, d) IN
    /\ value' = IF v = Thrown THEN value ELSE v
    /\ UNCHANGED kind

CastNext == \E d \in CastDocuments(kind) : FromString(d)

CastSpec == CastInit /\ [][CastNext]_castVars

\* Text and value agree: what toString writes, in whatever order a container
\* is walked through, fromString reads back as the same value, although it
\* reads many texts as one value.
TextStable == \A d \in Texts(kind, value) : Cast(kind, d) = value
=============================================================================
