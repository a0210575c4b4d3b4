------------------------------ MODULE MCConfig ------------------------------
(* Two files.  The first has a name that may be registered late, one that  *)
(* Lookup refuses because of its '9' and a value that cannot be converted, *)
(* and may be missing; the second may be broken.                           *)
EXTENDS Config, TLC

MCNames == {"log.level", "tcp.port", "port9", "fiber.size"}
MCChars == [n \in MCNames |-> IF n = "port9" THEN {"a-z", "9"} ELSE {"a-z", "._"}]

Entry(n, v) == [name |-> n, value |-> v]

MCDocuments ==
    [f1 |-> {<<Entry("port9", "1"), Entry("log.level", "1")>>,
             <<Entry("tcp.port", Unconvertible), Entry("log.level", "2")>>, Gone},
     f2 |-> {<<Entry("fiber.size", "1")>>, Broken}]

MCStart ==
    {[f1 |-> <<Entry("port9", "1"), Entry("log.level", "1")>>, f2 |-> d] : d \in MCDocuments["f2"]}

LoaderSymmetry == Permutations(Loaders)
=============================================================================
