----------------------------- MODULE MCCatalogue -----------------------------
(* Small instances of Catalogue for TLC. *)
EXTENDS Catalogue, TLC

CONSTANT t1

Interchangeable == Permutations(Requests) \cup Permutations(Replicas) \cup Permutations(Runs)

SomeLimits == [modules |-> 1, secrets |-> 1, requirements |-> 1, requirement_bytes |-> 1,
               inline |-> 1, source |-> 1, spark |-> 1]

Node(key, deps) == [key |-> key, task |-> t1, version |-> None, deps |-> deps, over |-> {}]

\* A task used once, at its first version; twice, its latest with another x;
\* and three that are broken.
SomeSpecs ==
  {<<[Node("a", <<>>) EXCEPT !.version = 1, !.over = {"x"}]>>,
   <<Node("a", <<>>), [Node("b", <<"a">>) EXCEPT !.over = {"x"}]>>,
   <<Node("a", <<>>), Node("a", <<>>)>>,
   <<Node("a", <<"b">>)>>,
   <<Node("a", <<>>), Node("b", <<"a", "c">>), Node("c", <<"b">>)>>}

OneSpec == {spec \in SomeSpecs : Len(spec) = 1 /\ spec[1].version = 1}

\* Runs only where that spec is all that is stored and nobody is half way
\* through saving a task: what becomes of runs depends on neither.
RunsOfOneSpec ==
  \/ DOMAIN db.runs = {} /\ \A x \in Runs : work[x].at = "none"
  \/ /\ object = "small" /\ \A q \in Requests : req[q].id \notin Tasks
     /\ \A p \in DOMAIN db.versions : Range(db.versions[p]) \subseteq OneSpec
     /\ \A p \in DOMAIN db.drafts : db.drafts[p].spec \in OneSpec

\* Every graph of up to two nodes with whatever lists of dependencies, and
\* every graph of three with distinct keys.
Lists(S) == {<<>>} \cup {<<x>> : x \in S} \cup {<<x, y>> : x \in S, y \in S}
Sets(S)  == {SetToSeq(T) : T \in SUBSET S}
SomeShapes ==
  LET free == {Node(k, deps) : k \in {"a", "b"}, deps \in Lists({"a", "b", "z"})}
  IN  {<<>>} \cup {<<m>> : m \in free} \cup {<<m, n>> : m \in free, n \in free}
        \cup {<<Node("a", d), Node("b", e), Node("c", f)>> :
                d \in Sets({"a", "b", "c"}), e \in Sets({"a", "b", "c"}), f \in Sets({"a", "b", "c"})}
=============================================================================
