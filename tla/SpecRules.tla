------------------------------ MODULE SpecRules ------------------------------
(***************************************************************************)
(* A pipeline's graph: which specs may be saved (model.validate_structure),*)
(* the order of their nodes (model.topological_order), what compile_job    *)
(* makes of them (engine.py), and the params a node runs with              *)
(* (resolve.node_config).                                                  *)
(*                                                                         *)
(* A spec is the sequence of its nodes [key, task, version, deps, over]:   *)
(* the task it refers to, with a version or None for the latest, the keys  *)
(* it depends on, as listed, and the params it overrides.                  *)
(***************************************************************************)
EXTENDS Integers, Sequences, SequencesExt, FiniteSets, Functions

CONSTANTS None,
          MaxParams \* MAX_PARAMS_BYTES, in params

Keys(spec) == {spec[i].key : i \in DOMAIN spec}

\* The last node with a key: later ones replace earlier ones in a dict.
by_key(spec, k) == spec[CHOOSE i \in DOMAIN spec :
                          spec[i].key = k /\ \A j \in DOMAIN spec : spec[j].key = k => j <= i]

\* downstream()[k]: who lists k, in declaration order, as often as it does.
downstream(spec, k) ==
  LET down[i \in 0..Len(spec)] ==
        IF i = 0 THEN <<>>
        ELSE down[i - 1] \o [m \in 1..Cardinality({n \in DOMAIN spec[i].deps : spec[i].deps[n] = k}) |-> spec[i].key]
  IN  down[Len(spec)]

\* A node has one dependency less to wait for; after the last it is ready.
Release(s, k) ==
  LET left == s.indeg[k] - 1
  IN  [s EXCEPT !.indeg[k] = left, !.ready = IF left = 0 THEN Append(@, k) ELSE @]

\* One turn of Kahn's loop: the first ready node is ordered, and those
\* downstream of it wait for it no longer.
Pop(spec, s) ==
  LET k    == Head(s.ready)
      down == downstream(spec, k)
      after[n \in 0..Len(down)] ==
        IF n = 0 THEN [s EXCEPT !.ready = Tail(@), !.order = Append(@, k)]
        ELSE Release(after[n - 1], down[n])
  IN  after[Len(down)]

Indegrees(spec) == [k \in Keys(spec) |-> Cardinality(Range(by_key(spec, k).deps))]

\* The nodes without dependencies, in declaration order.
Roots(spec) ==
  LET roots[i \in 0..Len(spec)] ==
        IF i = 0 THEN <<>>
        ELSE roots[i - 1] \o (IF Indegrees(spec)[spec[i].key] = 0 THEN <<spec[i].key>> ELSE <<>>)
  IN  roots[Len(spec)]

Kahn(spec) ==
  LET turn[n \in 0..(2 * Len(spec))] ==
        IF n = 0 THEN [indeg |-> Indegrees(spec), order |-> <<>>, ready |-> Roots(spec)]
        ELSE IF turn[n - 1].ready = <<>> THEN turn[n - 1] ELSE Pop(spec, turn[n - 1])
  IN  turn[2 * Len(spec)].order

\* The order, or <<>> where the code raises: the nodes form a cycle.
topological_order(spec) ==
  LET order == Kahn(spec) IN IF Len(order) = Len(spec) THEN order ELSE <<>>

validate_structure(spec) ==
  /\ spec # <<>>
  /\ Cardinality(Keys(spec)) = Len(spec)
  /\ \A i \in DOMAIN spec :
       /\ Cardinality(Range(spec[i].deps)) = Len(spec[i].deps)
       /\ \A d \in Range(spec[i].deps) : d # spec[i].key /\ d \in Keys(spec)
  /\ topological_order(spec) # <<>>

\* The job: an op per node, in order, and the inputs of each.
compile_job(spec) ==
  LET order == topological_order(spec)
  IN  [ops |-> order, ins |-> [k \in Range(order) |-> Range(by_key(spec, k).deps)]]

check_params(params) == Cardinality(params) <= MaxParams

\* None where the node's overrides do not fit on top of the task's params.
node_config(config, node) ==
  IF node.over = {} THEN config
  ELSE IF check_params(config.params \cup node.over)
       THEN [config EXCEPT !.params = @ \cup node.over] ELSE None

-----------------------------------------------------------------------------
(* What a graph has to be, stated without an algorithm.                     *)

WellFormed(spec) ==
  /\ spec # <<>>
  /\ \A i, j \in DOMAIN spec : spec[i].key = spec[j].key => i = j
  /\ \A i \in DOMAIN spec : \A m \in DOMAIN spec[i].deps :
       /\ \E j \in DOMAIN spec \ {i} : spec[j].key = spec[i].deps[m]
       /\ \A n \in DOMAIN spec[i].deps : spec[i].deps[n] = spec[i].deps[m] => n = m

\* Its nodes can be ranked so that each comes after what it depends on.
Acyclic(spec) ==
  \E rank \in [Keys(spec) -> 1..Len(spec)] :
    \A i \in DOMAIN spec : \A d \in Range(spec[i].deps) : d \in Keys(spec) => rank[d] < rank[spec[i].key]

\* Every node once, after its dependencies; of nodes with the same ones, the
\* one declared first.
IsOrder(spec, order) ==
  LET at == [k \in Range(order) |-> CHOOSE n \in DOMAIN order : order[n] = k]
  IN  /\ Range(order) = Keys(spec) /\ Len(order) = Len(spec)
      /\ \A i \in DOMAIN spec :
           /\ \A d \in Range(spec[i].deps) : at[d] < at[spec[i].key]
           /\ \A j \in DOMAIN spec : i < j /\ Range(spec[i].deps) = Range(spec[j].deps)
                                       => at[spec[i].key] < at[spec[j].key]
=============================================================================
