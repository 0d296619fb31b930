------------------------------ MODULE SymbolData ------------------------------
(***************************************************************************)
(* The data that the analysis SymbolAnalysis (analysis.rs) keeps for a     *)
(* class: a representative, its fingerprint and its constant, over the     *)
(* e-graph of Saturation.  Make, Merge and Modify of EGraph are the        *)
(* operators SymMake, SymMerge and SymModify below.  Nothing is said here  *)
(* of what a representative looks like: how one is made from a node, what  *)
(* its fingerprint is and how two compare are parameters, which            *)
(* SymbolAnalysis gives.                                                   *)
(***************************************************************************)
EXTENDS ConstFold, FingerprintMerge

CONSTANTS
    MakeRepr(_, _),         \* the representative of a node, from its children's data
    ReprFingerprint(_),     \* the fingerprint that make gives a representative
    ReprSize(_),            \* expr_ast_size
    ReprBefore(_, _)        \* the order of canonical strings

\* const_value_from_enode folds as ConstFold does.
ConstValue(n, data) == FoldMake(n, [i \in DOMAIN data |-> data[i].const])

SymMake(n, data) ==
    LET repr == MakeRepr(n, data)
    IN  [repr |-> repr, fp |-> ReprFingerprint(repr), const |-> ConstValue(n, data)]

\* Mutant: the representative of the other class is always taken.
PreferAlways(left, right) == left # right

\* prefer_repr: the right one is smaller, or as large and before it.
PreferRepr(left, right) ==
    \/ ReprSize(right) < ReprSize(left)
    \/ ReprSize(right) = ReprSize(left) /\ ReprBefore(right, left)

\* Two constants that differ leave none.
SymMerge(to, from) ==
    LET merged ==
            [repr |-> IF PreferRepr(to.repr, from.repr) THEN from.repr ELSE to.repr,
             fp |-> MergeFingerprints(to.fp, from.fp),
             const |-> IF to.const = None THEN from.const
                       ELSE IF from.const \in {None, to.const} THEN to.const ELSE None]
    IN  [data |-> merged, changed |-> merged # to]

SymModify(data) == None

-----------------------------------------------------------------------------
(* Properties *)

DataOf(g, id) == g.class[g.leader[id]].data

\* What is known of the symbol of a class was not computed from anything else
\* than its representative: as long as the fingerprint is known, it is the
\* representative's, whichever merges replaced the one or the other.
KnownFromRepr ==
    \A k \in Classes(graph) :
        graph.class[k].data.fp.kind = "ByWeight" =>
            graph.class[k].data.fp = ReprFingerprint(graph.class[k].data.repr)

\* From one step to the next the representative of an id's class only gets
\* smaller or comes before in order, so that the analysis settles.
ReprImproves ==
    [][\A id \in DOMAIN graph.leader :
        LET old == DataOf(graph, id).repr
            new == DataOf(graph', id).repr
        IN  \/ new = old
            \/ ReprSize(new) < ReprSize(old)
            \/ ReprSize(new) = ReprSize(old) /\ ReprBefore(new, old)]_graph

\* A fingerprint only loses information: no merge and no repair makes a class
\* known again that was unknown or in conflict.
FingerprintDegrades ==
    [][\A id \in DOMAIN graph.leader :
        NoBetter(DataOf(graph', id).fp, DataOf(graph, id).fp)]_graph
=============================================================================
