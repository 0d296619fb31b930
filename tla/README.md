# Verification of mpl-simplifier in TLA+

mpl-simplifier simplifies symbolic expressions with `log` and `li2`. It parses
an expression, normalises it, rewrites it in an e-graph, and uses the *symbol*
of an expression (a combination of words over algebraic letters) to decide
which rewrites are acceptable. This directory models the parts of it whose
correctness is hardest to see from the code or to reach with a test, checks the
models with TLC and proves the main results with TLAPS.

## The system

| Part | State | Operations | Interacts with |
| --- | --- | --- | --- |
| parser (`ir/src/lib.rs` 61-240) | position in the tokens | `parse_sexpr` | command line |
| normalisation (`ir/src/lib.rs` 242-500) | none | `normalize`, `to_canonical_string` | every other part |
| evaluation and calculus (`symbol/src/eval.rs`, `calculus.rs`, `integrability_utils.rs`) | `DlogCache` | `eval`, `deriv`, `dlog`, `build_envs` | space engine, integrability check |
| space engine (`symbol/src/space`) | rows in echelon form, statistics | `build_integrable_basis`, `reduce_to_basis`, `check_integrable_n` | fingerprints |
| legacy check (`symbol/src/integrability.rs`) | none | `check_integrable` | pipeline |
| symbol rules (`symbol/src/rules.rs`, `tensor.rs`) | none | `symbol` | pipeline, fingerprints |
| fingerprint cache (`rewrite-symbol/src/cache.rs`, `fingerprint.rs`) | interner and three maps, each behind an `RwLock` | `fingerprint_expr` | e-class analysis, any thread that holds the `Arc` |
| e-class analysis (`rewrite-symbol/src/analysis.rs`) | data of each class | `make`, `merge` | driven by egg; calls `fingerprint_expr` |
| extraction (`rewrite-symbol/src/extractor.rs`, `lib.rs`) | recorded costs | `SymbolCostFn::cost`, `find_best`, `lift_expr` | reads the analysis data |
| rewriting (`rewrite/src`) | the e-graph | `simplify_algebra`, rules, constant folding | egg |
| sample equivalence (`verify/src/lib.rs`) | none | `equiv_on_samples` | tests |
| pipeline (`cli/src/pipeline.rs`) | none | `simplify_expr` with its symbol guard | all of the above |

What makes each part correct, and what is hard about it:

- *space engine*: the basis is exactly the space of words that satisfy the
  sampled constraints; each constraint was sampled often enough; elimination
  ends. Hard: singular sample points, the sparse rows' invariants, the order of
  back substitution, and three implementations of "is this integrable" that
  must agree.
- *fingerprint cache*: an answer depends on the call only, never on the order
  of calls or on other threads. Hard: look-up and insertion are separate
  critical sections, with long computations in between; limits and errors.
- *extraction*: it ends, it builds a tree, it minimises the penalty. Hard: the
  e-graph has cycles, and the cost is not monotone in the children's costs.
- *e-class analysis*: what a class is said to have as representative, constant
  and fingerprint is true of it. Hard: egg merges classes in any order, repairs
  them later, and does not requeue the parents of the class taken in.
- *rewriting*: classes hold expressions of one value, the run ends, and what is
  extracted has the value of the input. Hard: matches are applied after other
  matches changed the graph; limits stop a run anywhere; powers of zero.
- *normalisation*: values kept, a canonical form reached. Hard: products of
  powers of products, exponents at the ends of `i32`, hash map order.
- *symbol rules*: symbols are integrable. *Pipeline*: the answer has the value
  of the input and, with the guard, its symbol. Hard: letters are normalised
  again on the way, and normalising is not idempotent.
- *parser*: it accepts the language, all of it, and reads back what is printed.

`PROJECT.json` lists every hazard at its line with the properties that cover it, or
why none does.

## The modules

| Module | What it is |
| --- | --- |
| `Coefficients` | the field operations the crates use, as CONSTANTS with `CoeffAssumption` |
| `Expressions` | expression trees, `eval`, `deriv`, `dlog`, `collect_vars` as recursive operators (used by TLC only) |
| `IntegrableBasis` | `build_integrable_basis`, one action per iteration of a loop whose body changes state |
| `SpaceQueries` | `reduce_to_basis`, `reconstruct_from_basis`, `check_integrable_n`, `check_integrable` on the basis returned |
| `MCSpace` | instances for TLC: a prime field, eighteen calls |
| `NaturalLemmas` | smallest and largest elements of sets of naturals, finite sets in order |
| `IntegrableBasisLemmas` | lemmas about sums in a field, sparse rows, elimination, null vectors and enumerations |
| `SpaceProofs` | the theorems about `IntegrableBasis` and `SpaceQueries` |
| `Fingerprints` | the pure part of `fingerprint.rs`: weights, alphabets, keys, the fingerprint of a weight |
| `FingerprintService` | the abstract specification: each call is answered with a fingerprint of that call |
| `FingerprintCache` | threads running `fingerprint_expr` on one cache; implements `FingerprintService` |
| `MCFingerprint` | instances for TLC |
| `RebuiltGraph` | an e-graph as extraction reads it, and what makes it a good one |
| `Extractor` | `SymbolCostFn` under egg's relaxation, `find_best`, the exponents of `lift_expr` |
| `MCExtractor` | instances for TLC |
| `ExtractorProofs` | the theorems about extraction |
| `FingerprintCacheProofs` | the theorems about the cache: its invariant, and that it implements `FingerprintService` |
| `Sampling`, `LegacyCheck` | sample points, words, and `check_integrable` for weight two; shared by the space engine and the pipeline |
| `CanonicalForm` | `Expr::normalize` and the order of operands |
| `Normalize`, `MCNormalize` | an expression that is normalised again and again |
| `Parser`, `MCParser` | `parse_sexpr` and `to_canonical_string` |
| `EGraph` | egg's e-graph as the code uses it (external), with the analysis as a parameter |
| `Saturation` | the rules, and egg's runner (external) over `EGraph` |
| `ConstFold` | the analysis of `simplify_algebra`: constant folding |
| `SaturationProofs` | the theorems about `Saturation`, with any analysis and with `ConstFold` |
| `ExtractionProofs` | the theorems about what saturation hands to extraction: composes `Saturation` and `RebuiltGraph` |
| `Lowering` | `lower_expr`, and the value of a list of nodes |
| `SimplifyAlgebra`, `MCSimplifyAlgebra` | `simplify_algebra`: composes `ConstFold` and `Lowering`, adds extraction by size and lifting |
| `SymbolRules` | `symbol` and `Symbol`'s operations |
| `Pipeline`, `MCPipeline` | `simplify_expr` without `--symbol-aware`: composes `SimplifyAlgebra`, `SymbolRules` and `LegacyCheck` |
| `FingerprintMerge` | `merge_fingerprints` |
| `SymbolData` | the data of the symbol-aware analysis and how `merge` treats them, over any representatives |
| `SymbolDataProofs` | the theorems about `FingerprintMerge` and `SymbolData` |
| `SymbolAnalysis`, `MCSymbolAnalysis` | `SymbolAnalysis` and `simplify_symbol_aware`: composes `SimplifyAlgebra`, `SymbolRules` and `SymbolData` |
| `PrimeField` | arithmetic modulo a prime, for the instances |

Expression trees need recursive operators, with which the prover has no backend.
`Expressions`, `CanonicalForm`, `Lowering` and everything that builds on them are
used by runs only; the modules with theorems do not reach them. The e-graph and
the runner work on lists of nodes, as egg does, and need no recursion.

### IntegrableBasis and SpaceQueries

The state is the call, where it is (`status`), the columns (`words`), the table
of logarithmic derivatives, the constraints still to sample (`todo`: position,
context, pair of variables, in the order of the nested loops), the next sample
point and the valid ones so far, the sparse row in the hands of `insert_row`,
`pivot_rows`, the counters of `BasisStats`, and the result. `Sample` is the body
of the innermost loop up to `insert_row`; `Reduce`, `DropRow` and `StoreRow` are
the three things an iteration of `insert_row` can do; `CloseConstraint` is the
test for two valid samples; `Finish` computes free columns and null vectors.
Columns, letters and variables are numbered from 1. Sparse rows are functions on
the set of their columns.

`SpaceQueries` adds no state: its operators are the functions that take a basis,
and its properties quantify over symbols asked about a returned basis.

Data: coefficients come from a field. Rational64 has 64-bit parts and panics or
wraps past them; this is not represented (see *Not modelled*). `eval`'s error
for a negative power of zero is the singular sample; any other error ends the
call, as in the code.

### Fingerprints, FingerprintService and FingerprintCache

An expression is a model value; what `symbol` gives for it, the basis
`build_integrable_basis` returns and the coordinates `reduce_to_basis` computes
are CONSTANT operators, since the previous modules describe them. A hash is
represented by the data it covers, so a fingerprint key is the pair of
expression and configuration, and a collision of the 64-bit FNV hash itself is
not represented. The alphabet hash is the exception: `build_alphabet` feeds the
letters' names to the hash with nothing between them, so it is represented by
the number of letters and the concatenation of their names, exactly the bytes
hashed.

Each lock of the cache is held for one look-up or one insertion, no lock is
held while another is taken, and a poisoned lock is entered all the same. So
one critical section is one action, and between two actions of a call any other
thread may run: `InternRead`/`InternWrite`, `LookupFingerprint` ...  `Store`,
`LookupBasis`/`BuildBasis`. `GiveUp` is fuel or time running out; the clock can
run out before any weight.

`FingerprintService` has one step per call and one per answer; a call may be
answered with its reference fingerprint, or, with a time limit, with
`BudgetExhausted`. `ImplementsService` is the refinement
(`asked <- call, busy <- {threads not idle}`, `answer` as it is).

### Extractor

`egraph` is a rebuilt e-graph: the Runner rebuilds after each iteration, so
every node is found by `lookup` and the local penalty is that of the node's
class. egg visits the classes in the order of its hash map, the same in each
pass: `order` is any order. `Improve`/`Keep` visit one class, `NextPass` and
`FindBest` are the end of a pass that changed something, or nothing.
`Pop`/`Push`/`Build` are the loop of `build_recexpr`, and `Lift` is
`lift_expr`'s check of exponents. These loops are egg 0.9.5's, which is not in
this repository; they are modelled from their use and marked external.
`tie_hash` is an arbitrary function.

The cost of a node is not monotone: when a child gets a smaller penalty and a
larger size, its parent may get more expensive while keeping its old record. A
recorded size or tie can therefore be stale at the end. What survives, and is
checked and proved: the penalty is exact, and costs fall along recorded nodes.

### CanonicalForm and Normalize

`Norm` is `normalize`, with one operator per function it calls; the loop of
`normalize_mul` is `Multiply`, which takes factors off the end of its stack and
keeps the product, `pow_map` and the factors set aside. `normalize_pow`
normalises the base of a power of a power a second time, and so does
`NormalizePow`: it matters, since normalising twice may give another result.
The state of `Normalize` is the expression as parsed and what repeated calls
have made of it.

Exponents are two's complement integers up to `MaxExp`, so that a narrow range
shows what happens at the ends of `i32`. Whether `pow_rational` can represent a
power is the operator `PowFits`. Canonical strings are sequences of tokens that
compare as the strings do, but for names with a common prefix and numerals,
which compare as numbers.

The documents say that normalising is idempotent. It is not: `normalize_twice`
finds `2 (x(-y))^-2 (x(-y))^3`. What holds, and is checked, is that a second call
changes an expression only by making it smaller, and that an expression no call
changes has the documented form, but for the sign of a negated product, which
is not absorbed into its coefficient.

### Parser

A text is a sequence of tokens; an integer token carries its value and an
exponent is in range or not. Each function of the parser is an operator that
returns an expression and the index of the next token, or the error the code
returns. `parse_pow_list` has its own path, as in the code: it reads one
expression and then wants an integer token. An operator's word names a variable
where an argument is expected, except `/`: `parse_atom` looks for a slash before
anything else and finds a fraction of two empty numbers, so `/`, `(+ /)` and
`(/ / 2)` are refused. `Readings` is the reference: all ways to read a text, by
cutting it anywhere, without an order of reading. It has its own account of what
an atom stands for (`AtomReadings`) and of what each operator takes
(`OperatorReadings`) and uses none of the parser's.

### EGraph, Saturation and Lowering

A graph is a record: the leader of each id (path compression does not show),
the classes with nodes, parents and data, the memo, and the two lists of
repairs. `AddNode` and `Union` call `Make`, `Merge` and `Modify` where egg calls
the analysis, `RepairMemo` and `RepairData` are one turn each of the two loops of
a rebuild, and `CanonicalNodes` is its end. As in egg, each loop is run until its
list is empty before the other gets its turn (phases `rebuild` and `reanalyse` of
`Saturation`); `dirty` is a set here, and its nodes may come in any order, which
includes egg's. `ModifyClass` unfolds the mutual calls of
`union` and `modify` once: a class that is united with its constant calls modify
again, and that call finds the constant in the memo and in the class.

`worth` and `defined` are history: what the expression that an id was made from
is worth at each sample point, and where it has a value of its own. A power of
zero with a negative exponent, or one whose exponent is no integer, has none;
there `Undefined` gives it some value, which depends on base and exponent only,
so that every node is worth something. `log` and `li2` are arbitrary functions of
their argument's value (`Opaque`), so rewriting below them must be exact.

`Saturation` runs the runner. An expression, or the right side of a rule, is a
list of nodes that name nodes before them; `AddNext` adds one of them. `Search`
finds all matches of all rules in the rebuilt graph, `ApplyMatch` takes up one of
the rule's matches, in any order, and `UniteMatch` unites what was added with the
class matched. `NextRule` looks at the limits, `Rebuilt` ends the iteration. The
node limit and the time limit are the nondeterministic `over`; `IterLimit` is the
iteration limit. The code leaves the runner egg's default scheduler,
`BackoffScheduler`, which leaves a rule with more than a thousand matches out for
some iterations and keeps the runner from stopping as saturated meanwhile;
`Search` may ban any of the sets of rules in `Bans`, whatever the number of matches.
The rules and their order are the code's; a rule is two lists,
in which a variable is a number. `IsMatch` says what a match is; `Candidates` only
keeps TLC from trying all assignments, by looking at the left side from its root
down, and a match is one that `IsMatch` accepts. The analysis is the parameter.

`Lowering` is `lower_expr`. `LowerNormal`, which the instances give for `Lowered`,
normalises first, as `simplify_algebra` and `simplify_symbol_aware` do although the
pipeline already did.

A class is sound when its ids are worth the same, and so are its nodes.

### ConstFold and SimplifyAlgebra

`FoldMake`, `FoldMerge` and `FoldModify` are `ConstFold`. `merge` reports no change for the
class taken in, so egg does not fold its parents again: some constants stay
unfolded in the graph, and normalising the result makes up for it
(`NothingLeftToFold`). Extraction takes any smallest tree, since which one egg
meets first depends on hashes.

### SymbolRules and Pipeline

A symbol is a function from words of normalised expressions to nonzero
coefficients; `NotImplemented` is its error. `Pipeline` adds to `SimplifyAlgebra`
the two flags, the guard and the result. When a symbol cannot be computed, the
guard accepts the rewriting, as README.md of the repository says; that the value
is kept then too is `InputValueKept`, which is checked for every outcome.

`SymbolKept` compares letters that are normalised until nothing changes. With
letters normalised once it would not hold: the input
`log(2 (x(-y))^-2 (x(-y))^3)` is one whose letter a second call changes.

### SymbolData, FingerprintMerge and SymbolAnalysis

The same runner with the data of `--symbol-aware`: representative, fingerprint,
constant. `SymbolData` has `make`, `merge` and `modify` with the representatives left
open: how one is made from a node, its fingerprint, its size and the order of
canonical strings are CONSTANT operators, so that it can be proved about.
`SymbolAnalysis` gives them: normal forms, `FingerprintOf`, `expr_ast_size` and the
order of `Text`. Coordinates and residual over a basis are represented by the words
they stand for (what `SpaceQueries` checks). The code normalises on the way what is
normal already, and because that is not idempotent the model does so too: the
representative in `fingerprint_expr`, the letters in `build_alphabet`, and the
alphabet again in `reduce_to_basis`, where a letter that still changes is not found
(`LettersFound`); one of the inputs is there for that. A basis that cannot be built
is given by `BasisFails`, and fingerprints are computed without the cache, whose
refinement of `FingerprintService` is what justifies that. `Outcome` has every
way a weight ends. The time limit of a fingerprint is left out here: it is in
`FingerprintCache`.

Extraction is open (`AnyTrees`): any tree of the root's class in which no class
is below itself, so that `ValueKept` does not rest on the cost function. The
module `Extractor` models which one is chosen; its `EGraphAssumption` holds of every
graph that the runner stops with, as `GraphsHandedOver` proves.

In this mode `modify` adds nothing, so numbers are not folded into the graph and
the rules about zero and one fire only on numbers written in the input.

A fingerprint in a class need not be that of its representative, though
`analysis.rs` says of the field "Fingerprint computed from the representative.": merges
choose the two apart. A class that merged two different fingerprints holds a
`Conflict`, which no expression has. What holds, and is checked, is
`KnownFromRepr`: a fingerprint that is known is the representative's.

## The runs

| Run | Question | Bounds |
| --- | --- | --- |
| `space` | is the basis what the sampled constraints define, and do the three tests agree? | prime field of 101 elements, calls below |
| `space_seven` | is that basis integrable with more variables than sample values? | one call, seven variables, eight letters |
| `fingerprint_shared` | can two threads disturb each other through the cache? | 2 threads, 2 calls each, 9 requests, threads symmetric |
| `fingerprint_calls` | does every call end? | 2 threads, 1 call each, 9 requests |
| `fingerprint_collision` | is a cached basis the one of the alphabet that looks it up? | 2 threads, 1 call each, 2 requests |
| `extraction` | does extraction end with a tree of least penalty? | 2 e-graphs of 5 classes, all 120 orders, 16 assignments of fingerprints |
| `normalize` | does normalising keep values, ignore the order of operands, and end in the documented form? | 3183 expressions nested up to three deep, exponents -16 to 15 |
| `normalize_twice` | is normalising idempotent? | the same, exponents -64 to 63 |
| `parser` | is exactly the language accepted, and read back what is printed? | all texts of up to 5 tokens over 7; some thousand printed expressions with one token lost, doubled or replaced |
| `simplify_algebra` | does a run of rewriting end with an expression of the same value? | 28 expressions, both modes, every order of matches, limits anywhere, rules left out, 3 iterations |
| `pipeline` | does `simplify_expr` keep the value and, with the guard, the symbol? | 20 expressions, both modes and flags, 2 iterations |
| `symbol_analysis` | does the analysis say the truth of each class? | 12 expressions, 1 unit of fuel, basis failures |

`space`. The eighteen calls cover weights 0 to 3, one to three variables,
alphabets with and without integrable extra words, first-letter and
adjacent-pair constraints that are valid, empty or of the wrong shape, an
alphabet with a letter that is singular at three of the five sample points
(enough samples) and at four (too few, for the first constraint or for a
later one only), and a letter that is no algebraic
expression. 101 keeps the sample values of `build_envs` different and defined.
A prime field can make a row vanish that would not vanish over the rationals;
the properties relate the basis to the sampled rows in the same field, so they
say nothing else than over the rationals. The symbols asked are each word, each
word with two neighbouring letters swapped and added or subtracted, and the
basis vectors. `VectorsIntegrable` takes a point that `build_envs` does not sample,
with another value for each variable (`Elsewhere`): five points are few, and
this asks whether they were enough.

`space_seven` is expected to fail. `build_envs` has six values that rotate along
the variables, so a seventh variable equals the first at every sample point.
For the letters `a`, ..., `g` and `a + g` every constraint on the first or the
last variable is sampled only where `a = g`; the rows have rank 21, and the basis
has vectors that are not integrable elsewhere. See `findings` in `PROJECT.json`.

`fingerprint_shared` and `fingerprint_calls`. The first is about what may happen
and the second about what must, with fairness and without symmetry. Two threads are enough for every
race between a look-up and an insertion; two calls each let a thread meet
entries of its own and of the other. The requests share weights, alphabets and
expressions in every combination: same expression with other fuel, same
alphabet under other constraints, with and without a time limit, over the limit,
no fuel, no symbol, no basis. `MaxCalls` bounds the calls of a thread; `Done`
is the step of the system at rest.

`fingerprint_collision` is expected to fail: `{a + bc, a, bc}` and
`{a + bc, ab, c}` have one alphabet hash, so a thread can find the basis of the
other alphabet, while `cache.rs` says "Cached bases keyed by
alphabet/constraints/weight". See `findings` in `PROJECT.json`.

`extraction`. One e-graph has the cycles that `add-zero` makes, on an inner class
and on an exponent; the other has the two forms of `factor-left`. The tie hash
has collisions and is not monotone.

`normalize`. The expressions are all sums, products and powers of thirty-odd
small ones (numbers, variables, negations, powers, sums and products), products
in which two powers of one small expression meet, and three kinds of deeper
nesting; the values are compared at sixteen sample points, among them zero. The
range of exponents is narrow enough that merging (9 + 9) and nesting (3 * 9) overflow
in some of them. With exponents that overflow, `Shrinks`, `OrderBlind` and
`FixpointsCanonical` need not hold (a factor is set aside, and which one depends
on the order), so they are stated for expressions whose exponents cannot
overflow (`InRange`), the great majority here; at 32 bits the others have exponents
near 2^31. `SameValue` and `TypeOK` are stated for all.

`normalize_twice` is expected to fail, see above.

`parser`. Five tokens are the shortest texts with an operator in an operator, and
with any operator applied to two arguments; the damaged expressions are up to
twenty tokens long. The seven tokens contain an operator of any number of
arguments, the two special ones, a name and a number; the other operators are in
the printed expressions and in the replacements.

`simplify_algebra`, `pipeline` and `symbol_analysis`. The expressions are those
whose rewriting unites classes of interest: sums with a common factor on either
side or both, factors that cancel to zero or leave one, in places where it
matters (under a power that is negative, in `log` and `li2`), and products of
logarithms that have a symbol until they are factored. Graphs have up to some
dozen classes. No rule has a thousand matches there; `Bans` lets two of the runs
leave rules out all the same (the first of adding zero, that of multiplying by
one together with that of factoring, and that of factoring), for the graphs in
which they would be. Two iterations are what factoring and then simplifying what was
factored need; the mutants show that the interesting unions happen. Values are
compared at four points of a field of 101 elements, with `log` and `li2` as fixed
polynomials; an identity that fails over the rationals can in principle hold at
all four, the mutants of the rules show that wrong rules are found.

Every property has a mutant, a plausible slip in the definition it depends on,
under which TLC finds the property violated.

## Fairness

`FingerprintCache!FairSpec` has weak fairness of each thread's steps inside a
call: the code has no wait other than for a lock, and a lock is held for one
map operation, so a thread that is scheduled moves. Starting a call is not
fair: nobody has to call. `Extractor!FairSpec` has weak fairness of the steps of
the one thread that extracts. `IntegrableBasis` needs no fairness: `Progress`
says that every step decreases a well-founded measure. `SimplifyAlgebra!FairSpec`
says that rewriting does not stop for ever before it has extracted: the loop of
egg's runner is one thread, and each of its steps is enabled until extraction is
done, so that this is the weak fairness of the whole step (written without
`ENABLED`, which TLC would evaluate by looking for the matches once more).
`SymbolAnalysis`, `Pipeline`, `Normalize` and `Parser` state safety only and need
no fairness.

## The proofs

*SpaceProofs*, for every field, every alphabet with its derivatives, every set
of calls and every symbol asked about (`CoeffAssumption`, which is the field
laws, `JobsAssumption`, `SymbolsAssumption`):

- `RowsWellFormed` (`TypeOK`), `PivotsInEchelonForm` (`EchelonForm`),
  `CallsProgress` (`Progress`).
- The invariant `IInv` adds `Prepared` to the properties: while sampling, the
  columns are the words of the call and `todo` holds constraints over them. It
  is needed since `TypeOK` alone does not say that a sampled row stays within
  the columns, or that the wedge is computed from coefficients.
- `CallsProgress` needs, beyond the invariant, that one pass of `insert_row`
  removes the leading column and adds nothing before it (`AddScaledRowClears`,
  `ReduceMovesRight`): this is where `EchelonForm` and the field laws
  `x - x * 1 = 0` enter.
- `BasisWellSampled` (`EnoughSamples`), with the invariant `SInv`: a constraint of
  the call has samples enough or is still in `todo`, and `valid` is the number
  of valid samples of the first one there. It rests on `ConstraintsOfWords`: the
  enumeration in loop order leaves no constraint out.
- `KernelKept`, with the invariant `KInv`: the echelon rows have exactly the
  solutions of the rows sampled so far. Nothing is added (`NoneAdded`: each pivot
  row is satisfied by whatever satisfies the samples), nothing is lost
  (`NoneLost`: the rows and the row in hand together force every sample), and in
  the end every basis vector solves the rows and those solve nothing else
  (`Solved`).
- `NullSpacesExact` (`NullSpaceExact`) and `CoordinatesAreCanonical`
  (`CoordinatesCanonical`) follow. The first says that what `reduce_to_basis`
  finds no residual for is what the sampled rows allow, and the second that
  reading coefficients at the free columns gives back the coordinates of each
  basis vector, and a residual with no word at a free column. The argument is
  back substitution: a null vector takes one at its own free column, zero at the
  others, and at a pivot the only value that satisfies its row, from the last
  pivot to the first (`NullVectorsAreBasis`); a vector that satisfies the rows
  and vanishes at the free columns is zero (`KernelFromFreeColumns`), so it is
  the combination of null vectors that its free columns name
  (`NullBasisSpans`).
- `ChecksGiveOneAnswer` (`ChecksAgree`): the general test and the older one, which
  share no loop, agree up to weight two. A constraint on words of two letters has
  no context, so that there is one for each pair of variables, and the two orders
  are the same (`PairsOneByOne`, by ranks); for each pair and sample point the
  grouped sum and the sum word by word are over the same words, by a bijection
  (`ValuesAgree`, `SumReindexed`). The theorem supposes `ChecksComparable`: no letter
  used fails, or one fails at every sample point and none is singular. Without
  it the statement is false: `check_integrable_n` evaluates all letters before it
  tests anything, and ends with the error, where `check_integrable`, word by word,
  may first meet a violation or a singular letter. Over the letters `g`, `x`, `y`
  and `log x`, with `g` singular at every sample, for instance, a symbol with a
  word of `g` before one of `log x` gets the error from the one and too few samples
  from the other. `MCSpace` has TLC evaluate `ChecksComparable`, so that the
  instances checked satisfy it.
- `CheckSamplesTheBasis` (`CheckAnswersBasis`): the direct test and the basis give
  compatible answers about a symbol over the columns whose letters have all the
  variables of the alphabet. What `check_integrable_n` accepts leaves no residual,
  and what leaves no residual it does not refuse, unless the basis skipped a
  sample. Both samples are then of the same points (`SameTable`), the sum of the
  test is the value of the sampled row (`TotalIsRowValue`), its constraints are
  those of the basis that concern one of its words (`ConstraintsOfSymbol`), and
  `NullSpacesExact` does the rest. The two conditions are where the code's answers
  may part: `build_envs` gives a symbol that lacks a variable other sample points,
  and a row is skipped when a letter of *any* column with its context is singular,
  also one the symbol lacks, so that the test may see a violation the basis does
  not.
- The sums in these statements are folds over sequences. The library's induction
  takes an operator, so `IntegrableBasisLemmas` states induction with *sets*: a set of
  naturals, or of finite subsets, that is closed under one step holds all
  (`RemovalInduction`), and a function defined by recursion exists
  (`RecursionExists`). From these follow that a sum splits, is linear and does
  not depend on the order.

*ExtractorProofs*, for every finite e-graph whose nodes have Lang's arities,
every order and every hash (`EGraphAssumption`: `GoodGraph` says that children are
classes, that an exponent's class holds the number it was lowered from and that
a number's class holds no other kind of leaf but numbers, and `Grounded` that every
class has an expression):

- `ExtractionAcyclic` (`BestDescends`). The argument does not need monotone
  costs: a record is at least as large as the cost at the time it was made,
  that cost was above the children's costs then, and those only fall.
- `PenaltiesExact` (`PenaltyExact`). Soundness: a class is in every set closed
  under its penalty, because the children of its node are. Completeness: when
  nothing changes any more (`Settled`, which follows the visited classes through
  a pass), the classes with at most a given penalty are themselves a closed set.
- `NeverPanics`: the relaxation prices every class before it ends (`AllPriced`, by
  `Grounded`: the classes priced are closed), so that `find_best` finds the costs
  it unwraps.
- `ExponentsLift` (`NumbersStay`). A number costs its class' own penalty and
  one node, which no node with children can match.

*FingerprintCacheProofs*, for every set of threads and of requests
(`RequestAssumption`, `MaxCallsAssumption`):

- `TypeCorrect` (`TypeOK`) and `OneArcPerExpression` (`InternedOnce`).
- The invariant `IInv` is `TypeOK`, `InternedOnce` and `PerThread` (each local
  is a function of the thread, which an `EXCEPT` step needs). `InternedOnce` is
  inductive with the part of `TypeOK` that says what a thread's position implies:
  an entry of the interner is never replaced, and a thread leaves the two steps
  of `intern` only with the Arc that is there at the time.

The refinement, in the same module, from the same assumptions and the hypothesis
`AlphabetsApart`: alphabets of one weight that are fed to the hash alike are
alike. The two requests of `fingerprint_collision` do not satisfy it, and that
run shows what happens then; those of the other runs do.

- `CachesStayRight`: every entry of the three caches is right for its key (what
  a call would have computed without the cache), and what a call has so far is
  right for the call: its `by_weight` is the reference of the weights done, its
  fuel is the fuel of the call less one for each of them. It is needed since an
  entry is read long after, and by another thread than, the call that made it.
- `CacheImplementsService` (`ImplementsService`): from this invariant, the step
  that returns is a step of the service for its call, and every other step is a
  stutter.
- `StoredForGood` (`EntriesStable`): two threads that compute one fingerprint
  and store it one after the other store the same, since without a time limit a
  call has one answer (`OneAnswer`).

*SaturationProofs*, for every field, every set of sample points and values of
`log` and `li2` (`ValuesAssumption`) that tells a variable from a number
(`PointsAssumption`), every set of expressions whose lists of nodes are well formed
and have integers for exponents (`LoweredAssumption`), both rule sets and any
iteration limit and any `Bans`. The
theorems are about `SaturationSpec`, which `simplify_algebra` and
`simplify_symbol_aware` both run; `SimplifyAlgebra` and `SymbolAnalysis` only add
what happens to the graph once the runner has stopped.

- `RewritingSound` (`ClassesSound`), for every analysis with `AnalysisSound`: if
  the constants that modify would add to the children's classes are what those
  are worth, so is the one for the node made from them, and merging keeps it so.
  `FoldingSound` and `SymbolAwareSound` are its two instances: `ConstFold` satisfies
  the hypothesis by the laws of powers, and an analysis whose modify adds nothing
  satisfies it without any condition on make and merge.
- `ClassesSound` is not inductive, since nodes live on outside the classes: in
  the memo, among the parents, on the list of repairs and among the nodes to
  analyse again. `Sound` says of all of them that they are worth what their id is
  worth. `SInv` adds the runner's part: the matches found and not yet applied
  still hold the equations of the search (`SoundMatch`, which speaks of ids and so
  outlives the classes it names), and of the list that is being added each node
  added so far is worth what the list says (`SoundIds`).
- Every operation on a graph keeps it sound and lets it only grow (`Keeps`): no
  id changes its worth. That is why matches may be applied late
  (`SoundMatchKept`), and why a limit may stop the iteration anywhere.
- The rules are sound on their own (`SafeRulesSound`, `AggressiveRulesSound`):
  whatever satisfies the left side's equations satisfies those of the right. Here
  the field laws enter: `x * 0 = 0`, which follows from them (`ZeroTimes`), powers
  with exponents zero and one, and distributivity.
- `ExponentsStay` (`ExponentsStayIntegers`), for every analysis with
  `AnalysisSound`: where the runner stops, the class of an exponent has its
  integer, and a class with an integer has no variable and no other number. The
  second half is soundness: values tell them apart, since a number is worth the
  same at every sample point and a variable is not (`PointsAssumption`). The first
  half is an invariant of its own (`Placed`): every number that the graph knows, from a
  class, the memo, a parent list or the list of repairs, is in the class of its
  id, and the exponent of every power it knows has its integer. The memo
  matters because egg looks a node up there before it adds one, and a node
  found there need not be a node of its class, for `CanonicalNodes` rewrites those
  at the end of a rebuild; a number has no children to rewrite. `PInv` adds that the
  list being lowered finds its exponents as it left them (`NumbersPlaced`) and
  that children are leaders after a rebuild (`KidsLead`). New powers come only
  from the input: no rule has one on its right side (`RulesAddNoPower`).
- `FoldingExact` (`ConstantsExact`), for folding. The invariant `Folded` says that a
  class has a constant if and only if it holds a number, and is inductive only
  together with `Placed`, or a later repair could bring a number into a class
  without a constant; and between a union or a repair and the call of modify,
  the one class that modify is called for may have a constant and no number yet
  (`open`). That there is only one number then follows from soundness, for two
  numbers in one class are worth the same at some point.

*ExtractionProofs*, from the assumptions of `SaturationProofs`, joins saturation to
what comes after it:

- `GraphsHandedOver`, for every analysis with `AnalysisSound`: the graph that the
  runner stops with, saturated or at a limit, is one that `Extractor` takes up,
  whatever the fingerprints of its classes. `Handed` is the translation: classes
  with their nodes, a number named by whether it fits an exponent, and the
  leader of the root. Both parts of `EGraphAssumption` are shown of it. `GoodGraph`
  (children are classes, exponents and numbers in their places) comes from `PInv`
  and soundness. `Grounded` (every class has an expression) needs an invariant of
  its own, for rules and congruence tie classes into cycles, the very class an
  expression was lowered into among them: `Founded`, that along some node of its
  class every *id* leads to ids that are older. Ids are handed out in order and never
  taken back, so a union only gives an id more nodes to choose from, and rebuilding
  renames children within their classes. `HandedGrounded` takes the oldest id whose
  class has no expression.
- `ExtractionSound`: any expression picked from the root's class (a list of nodes,
  each assigned a class that holds it) is worth at every sample point what the
  expression given is worth (`ListWorth`). Soundness of the classes gives one half
  (`PickedWorth`); the other, that the root is worth what was lowered, is the
  invariant `RInv`: while the list is added each id is worth what its node is worth
  in the list (`WorthsOf`), and no step changes an id's worth (`GraphExtends`).
- `AlgebraSound` and `SymbolAwareKept` are both results for the two analyses.

*SymbolDataProofs* has two parts. For every digest of outcomes that is a number
(`DigestAssumption`): merging covers every combination of kinds (`MergeType`),
does not depend on the order of the two (`MergeCommutes`), never says more than
its arguments did (`MergeNoBetter`), and is known only when both were the same
(`KnownOnlyIfEqual`). It is *not* associative, not even in the kind of the
result: with known `a` and `b` that differ and an unknown `u`, merging `a` and `b`
first gives a conflict that stays one, and merging `b` and `u` first gives an
unknown. What the code relies on, that a known fingerprint is one of every
expression of the class, does not need it.

The second part follows these through runs of the runner, for any representatives
whose fingerprints are fingerprints:

- `KnownStaysFromRepr` (`KnownFromRepr`). A merge may take the representative from
  one class and the fingerprint from the other; a known one survives only if both
  are the same, and then it is that of either representative.
- `ReprsImprove` (`ReprImproves`), where sizes are numbers and canonical strings
  tell representatives apart and are ordered, and `FingerprintsDegrade`
  (`FingerprintDegrades`). Both are about one step and about ids, whose class may
  have been taken in by another: `Learns` says that a step changes the data of an
  id by at most one merge, on either side, with data that a class of its worth may
  have. In this mode modify adds nothing, so no step makes a second merge.
- `AwareConstantsExact`: a constant of this analysis is what its class is worth.
  So the branch of `merge` that drops two constants that differ is never taken.

Only model-checked:

- `CheckMatchesBasis` beyond `CheckSamplesTheBasis`: for a symbol that lacks a variable
  of the alphabet, or mixes weights, it compares the answers at different sample
  points, which agree on the instances only; and `VectorsIntegrable`, which `space_seven` shows to be false for
  some alphabets.
- `ReprStandsForClass`, that a representative has the value of its class: it is
  stated where both have one, and that is not inductive, since `0 * a = 0` and
  `a^0 = 1` unite what is undefined at a point with what is not; over the
  expressions of the instances the merges that would break it do not occur.
- Liveness (`CallsReturn`, `Extracts`, `Returns`).
- What `Normalize`, `Parser`, `SimplifyAlgebra`, `Pipeline` and `SymbolAnalysis` say of
  expression trees, whose definitions are recursive, where the prover has no
  backend. That includes the steps around saturation: that `LowerNormal` gives
  well-formed lists with the value of the expression (an assumption that TLC
  evaluates for the instances), and that lifting and the normalisation after it
  keep the value of the list extracted.

## Not modelled

- The 64-bit width of Rational64 in elimination, evaluation, `normalize` and
  constant folding. Exponents do have their width.
- Time limits are a choice the environment makes: in rewriting between any two
  steps of the runner, in fingerprints (`FingerprintCache`) between any two
  weights. `SymbolAnalysis` calls the fingerprint function without one.
- `BasisStats` counters that nothing reads back (hits, timings, non-zeros).
- Collisions of the FNV hash, other than those of equal input.
- The characters of a text: `Parser` starts from tokens.
- A `PowerOverflow` in `mpl-verify`'s evaluation, which ends a comparison.
- The argument parsing and printing of the binaries; tests, benches, reports.

## Plan

Done: the modules above, their runs, and the proofs of the space engine, of
extraction, of the fingerprint cache and its refinement, of equality saturation
with its two analyses, and of what saturation hands to extraction.

Left, in this order:

1. The 64-bit width of the elimination, with bounds on the input's coefficients.
2. Larger instances: e-graphs of three iterations with the symbol analysis, and
   three threads on one cache.
