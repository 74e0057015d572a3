------------------------------ MODULE ArgvPattern ------------------------------
(***************************************************************************)
(* fuzz/input/pattern.rs: the arguments a declared pattern can give, as    *)
(* the set of all of them.                                                 *)
(*                                                                         *)
(* A pattern is a sequence of alternatives, an alternative the options it  *)
(* needs and a sequence of elements, an element how often its atom occurs. *)
(* One spelling stands for all spellings of an option, and an argument     *)
(* that is no option only says what it names: "file", "existing", or       *)
(* "missing" entries of the fixture, "." its root, "-" the standard input, *)
(* or some other "value".  A value captured or given again is thus one of  *)
(* those the atom gives anyway, and the weights only say which alternative *)
(* is common.                                                              *)
(***************************************************************************)
EXTENDS Naturals, SequencesExt, FiniteSetsExt

CONSTANT
  Computed(_, _, _)   \* what a generator computes from arguments, pool and fixture

\* What the fold ends in where the code panics.
Panic == <<"panic">>

\* No pattern of the model repeats an element more often than this.
Unbounded == 9

Element(least, most, atom) == [min |-> least, max |-> most, atom |-> atom]

Once(atom) == Element(1, 1, atom)
Optional(atom) == Element(0, 1, atom)
UpToBudget(least, atom) == Element(least, Unbounded, atom)

Alternative(needs, elements) == [needs |-> needs, elements |-> elements]

Literal(word) == [kind |-> "word", words |-> {word}]
Value == Literal("value")
\* A value the generator computes from the fixture and the arguments so far.
Generated == [kind |-> "generated"]
Option(options) == [kind |-> "option", options |-> options, fallback |-> {}]
OptionOr(options, word) == [kind |-> "option", options |-> options, fallback |-> {word}]
\* An option with a value, in its own argument (width 2) or in the next.
OptionValue(options, widths) ==
  [kind |-> "pair", forms |-> {[option |-> o, width |-> w] : o \in options, w \in widths}]

\* What an operand may be, and what it is when none of that is left.
Operand(offers, otherwise) ==
  [kind |-> "operand", offers |-> offers, otherwise |-> otherwise, unique |-> FALSE, once |-> FALSE]

ExistingFile == Operand({"file"}, ".")
ExistingFileUnique == [ExistingFile EXCEPT !.unique = TRUE]
AnyTarget == Operand({"existing", "missing"}, "missing")
ExistingTarget == Operand({"existing"}, "missing")
Stream == Operand({"file", "missing", "-"}, "-")
StreamOnce == [Stream EXCEPT !.once = TRUE]
OptionOrOperand(operand) == [operand EXCEPT !.kind = "any"]

-----------------------------------------------------------------------------

Supported(atom, pool) ==
  CASE atom.kind = "option" -> atom.fallback # {} \/ atom.options \cap pool # {}
    [] atom.kind = "pair" -> \E f \in atom.forms : f.option \in pool
    [] OTHER -> TRUE

Eligible(pattern, pool) ==
  {a \in ToSet(pattern) :
     /\ a.needs \subseteq pool
     /\ \A e \in ToSet(a.elements) : e.min > 0 => Supported(e.atom, pool)}

\* The same, had the value of an option never been counted.
AtomMinimumOne(atom, pool) == 1

\* The least arguments an atom takes.
AtomMinimum(atom, pool) ==
  IF atom.kind = "pair" /\ Supported(atom, pool)
  THEN Min({f.width : f \in {g \in atom.forms : g.option \in pool}})
  ELSE 1

MinimumTokens(elements, pool) ==
  FoldLeft(LAMBDA sum, e : sum + e.min * AtomMinimum(e.atom, pool), 0, elements)

\* How often an element may occur where most times fit.
Counts(e, most) == {Min({n, most}) : n \in e.min .. Max({e.min, Min({e.max, most})})}

Offered(atom, argv, fixture) ==
  LET named == Cardinality({i \in DOMAIN argv : argv[i] = "file"})
      left == {o \in atom.offers :
                 /\ o = "file" => Len(fixture.files) > (IF atom.unique THEN named ELSE 0)
                 /\ o = "-" /\ atom.once => "-" \notin ToSet(argv)}
  IN IF left = {} THEN {atom.otherwise} ELSE left

\* The arguments an atom may become, where only so many are left: none is
\* a choice from nothing, at which the code panics.
Rendered(atom, argv, remaining, pool, fixture) ==
  CASE atom.kind = "word" -> {<<w>> : w \in atom.words}
    [] atom.kind = "generated" -> {<<w>> : w \in Computed(argv, pool, fixture)}
    [] atom.kind = "option" ->
         {<<o>> : o \in IF Supported([atom EXCEPT !.fallback = {}], pool)
                        THEN atom.options \cap pool ELSE atom.fallback}
    [] atom.kind = "pair" ->
         {IF f.width = 2 THEN <<f.option, "value">> ELSE <<f.option>> :
            f \in {g \in atom.forms : g.option \in pool /\ g.width <= remaining}}
    [] atom.kind = "operand" -> {<<o>> : o \in Offered(atom, argv, fixture)}
    [] atom.kind = "any" -> {<<o>> : o \in pool \cup Offered(atom, argv, fixture)}

\* The subtraction that stops at zero.
Less(a, b) == IF a < b THEN 0 ELSE a - b

\* One more occurrence of an element; what no longer fits is left out, and
\* so is then everything after it.
Extended(argv, e, limit, pool, fixture) ==
  LET remaining == Less(limit, Len(argv))
      rendered == Rendered(e.atom, argv, remaining, pool, fixture)
  IN IF argv = Panic THEN {Panic}
     ELSE IF rendered = {} THEN {Panic}
     ELSE {IF Len(r) > remaining THEN argv ELSE argv \o r : r \in rendered}

\* What is kept free for the elements that must still come.
Reserved(elements, i, pool) == MinimumTokens(SubSeq(elements, i + 1, Len(elements)), pool)

Rendering(alternative, pool, maxArgs, fixture) ==
  LET elements == alternative.elements
      budget == Max({maxArgs, MinimumTokens(elements, pool)})
      Occur(argv, i) ==
        LET e == elements[i]
            limit == Less(budget, Reserved(elements, i, pool))
            fits == Less(limit, Len(argv)) \div AtomMinimum(e.atom, pool)
            counts == IF Supported(e.atom, pool) THEN Counts(e, fits) ELSE {0}
            Again(argvs, k) == UNION {Extended(a, e, limit, pool, fixture) : a \in argvs}
        IN IF argv = Panic THEN {Panic}
           ELSE UNION {FoldLeft(Again, {argv}, [k \in 1 .. n |-> k]) : n \in counts}
  IN FoldLeft(LAMBDA argvs, i : UNION {Occur(a, i) : a \in argvs},
              {<<>>}, [i \in DOMAIN elements |-> i])

\* pattern::generate
Argvs(pattern, pool, maxArgs, fixture) ==
  IF Eligible(pattern, pool) = {} THEN {Panic}
  ELSE UNION {Rendering(a, pool, maxArgs, fixture) : a \in Eligible(pattern, pool)}

\* The patterns of a utility with none of its own (generate_generic).
Generic(requiresPath, prefersExisting) ==
  LET operand == IF prefersExisting THEN ExistingTarget ELSE AnyTarget
      some == UpToBudget(0, OptionOrOperand(operand))
  IN <<Alternative({}, IF requiresPath THEN <<some, Once(operand)>> ELSE <<some>>)>>
=============================================================================
