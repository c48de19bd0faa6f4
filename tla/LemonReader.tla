---------------------------- MODULE LemonReader ----------------------------
(* How lemon reads a grammar (src/tools/lemon/lemon.c): the conditional        *)
(* sections of the file, then parseonetoken() for each token.  A line of the  *)
(* file is a directive or a list of tokens; a token is its first character's  *)
(* class and its text.  Names are strings; a label is only there or not, and  *)
(* the labels of a rule are taken to be different.                            *)
EXTENDS Integers, Sequences, FiniteSets, SequencesExt, FiniteSetsExt

VARIABLES
    text,       \* the lines, and after preprocessing the tokens left to read
    psp,        \* struct pstate
    gp          \* what was read so far into struct lemon

readerVars == <<text, psp, gp>>

Upper(x) == [class |-> "upper", text |-> x]

Lower(x) == [class |-> "lower", text |-> x]

\* "|X" or "/X": another terminal for the symbol before it.
Or(x) == [class |-> "or", text |-> x]

\* The characters of the grammar: % ::= . ( ) [ ] { and anything else.
Mark(c) == [class |-> c, text |-> ""]

Code == Mark("{")

NeverReduce == [class |-> "{", text |-> "NEVER-REDUCE"]

\* A block of code or a string that runs into the end of the file.
Unclosed == [class |-> "{", text |-> "UNCLOSED"]

IsAlpha(x) == x.class \in {"upper", "lower"}

-----------------------------------------------------------------------------
(* Conditional sections.                                                     *)

Line(tokens) == [directive |-> "none", value |-> FALSE, tokens |-> tokens]

If(value) == [directive |-> "if", value |-> value, tokens |-> <<>>]

Else == [directive |-> "else", value |-> FALSE, tokens |-> <<>>]

Endif == [directive |-> "endif", value |-> FALSE, tokens |-> <<>>]

\* Mutant: %else ends every exclusion, not only the outermost.
preprocess_lineElse(acc, line) ==
    CASE line.directive = "none" ->
            IF acc.exclude > 0 THEN acc ELSE [acc EXCEPT !.tokens = @ \o line.tokens]
      [] line.directive = "endif" -> [acc EXCEPT !.exclude = IF @ > 0 THEN @ - 1 ELSE 0]
      [] line.directive = "else" -> [acc EXCEPT !.exclude = IF @ > 0 THEN 0 ELSE 1]
      [] line.directive = "if" ->
            [acc EXCEPT !.exclude = IF @ > 0 THEN @ + 1 ELSE IF line.value THEN 0 ELSE 1]

\* One line: exclude counts the sections to leave before text is kept again.
preprocess_line(acc, line) ==
    CASE line.directive = "none" ->
            IF acc.exclude > 0 THEN acc ELSE [acc EXCEPT !.tokens = @ \o line.tokens]
      [] line.directive = "endif" -> [acc EXCEPT !.exclude = IF @ > 0 THEN @ - 1 ELSE 0]
      [] line.directive = "else" ->
            [acc EXCEPT !.exclude = IF @ = 1 THEN 0 ELSE IF @ = 0 THEN 1 ELSE @]
      [] line.directive = "if" ->
            [acc EXCEPT !.exclude = IF @ > 0 THEN @ + 1 ELSE IF line.value THEN 0 ELSE 1]

preprocess_input(lines) == FoldLeft(preprocess_line, [exclude |-> 0, tokens |-> <<>>], lines)

-----------------------------------------------------------------------------
(* Symbols and the parser's state.                                           *)

Find(g, x) == SelectInSeq(g.symbols, LAMBDA s : s.name = x)

Symbol(x, type) == [name |-> x, type |-> type, prec |-> -1, assoc |-> "UNK", fallback |-> "",
                    sub |-> <<>>]

Symbol_new(g, tok) ==
    IF Find(g, tok.text) # 0 THEN g
    ELSE [g EXCEPT !.symbols = Append(@, Symbol(tok.text,
             IF tok.class = "lower" THEN "NONTERMINAL" ELSE "TERMINAL"))]

\* A symbol of a right-hand side: a named one, or terminals joined on the spot.
Named(x) == [name |-> x, sub |-> <<>>]

EmptyGrammar ==
    [symbols |-> <<Symbol("$", "TERMINAL")>>, rules |-> <<>>, wildcard |-> "",
     args |-> <<>>, exit |-> 0]

INITIALIZE ==
    [state |-> "WAITING_FOR_DECL_OR_RULE", lhs |-> "", lhsalias |-> FALSE, rhs |-> <<>>, alias |-> <<>>,
     prevrule |-> 0, declargslot |-> "", declassoc |-> "UNK", preccounter |-> 0,
     fallback |-> "", tkclass |-> "", errorcnt |-> 0]

To(p, state) == [p EXCEPT !.state = state]

Error(p) == [p EXCEPT !.errorcnt = @ + 1]

Resync(p, kind) == To(Error(p), kind)

\* A step of the parser gives its state and the grammar.
Step(p, g) == [psp |-> p, gp |-> g]

-----------------------------------------------------------------------------
(* parseonetoken(), one operator per group of states.                        *)

WAITING_FOR_DECL_OR_RULE(p, g, x) ==
    CASE x.class = "%" -> Step(To(p, "WAITING_FOR_DECL_KEYWORD"), g)
      [] x.class = "lower" ->
            Step([p EXCEPT !.lhs = x.text, !.lhsalias = FALSE, !.rhs = <<>>,
                           !.alias = <<>>, !.state = "WAITING_FOR_ARROW"], Symbol_new(g, x))
      [] x.class = "{" ->
            IF p.prevrule = 0 THEN Step(Error(p), g)
            ELSE IF g.rules[p.prevrule].code THEN Step(Error(p), g)
            ELSE IF x = NeverReduce THEN Step(p, [g EXCEPT !.rules[p.prevrule].neverReduce = TRUE])
            ELSE Step(p, [g EXCEPT !.rules[p.prevrule].code = TRUE])
      [] x.class = "[" -> Step(To(p, "PRECEDENCE_MARK_1"), g)
      [] OTHER -> Step(Error(p), g)

PRECEDENCE_MARK_1(p, g, x) ==
    LET next == To(p, "PRECEDENCE_MARK_2")
    IN  IF x.class # "upper" \/ p.prevrule = 0 THEN Step(Error(next), g)
        ELSE IF g.rules[p.prevrule].precsym # "" THEN Step(Error(next), g)
        ELSE Step(next, [Symbol_new(g, x) EXCEPT !.rules[p.prevrule].precsym = x.text])

PRECEDENCE_MARK_2(p, g, x) ==
    LET next == To(p, "WAITING_FOR_DECL_OR_RULE")
    IN  Step(IF x.class = "]" THEN next ELSE Error(next), g)

\* The left-hand side, its alias and the arrow.
LHS(p, g, x) ==
    LET bad == Step(Resync(p, "RESYNC_AFTER_RULE_ERROR"), g)
        go(ok, state) == IF ok THEN Step(To(p, state), g) ELSE bad
    IN  CASE p.state = "WAITING_FOR_ARROW" ->
                IF x.class = "(" THEN Step(To(p, "LHS_ALIAS_1"), g) ELSE go(x.class = "::=", "IN_RHS")
          [] p.state = "LHS_ALIAS_1" ->
                IF IsAlpha(x) THEN Step([p EXCEPT !.lhsalias = TRUE, !.state = "LHS_ALIAS_2"], g)
                ELSE bad
          [] p.state = "LHS_ALIAS_2" -> go(x.class = ")", "LHS_ALIAS_3")
          [] p.state = "LHS_ALIAS_3" -> go(x.class = "::=", "IN_RHS")

\* The end of a rule puts it into the grammar.
EndOfRule(p, g) ==
    LET rule == [lhs |-> p.lhs, lhsalias |-> p.lhsalias, rhs |-> p.rhs, alias |-> p.alias, code |-> FALSE,
                 precsym |-> "", neverReduce |-> FALSE]
    IN  Step([p EXCEPT !.prevrule = Len(g.rules) + 1, !.state = "WAITING_FOR_DECL_OR_RULE"],
             [g EXCEPT !.rules = Append(@, rule)])

\* "|X": the last symbol becomes a MULTITERMINAL, or the token class it names
\* gets one more member.
JoinTerminal(p, g, x) ==
    LET n    == Len(p.rhs)
        last == p.rhs[n]
        at   == Find(g, last.name)
        g2   == Symbol_new(g, Upper(x.text))
        isClass == last.sub = <<>> /\ g.symbols[at].type = "MULTITERMINAL"
        first == CASE ~isClass -> last.name
                   [] isClass /\ g.symbols[at].sub # <<>> -> Head(g.symbols[at].sub)
                   [] OTHER -> x.text
        mixed == g2.symbols[Find(g2, first)].type # "TERMINAL"
        p2 == IF isClass THEN p
              ELSE [p EXCEPT !.rhs[n].sub =
                       (IF last.sub = <<>> THEN <<last.name>> ELSE last.sub) \o <<x.text>>]
    IN  Step(IF mixed THEN Error(p2) ELSE p2,
             IF isClass THEN [g2 EXCEPT !.symbols[at].sub = Append(@, x.text)] ELSE g2)

IN_RHS(p, g, x, MAXRHS) ==
    LET n   == Len(p.rhs)
        bad == Step(Resync(p, "RESYNC_AFTER_RULE_ERROR"), g)
    IN  CASE x.class = "." -> EndOfRule(p, g)
          [] IsAlpha(x) ->
                IF n >= MAXRHS THEN bad
                ELSE Step([p EXCEPT !.rhs = Append(@, Named(x.text)), !.alias = Append(@, FALSE)],
                          Symbol_new(g, x))
          [] x.class = "or" /\ n > 0 -> JoinTerminal(p, g, x)
          [] x.class = "(" /\ n > 0 -> Step(To(p, "RHS_ALIAS_1"), g)
          [] OTHER -> bad

RHS_ALIAS(p, g, x) ==
    LET bad == Step(Resync(p, "RESYNC_AFTER_RULE_ERROR"), g)
    IN  IF p.state = "RHS_ALIAS_1"
        THEN IF IsAlpha(x)
             THEN Step([p EXCEPT !.alias[Len(p.rhs)] = TRUE, !.state = "RHS_ALIAS_2"], g) ELSE bad
        ELSE IF x.class = ")" THEN Step(To(p, "IN_RHS"), g) ELSE bad

-----------------------------------------------------------------------------
(* Declarations.                                                             *)

\* The keywords that take one argument, by the field of struct lemon they fill.
DeclSlots ==
    {"name", "include", "code", "token_destructor", "default_destructor", "token_prefix",
     "syntax_error", "parse_accept", "parse_failure", "stack_overflow", "extra_argument",
     "extra_context", "token_type", "default_type", "stack_size_limit", "realloc", "free",
     "stack_size", "start_symbol"}

Associativity == [left |-> "LEFT", right |-> "RIGHT", nonassoc |-> "NONE"]

\* The keywords followed by symbols, and what the parser waits for after them.
SymbolDecls ==
    [destructor |-> "WAITING_FOR_DESTRUCTOR_SYMBOL", type |-> "WAITING_FOR_DATATYPE_SYMBOL",
     fallback |-> "WAITING_FOR_FALLBACK_ID", token |-> "WAITING_FOR_TOKEN_NAME",
     wildcard |-> "WAITING_FOR_WILDCARD_ID", token_class |-> "WAITING_FOR_CLASS_ID"]

WAITING_FOR_DECL_KEYWORD(p, g, x) ==
    CASE IsAlpha(x) /\ x.text \in DeclSlots ->
            Step([p EXCEPT !.declargslot = <<x.text, "">>, !.state = "WAITING_FOR_DECL_ARG"], g)
      [] IsAlpha(x) /\ x.text \in DOMAIN Associativity ->
            Step([p EXCEPT !.preccounter = @ + 1, !.declassoc = Associativity[x.text],
                           !.state = "WAITING_FOR_PRECEDENCE_SYMBOL"], g)
      [] IsAlpha(x) /\ x.text \in DOMAIN SymbolDecls ->
            Step([p EXCEPT !.fallback = IF x.text = "fallback" THEN "" ELSE @,
                           !.state = SymbolDecls[x.text]], g)
      [] OTHER -> Step(Resync(p, "RESYNC_AFTER_DECL_ERROR"), g)

Filled(g, slot) == slot \in DOMAIN g.args

WAITING_FOR_DESTRUCTOR_SYMBOL(p, g, x) ==
    IF IsAlpha(x)
    THEN Step([p EXCEPT !.declargslot = <<"destructor", x.text>>, !.state = "WAITING_FOR_DECL_ARG"],
              Symbol_new(g, x))
    ELSE Step(Resync(p, "RESYNC_AFTER_DECL_ERROR"), g)

WAITING_FOR_DATATYPE_SYMBOL(p, g, x) ==
    IF IsAlpha(x) /\ ~Filled(g, <<"type", x.text>>)
    THEN Step([p EXCEPT !.declargslot = <<"type", x.text>>, !.state = "WAITING_FOR_DECL_ARG"],
              Symbol_new(g, x))
    ELSE Step(Resync(p, "RESYNC_AFTER_DECL_ERROR"), g)

\* A second argument of the same declaration is appended to the first.
WAITING_FOR_DECL_ARG(p, g, x) ==
    LET slot == p.declargslot
        old  == IF Filled(g, slot) THEN g.args[slot] ELSE <<>>
    IN  IF IsAlpha(x) \/ x.class = "{"
        THEN Step(To(p, "WAITING_FOR_DECL_OR_RULE"),
                  [g EXCEPT !.args = [t \in DOMAIN @ \cup {slot} |->
                                        IF t = slot THEN Append(old, x.text) ELSE @[t]]])
        ELSE Step(Resync(p, "RESYNC_AFTER_DECL_ERROR"), g)

\* Lists of terminals up to a period: a symbol that is refused is skipped.
WAITING_FOR_PRECEDENCE_SYMBOL(p, g, x) ==
    LET g2 == Symbol_new(g, x)
        at == Find(g2, x.text)
    IN  CASE x.class = "." -> Step(To(p, "WAITING_FOR_DECL_OR_RULE"), g)
          [] x.class = "upper" ->
                IF g2.symbols[at].prec >= 0 THEN Step(Error(p), g2)
                ELSE Step(p, [g2 EXCEPT !.symbols[at].prec = p.preccounter,
                                        !.symbols[at].assoc = p.declassoc])
          [] OTHER -> Step(Error(p), g)

SymbolList(p, g, x) ==
    LET g2 == Symbol_new(g, x)
        at == Find(g2, x.text)
    IN  CASE x.class = "." -> Step(To(p, "WAITING_FOR_DECL_OR_RULE"), g)
          [] x.class # "." /\ x.class # "upper" -> Step(Error(p), g)
          [] x.class = "upper" /\ p.state = "WAITING_FOR_FALLBACK_ID" ->
                IF p.fallback = "" THEN Step([p EXCEPT !.fallback = x.text], g2)
                ELSE IF g2.symbols[at].fallback # "" THEN Step(Error(p), g2)
                ELSE Step(p, [g2 EXCEPT !.symbols[at].fallback = p.fallback])
          [] x.class = "upper" /\ p.state = "WAITING_FOR_WILDCARD_ID" ->
                IF g.wildcard # "" THEN Step(Error(p), g2)
                ELSE Step(p, [g2 EXCEPT !.wildcard = x.text])
          [] OTHER -> Step(p, g2)

WAITING_FOR_CLASS_ID(p, g, x) ==
    IF x.class = "lower" /\ Find(g, x.text) = 0
    THEN Step([p EXCEPT !.tkclass = x.text, !.state = "WAITING_FOR_CLASS_TOKEN"],
              [g EXCEPT !.symbols = Append(@, Symbol(x.text, "MULTITERMINAL"))])
    ELSE Step(Resync(p, "RESYNC_AFTER_DECL_ERROR"), g)

WAITING_FOR_CLASS_TOKEN(p, g, x) ==
    LET g2 == Symbol_new(g, Upper(x.text))
    IN  CASE x.class = "." -> Step(To(p, "WAITING_FOR_DECL_OR_RULE"), g)
          [] x.class \in {"upper", "or"} ->
                Step(p, [g2 EXCEPT !.symbols[Find(g2, p.tkclass)].sub = Append(@, x.text)])
          [] OTHER -> Step(Resync(p, "RESYNC_AFTER_DECL_ERROR"), g)

RESYNC(p, g, x) ==
    CASE x.class = "." -> Step(To(p, "WAITING_FOR_DECL_OR_RULE"), g)
      [] x.class = "%" -> Step(To(p, "WAITING_FOR_DECL_KEYWORD"), g)
      [] OTHER -> Step(p, g)

parseonetoken(p, g, x, MAXRHS) ==
    CASE p.state = "WAITING_FOR_DECL_OR_RULE" -> WAITING_FOR_DECL_OR_RULE(p, g, x)
      [] p.state = "PRECEDENCE_MARK_1" -> PRECEDENCE_MARK_1(p, g, x)
      [] p.state = "PRECEDENCE_MARK_2" -> PRECEDENCE_MARK_2(p, g, x)
      [] p.state \in {"WAITING_FOR_ARROW", "LHS_ALIAS_1", "LHS_ALIAS_2", "LHS_ALIAS_3"} ->
            LHS(p, g, x)
      [] p.state = "IN_RHS" -> IN_RHS(p, g, x, MAXRHS)
      [] p.state \in {"RHS_ALIAS_1", "RHS_ALIAS_2"} -> RHS_ALIAS(p, g, x)
      [] p.state = "WAITING_FOR_DECL_KEYWORD" -> WAITING_FOR_DECL_KEYWORD(p, g, x)
      [] p.state = "WAITING_FOR_DESTRUCTOR_SYMBOL" -> WAITING_FOR_DESTRUCTOR_SYMBOL(p, g, x)
      [] p.state = "WAITING_FOR_DATATYPE_SYMBOL" -> WAITING_FOR_DATATYPE_SYMBOL(p, g, x)
      [] p.state = "WAITING_FOR_DECL_ARG" -> WAITING_FOR_DECL_ARG(p, g, x)
      [] p.state = "WAITING_FOR_PRECEDENCE_SYMBOL" -> WAITING_FOR_PRECEDENCE_SYMBOL(p, g, x)
      [] p.state \in {"WAITING_FOR_FALLBACK_ID", "WAITING_FOR_TOKEN_NAME",
                      "WAITING_FOR_WILDCARD_ID"} -> SymbolList(p, g, x)
      [] p.state = "WAITING_FOR_CLASS_ID" -> WAITING_FOR_CLASS_ID(p, g, x)
      [] p.state = "WAITING_FOR_CLASS_TOKEN" -> WAITING_FOR_CLASS_TOKEN(p, g, x)
      [] p.state \in {"RESYNC_AFTER_RULE_ERROR", "RESYNC_AFTER_DECL_ERROR"} -> RESYNC(p, g, x)
=============================================================================
