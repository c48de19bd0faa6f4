------------------------------ MODULE MCLemon ------------------------------
(* Lemon run on the files of a family of small grammars, whole or damaged,   *)
(* and the parser it makes fed with every short input.  Symbols: 0 is $, then *)
(* the terminals, then the nonterminals.                                     *)
EXTENDS Lempar

-----------------------------------------------------------------------------
(* The grammars.                                                             *)

Rule(lhs, rhs) == [lhs |-> lhs, lhsalias |-> TRUE, rhs |-> [i \in DOMAIN rhs |-> Sym(rhs[i])],
                   code |-> TRUE, alias |-> [i \in DOMAIN rhs |-> TRUE], precsym |-> NoSymbol]

Grammar(nterminal, nsymbol, rules, tokens) ==
    [nterminal |-> nterminal, nsymbol |-> nsymbol, rules |-> rules,
     prec |-> [i \in 0..nsymbol |-> -1], assoc |-> [i \in 0..nsymbol |-> "UNK"],
     start |-> NoSymbol, errsym |-> NoSymbol, wildcard |-> NoSymbol, compress |-> TRUE,
     fallback |-> [i \in 0..nterminal - 1 |-> 0], destructors |-> 0..nsymbol - 1, recovery |-> TRUE,
     tokens |-> tokens]

\* Terminals 1 and 2, start symbol 3, nonterminal 4 with every pair of rules of
\* up to two symbols, one of them without 4.  A rule 4 ::= 4 would derive itself.
Bodies == UNION {[1..n -> {1, 2, 4}] : n \in 0..2} \ {<<4>>}

Tops == {<<4>>, <<4, 1>>}

PairGrammars ==
    {Grammar(3, 5, <<Rule(3, top), Rule(4, pair[1]), Rule(4, pair[2])>>, 4) :
        top \in Tops, pair \in {p \in Bodies \X Bodies :
                                    p[1] # p[2] /\ 4 \notin ToSet(p[1]) \cap ToSet(p[2])}}

\* LALR(1) and not SLR(1): assignments to starred names.
Assignment == Grammar(4, 7, <<Rule(4, <<5, 1, 6>>), Rule(4, <<6>>), Rule(5, <<2, 6>>),
                              Rule(5, <<3>>), Rule(6, <<5>>)>>, 4)

\* LR(1) and not LALR(1): merging the states makes a reduce/reduce conflict.
Merged == Grammar(4, 7, <<Rule(4, <<1, 5, 1>>), Rule(4, <<2, 5, 2>>), Rule(4, <<1, 6, 2>>),
                          Rule(4, <<2, 6, 1>>), Rule(5, <<3>>), Rule(6, <<3>>)>>, 4)

\* Empty rules in a row; the second value of a list item is not used.
Optional == Grammar(3, 6, <<Rule(3, <<4, 5>>), Rule(4, <<>>), Rule(4, <<2>>), Rule(5, <<>>),
                [Rule(5, <<1, 2>>) EXCEPT !.alias = <<TRUE, FALSE>>]>>, 4)

\* Rules without code, one of which only renames a nonterminal.
Bare(lhs, rhs) == [Rule(lhs, rhs) EXCEPT !.code = FALSE, !.lhsalias = FALSE,
                                         !.alias = [i \in DOMAIN rhs |-> FALSE]]

Renamed == [Grammar(3, 6, <<Bare(3, <<4>>), Rule(4, <<4, 1, 5>>), Bare(4, <<5>>),
                            Rule(5, <<2>>)>>, 5)
            EXCEPT !.destructors = {}]

\* Terminal 1 or 2, as one symbol of a rule.
Either12 == [Grammar(4, 6, <<Rule(4, <<5>>), Rule(5, <<5, 1, 3>>), Rule(5, <<3>>)>>, 4)
             EXCEPT !.rules[2].rhs[2] = Multi(<<1, 2>>)]

\* Operators 1 (binary) and 2 (binary or prefix) over operand 3.  The prefix may
\* take its precedence from 1.
PlainOperators == {[Grammar(4, 6, <<Rule(4, <<5>>), Rule(5, <<5, 1, 5>>),
                               Rule(5, IF prefix THEN <<2, 5>> ELSE <<5, 2, 5>>), Rule(5, <<3>>)>>, 6)
               EXCEPT !.prec[1] = pa[1], !.prec[2] = 2, !.assoc[1] = pa[2], !.assoc[2] = pa[2]] :
              pa \in {<<1, "LEFT">>, <<2, "LEFT">>, <<2, "RIGHT">>, <<3, "RIGHT">>},
              prefix \in BOOLEAN}

Operators == PlainOperators \cup
    {[g EXCEPT !.rules[3].precsym = 1] : g \in {h \in PlainOperators :
        Len(h.rules[3].rhs) = 2 /\ h.prec[1] # 2}}

\* A list of statements 1 2, each of which may be replaced by error 2; the list
\* may be empty, or the error may come first.  Or the error alone replaces it.
\* The error symbol has no destructor: it carries a copy of a token's value.
Recovering ==
    {[Grammar(3, 7, <<Rule(3, <<4>>), Rule(4, first), Rule(4, <<4, 5>>),
                      Rule(5, <<1, 2>>), Rule(5, <<6, 2>>)>>, 7)
      EXCEPT !.errsym = 6, !.destructors = @ \ {6}, !.rules[5].alias = <<FALSE, TRUE>>] : first \in {<<>>, <<5>>}}
    \cup
    {[Grammar(3, 7, <<Rule(3, <<4>>), Rule(4, <<>>), Rule(4, <<4, 5>>),
                      Rule(5, <<1, 2>>), Rule(5, <<6>>)>>, 6)
      EXCEPT !.errsym = 6, !.destructors = @ \ {6}, !.rules[3].alias = <<FALSE, FALSE>>, !.rules[5].alias = <<FALSE>>]}

\* Terminal 1 stands for 2 where it has no meaning of its own; 2 is any token.
Fallback == [Grammar(3, 5, <<Rule(3, <<1, 4>>), Rule(4, <<>>), Rule(4, <<4, 2>>)>>, 4)
             EXCEPT !.fallback[1] = 2]

Wildcard == [Grammar(4, 6, <<Rule(4, <<5>>), Rule(5, <<1>>), Rule(5, <<5, 2>>),
                             Rule(5, <<5, 3, 1>>)>>, 4)
             EXCEPT !.wildcard = 2]

\* The start symbol is not the first one.
Started == [Grammar(3, 5, <<Rule(3, <<1>>), Rule(4, <<3, 2>>), Rule(3, <<3, 1>>)>>, 4)
            EXCEPT !.start = 4]

Selected == {Started, Assignment, Merged, Optional, Renamed, Either12, Fallback, Wildcard,
             [Assignment EXCEPT !.recovery = FALSE], [Renamed EXCEPT !.compress = FALSE]}
            \cup Operators \cup Recovering

\* What is left of a file with conditional sections.
Section == [x |-> Rule(3, <<1>>), y |-> Rule(3, <<2>>), z |-> Rule(3, <<1, 1>>),
            u |-> Rule(3, <<1, 2>>), v |-> Rule(3, <<2, 1>>), w |-> Rule(3, <<2, 2>>)]

Chosen(b1, b2, b3) ==
    Grammar(3, 4, (IF b1 THEN <<Section.x>> \o (IF b2 THEN <<Section.y>> ELSE <<Section.z>>)
                   ELSE IF b3 THEN <<Section.u>> ELSE <<Section.v>>) \o <<Section.w>>, 3)

Conditionals == {Chosen(b1, b2, b3) : b1 \in BOOLEAN, b2 \in BOOLEAN, b3 \in BOOLEAN}

AllGrammars == PairGrammars \cup Selected \cup Conditionals

-----------------------------------------------------------------------------
(* Their files.                                                              *)

Name(g, x) == IF x < g.nterminal THEN Upper(<<"A", "B", "C">>[x])
              ELSE IF x = g.errsym THEN Lower("error")
              ELSE Lower(<<"s", "e", "t", "u">>[x - g.nterminal + 1])

Names(g, xs) == [i \in DOMAIN xs |-> Name(g, xs[i])]

Decl(keyword, tokens) == <<Line(<<Mark("%"), Lower(keyword)>> \o tokens)>>

DeclList(keyword, tokens) == Decl(keyword, Append(tokens, Mark(".")))

Label(n) == <<Mark("("), Upper(<<"K", "L", "M", "N">>[n + 1]), Mark(")")>>

\* A symbol of a rule, or the class ab that stands for the same terminals.
RenderItem(g, item, label, class) ==
    (CASE ~item.multi -> Names(g, item.sub)
       [] item.multi /\ class -> <<Lower("ab")>>
       [] OTHER -> <<Name(g, item.sub[1])>> \o
                   [i \in 1..Len(item.sub) - 1 |-> Or(Name(g, item.sub[i + 1]).text)])
    \o label

RenderRule(g, rp, class) ==
    Line(<<Name(g, rp.lhs)>> \o (IF rp.lhsalias THEN Label(0) ELSE <<>>) \o <<Mark("::=")>>
         \o FlattenSeq([i \in DOMAIN rp.rhs |-> 
                RenderItem(g, rp.rhs[i], IF rp.alias[i] THEN Label(i) ELSE <<>>, class)])
         \o <<Mark(".")>>
         \o (IF rp.precsym = NoSymbol THEN <<>>
             ELSE <<Mark("["), Name(g, rp.precsym), Mark("]")>>)
         \o (IF rp.code THEN <<Code>> ELSE <<>>))

Keyword == [LEFT |-> "left", RIGHT |-> "right", NONE |-> "nonassoc"]

\* One line per level of precedence, also where no terminal has it.
RenderLevels(g) ==
    LET At(level) == SelectSeq([t \in 1..g.nterminal - 1 |-> t], LAMBDA t : g.prec[t] = level)
        Level(level) == DeclList(IF At(level) = <<>> THEN "left" ELSE Keyword[g.assoc[At(level)[1]]],
                                 Names(g, At(level)))
    IN  FlattenSeq([level \in 1..Max({0} \cup {g.prec[t] : t \in DOMAIN g.prec}) |-> Level(level)])

\* One for all nonterminals, or one for each of them.
Destructors(g) ==
    LET each == SetToSortSeq(g.destructors \ (0..g.nterminal - 1), <)
    IN  IF Len(each) = g.nsymbol - g.nterminal THEN Decl("default_destructor", <<Code>>)
        ELSE FlattenSeq([i \in DOMAIN each |-> Decl("destructor", <<Name(g, each[i]), Code>>)])

Declarations(g, class) ==
    LET When(b, decl) == IF b THEN decl ELSE <<>>
        fallen == SelectSeq([t \in 1..g.nterminal - 1 |-> t], LAMBDA t : g.fallback[t] # 0)
    IN  DeclList("token", Names(g, [t \in 1..g.nterminal - 1 |-> t]))
        \o RenderLevels(g)
        \o FlattenSeq([i \in DOMAIN fallen |->
               DeclList("fallback", Names(g, <<g.fallback[fallen[i]], fallen[i]>>))])
        \o When(g.wildcard # NoSymbol, DeclList("wildcard", Names(g, <<g.wildcard>>)))
        \o When(g.start # NoSymbol, Decl("start_symbol",
               <<IF g.start = UnknownSymbol THEN Lower("nowhere") ELSE Name(g, g.start)>>))
        \o When(g.destructors # {}, Decl("token_destructor", <<Code>>) \o Destructors(g))
        \o When(class, DeclList("token_class", <<Lower("ab"), Upper("A"), Or("B")>>))

Render(g, class) ==
    Declarations(g, class) \o [r \in DOMAIN g.rules |-> RenderRule(g, g.rules[r], class)]

\* lines is the file, expect the grammar in it, or NoGrammar if it is refused;
\* valid, whether a parser may come out of it.
Job(g, lines, expect, valid) ==
    [lines |-> lines, expect |-> expect, valid |-> valid, compress |-> g.compress,
     recovery |-> g.recovery, tokens |-> g.tokens]

Whole(G, class) == {Job(g, Render(g, class), g, TRUE) : g \in G}

\* A section inside each branch of another one.
Sectioned(b1, b2, b3) ==
    LET g == Chosen(b1, b2, b3)
        R(name) == RenderRule(g, Section[name], FALSE)
    IN  Declarations(g, FALSE) \o
        <<If(b1), R("x"), If(b2), R("y"), Else, R("z"), Endif,
          Else, If(b3), R("u"), Else, R("v"), Endif, Endif, R("w")>>

SectionedJobs ==
    {Job(Chosen(b1, b2, b3), Sectioned(b1, b2, b3), Chosen(b1, b2, b3), TRUE) :
        b1 \in BOOLEAN, b2 \in BOOLEAN, b3 \in BOOLEAN}

\* The last %endif is missing and the text before it is left out.
Unterminated ==
    LET lines == Sectioned(TRUE, TRUE, TRUE)
    IN  {Job(Assignment, RemoveAt(lines, Len(lines) - 1), NoGrammar, FALSE)}

\* A file without one of its characters or code blocks, the last token excepted.
Damaged(G) ==
    LET Without(g, l, k) == [Render(g, FALSE) EXCEPT ![l].tokens = RemoveAt(@, k)]
        Marks(g) == {<<l, k>> \in (1..Len(Render(g, FALSE))) \X (1..20) :
                        LET lines == Render(g, FALSE)
                        IN  /\ k <= Len(lines[l].tokens)
                            /\ lines[l].tokens[k].class \notin {"upper", "lower", "or"}
                            /\ <<l, k>> # <<Len(lines), Len(lines[l].tokens)>>}
    IN  UNION {{Job(g, Without(g, at[1], at[2]), NoGrammar, FALSE) : at \in Marks(g)} : g \in G}

\* Lines that are refused after the rules of a grammar with symbols A B s e.
BadLines ==
    {<<Mark("%"), Lower("nonesuch")>>, <<Mark("%"), Mark(".")>>, <<Mark("(")>>, <<Code>>,
     <<Mark("["), Upper("A"), Mark("]"), Mark("["), Upper("A"), Mark("]")>>,
     <<Mark("["), Lower("e"), Mark("]")>>,
     <<Lower("e"), Mark("::="), Lower("e"), Or("B"), Mark(".")>>,
     <<Lower("e"), Mark("::="), Or("B"), Mark(".")>>,
     <<Lower("e"), Mark("::=")>> \o [i \in 1..MAXRHS + 1 |-> Upper("A")] \o <<Mark(".")>>,
     <<Mark("%"), Lower("left"), Upper("A"), Upper("A"), Mark(".")>>,
     <<Mark("%"), Lower("left"), Lower("e"), Mark(".")>>,
     <<Mark("%"), Lower("token"), Lower("e"), Mark(".")>>,
     <<Mark("%"), Lower("fallback"), Upper("A"), Upper("B"), Upper("B"), Mark(".")>>,
     <<Mark("%"), Lower("wildcard"), Upper("A"), Upper("B"), Mark(".")>>,
     <<Mark("%"), Lower("token_class"), Lower("e"), Upper("A"), Mark(".")>>,
     <<Mark("%"), Lower("token_class"), Lower("ab"), Lower("e"), Mark(".")>>,
     <<Mark("%"), Lower("destructor"), Mark("."), Code>>,
     <<Mark("%"), Lower("include"), Unclosed>>,
     <<Mark("%"), Lower("type"), Lower("e"), Code, Mark("%"), Lower("type"), Lower("e"), Code>>}

Refused ==
    LET g == CHOOSE h \in PairGrammars : TRUE
    IN  {Job(g, Append(Render(g, FALSE), Line(bad)), NoGrammar, FALSE) : bad \in BadLines}
        \cup {Job(g, Declarations(g, FALSE), NoGrammar, FALSE), Job(g, <<Line(<<Code>>)>>, NoGrammar, FALSE)}

\* Files that are read, but that no parser may be made of.
Unusable ==
    LET unknown == [Assignment EXCEPT !.start = UnknownSymbol]
        unused  == [Assignment EXCEPT !.rules[2].code = FALSE]
    IN  {Job(g, Render(g, FALSE), g, FALSE) : g \in {unknown, unused}}

AllJobs == Whole(AllGrammars, FALSE) \cup Whole({Either12}, TRUE) \cup SectionedJobs
           \cup Unterminated \cup Damaged({Assignment, Either12, Fallback, Wildcard})
           \cup Damaged({g \in Operators : g.rules[3].precsym = 1 /\ g.prec[1] = 1})
           \cup Refused \cup Unusable

\* The labels of a token class left out.
UnlabelledClass == Whole({[Either12 EXCEPT !.rules[2].alias = <<TRUE, FALSE, TRUE>>]}, TRUE)

-----------------------------------------------------------------------------
(* What the grammar says, by the textbook.                                   *)

Cut(w, k) == SubSeq(w, 1, Min({k, Len(w)}))

Concat(A, B, k) == {Cut(a \o b, k) : a \in A, b \in B}

\* The first k symbols of the strings each symbol derives.
FirstK(g, k) ==
    LET Symbols == 0..g.nsymbol - 1
        Of(L, item) == UNION {L[item.sub[i]] : i \in DOMAIN item.sub}
        Body(L, rhs) == FoldLeft(LAMBDA A, item : Concat(A, Of(L, item), k), {<<>>}, rhs)
        Grow(L) == [s \in Symbols |-> L[s] \cup
                     UNION {Body(L, g.rules[r].rhs) : r \in {q \in DOMAIN g.rules : g.rules[q].lhs = s}}]
        RECURSIVE Fix(_)
        Fix(L) == LET more == Grow(L) IN IF more = L THEN L ELSE Fix(more)
    IN  Fix([s \in Symbols |-> IF s < g.nterminal THEN {<<s>>} ELSE {}])

\* The prefixes, of up to g.tokens tokens, of the inputs the grammar allows.
Viable ==
    [g \in AllGrammars |->
        LET whole == Concat(FirstK(g, g.tokens)[StartSymbol(g)], {<<0>>}, g.tokens)
        IN  UNION {{SubSeq(w, 1, n) : n \in 0..Len(w)} : w \in whole}]

\* The canonical LR(1) states: sets of <<rule, dot, lookahead>>.
LR1Closure(g, I) ==
    LET F == FirstK(g, 1)
        Of(item) == UNION {F[item.sub[i]] : i \in DOMAIN item.sub}
        After(i) == FoldLeft(LAMBDA A, item : Concat(A, Of(item), 1), {<<>>}, Rest(g, i))
        Looks(i) == {w[1] : w \in Concat(After(i), {<<i[3]>>}, 1)}
        Called(i) == IF CanShift(g, i)
                     THEN {r \in DOMAIN g.rules : AfterDot(g, i) = Sym(g.rules[r].lhs)} ELSE {}
        RECURSIVE Fix(_)
        Fix(J) == LET more == J \cup UNION {{<<r, 0, t>> : r \in Called(i), t \in Looks(i)} : i \in J}
                  IN  IF more = J THEN J ELSE Fix(more)
    IN  Fix(I)

LR1States(g) ==
    LET Start == LR1Closure(g, {<<r, 0, 0>> : r \in RulesOf(g, StartSymbol(g))})
        On(I, s) == {<<i[1], i[2] + 1, i[3]>> : i \in {j \in I : CanShift(g, j) /\ AfterDot(g, j) = s}}
        Moves(I) == {LR1Closure(g, On(I, s)) : s \in {AfterDot(g, i) : i \in {j \in I : CanShift(g, j)}}}
        RECURSIVE Fix(_, _)
        Fix(Done, New) == IF New = {} THEN Done
                          ELSE LET next == UNION {Moves(I) : I \in New} \ (Done \cup New)
                               IN  Fix(Done \cup New, next)
    IN  Fix({}, {Start})

Core(I) == {<<i[1], i[2]>> : i \in I}

\* A value is the derivation of a symbol.
RECURSIVE Derives(_, _, _)
Derives(g, v, s) ==
    IF v.id > 0 THEN v.sym = s
    ELSE /\ v.sym \in DOMAIN g.rules
         /\ LET rp == g.rules[v.sym]
            IN  /\ rp.lhs = s /\ Len(v.kids) = Len(rp.rhs)
                /\ \A i \in DOMAIN v.kids : \E j \in DOMAIN rp.rhs[i].sub :
                      Derives(g, v.kids[i], rp.rhs[i].sub[j])

RECURSIVE Yield(_)
Yield(v) == IF v.id > 0 THEN <<v.sym>>
            ELSE FoldLeft(LAMBDA w, k : w \o Yield(k), <<>>, v.kids)

\* Where a shorter reading was possible, the declared precedence chose it.
RECURSIVE Respects(_, _)
Respects(g, v) ==
    LET Item(r, i) == g.rules[r].rhs[i].sub[1]
        Prec(r) == g.prec[RulePrecedence(g, g.rules[r])]
        Ends(q) == Item(q, Len(g.rules[q].rhs)) >= g.nterminal
        ReduceWins(q, t) == Prec(q) > g.prec[t] \/ (Prec(q) = g.prec[t] /\ g.assoc[t] = "LEFT")
        ShiftWins(r, t) == Prec(r) < g.prec[t] \/ (Prec(r) = g.prec[t] /\ g.assoc[t] = "RIGHT")
        n == Len(v.kids)
    IN  \A i \in 1..n :
          /\ Respects(g, v.kids[i])
          /\ v.kids[i].kids # <<>> =>
                LET q == v.kids[i].sym
                IN  /\ i < n /\ Item(v.sym, i + 1) < g.nterminal /\ Ends(q)
                         => ReduceWins(q, Item(v.sym, i + 1))
                    /\ i = n /\ n > 1 /\ Len(v.kids[i].kids) = 3 => ShiftWins(v.sym, Item(q, 2))

-----------------------------------------------------------------------------
(* Properties.                                                               *)

Spec == LemparInit /\ [][LemparNext]_<<lemonVars, parserVars>> /\ WF_<<lemonVars, parserVars>>(ParseStep)

\* The grammar that the passes work on is the one the file states, the sections
\* kept being those the nesting of the conditionals selects; a file that lost a
\* mark or a code block, or has a line that makes no sense where it is, never
\* becomes a parser, and lemon then exits with a failure.  This is said of the
\* files of AllJobs: lemon does not notice that the period of the last rule or an
\* %endif before which nothing was left out is missing, and with 256 errors its
\* exit status is 0.
ReadsExactly ==
    /\ phase = "FindRulePrecedences" /\ job.expect # NoGrammar => gram = job.expect
    /\ phase = "generated" => job.valid
    /\ phase = "failed" => gp.exit # 0

\* The follow sets that FindFollowSets leaves are the lookaheads of LALR(1):
\* what the canonical LR(1) states with the same configurations say together.
LookaheadsExact ==
    phase = "FindActions" /\ gram.errsym = NoSymbol =>
      LET states == LR1States(gram)
      IN  /\ {s.cfp : s \in ToSet(lem.states)} = {Core(I) : I \in states}
          /\ \A s \in DOMAIN lem.states : \A c \in lem.states[s].cfp :
                lem.fws[s][c] =
                  {t \in 0..gram.nterminal - 1 :
                     \E I \in states : Core(I) = lem.states[s].cfp /\ <<c[1], c[2], t>> \in I}

\* Grammars whose language is the one their rules generate, token by token.
Plain == gram.wildcard = NoSymbol /\ \A t \in DOMAIN gram.fallback : gram.fallback[t] = 0

\* Every value is used, so that the result is a whole derivation.
Labelled == \A r \in ToSet(gram.rules) : r.code /\ \A i \in DOMAIN r.alias : r.alias[i]

\* A generated parser never shifts a token that cannot continue the input, never
\* calls a token an error that could, accepts exactly the sentences, and what it
\* accepts was built by a derivation that obeys the declared precedences.
ParsesExactly ==
    phase = "parsing" /\ Plain =>
      /\ call = NoCall /\ hist.erred = 0 => hist.input \in Viable[gram]
      /\ hist.erred > 0 => SubSeq(hist.input, 1, hist.erred) \notin Viable[gram]
      /\ hist.accepted => Ended
      /\ call = NoCall /\ hist.erred = 0 /\ Ended => hist.accepted
      /\ hist.accepted /\ hist.erred = 0 /\ Labelled =>
            /\ Derives(gram, hist.result, StartSymbol(gram))
            /\ Yield(hist.result) \o <<0>> = hist.input
            /\ gram \in Operators => Respects(gram, hist.result)

\* The assertions of lempar.c hold, but for the one in yy_find_shift_action() that
\* a fallback token has no fallback itself, which is up to the grammar: every
\* table is read inside its bounds, a reduction is followed by a shift that the
\* tables really contain and never by an error, a pending reduction is only ever
\* on top of the stack, the stack fits its memory, and it is empty when the
\* parser accepts.
AssertsHold ==
    phase = "parsing" =>
      LET top == Top(parser.stack)
      IN  /\ Len(parser.stack) \in 1..parser.size
          /\ \A i \in 1..Len(parser.stack) - 1 : parser.stack[i].stateno <= yy.YY_MAX_SHIFT
          /\ call = NoCall => top.stateno \notin {yy.YY_ERROR_ACTION, yy.YY_ACCEPT_ACTION}
          /\ Working /\ top.stateno <= yy.YY_MAX_SHIFT =>
                LET i == yy.yy_shift_ofst[top.stateno]
                IN  i >= 0 /\ i + yy.YYNTOKEN <= Cardinality(DOMAIN yy.yy_lookahead)
          /\ Working /\ NextAction >= yy.YY_MIN_REDUCE =>
                LET r     == yy.rule[NextAction - yy.YY_MIN_REDUCE]
                    n     == Len(parser.stack) - Len(gram.rules[r].rhs)
                    from  == parser.stack[n].stateno
                    i     == yy.yy_reduce_ofst[from] + gram.rules[r].lhs
                    yyact == yy_find_reduce_action(from, gram.rules[r].lhs)
                IN  /\ n >= 1
                    /\ Plain /\ Labelled => \A k \in DOMAIN gram.rules[r].rhs :
                          parser.stack[n + k].major \in ToSet(gram.rules[r].rhs[k].sub)
                    /\ from \in DOMAIN yy.yy_reduce_ofst /\ i \in DOMAIN yy.yy_action
                    /\ LookaheadAt(i) = gram.rules[r].lhs
                    /\ ~(yyact > yy.YY_MAX_SHIFT /\ yyact <= yy.YY_MAX_SHIFTREDUCE)
                    /\ yyact # yy.YY_ERROR_ACTION
          /\ Working => NextAction # yy.YY_NO_ACTION
          /\ Working /\ NextAction = yy.YY_ACCEPT_ACTION => Len(parser.stack) = 2

\* In a grammar with a destructor for every symbol but perhaps error, every value
\* handed in is in exactly one place: with the token at hand, on the stack, in a
\* value accepted, destroyed (once), or dropped by an overflow; and nothing is
\* left on a stack that was finalized.  The copy of a token's value that lies
\* under the error symbol does not count, it must not be destroyed.
ValuesAccounted ==
    phase \in {"parsing", "finalized"} /\ (1..gram.nsymbol - 1) \ {gram.errsym} \subseteq gram.destructors =>
      \A n \in hist.given :
        CopiesIn(n, hist.destroyed)
        + Cardinality({i \in DOMAIN parser.stack : parser.stack[i].major # gram.errsym
                                                    /\ n \in Leaves(parser.stack[i].minor)})
        + Cardinality({s \in {Leaves(call.minor)} : n \in s})
        + Cardinality({s \in {hist.kept} : n \in s})
        + Cardinality({s \in {hist.lost} : n \in s}) = 1

\* Once an error was reported, the next one is reported only after three tokens
\* have been shifted, or in another input, or when an overflow emptied the stack.
ReportsApart ==
    [][hist'.reports > hist.reports /\ gram.recovery => hist.quiet = Quiet]_<<lemonVars, parserVars>>

\* Every call of Parse() returns: no grammar lemon lets through makes the parser
\* reduce for ever.
ParseReturns == Working ~> ~Working

\* Error recovery is orderly: it neither floods the user with reports of one
\* mistake nor keeps a call of Parse() from returning.
RecoveryEnds == ReportsApart /\ ParseReturns
=============================================================================
