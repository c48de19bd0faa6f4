------------------------------- MODULE Lempar -------------------------------
(* The parser that lemon makes out of the template src/tools/lemon/lempar.c   *)
(* and the tables of LemonTables.  A step is one iteration of the loop in     *)
(* Parse(); a caller hands in one token per call.  A token's value is a leaf  *)
(* that carries the number of the token, the value of a nonterminal is a      *)
(* node: the code of every rule with code stores its labelled values in a     *)
(* node, so a value that is destroyed or built in is followed to its end.     *)
EXTENDS LemonTables, Bags

CONSTANTS
    YYSTACKDEPTH,       \* initial slots of the stack
    StackLimit          \* what YYSIZELIMIT answers

VARIABLES
    parser,             \* struct yyParser, or NoParser
    call,               \* the token Parse() works on, or NoCall
    hist                \* history of the caller and of the values, for the properties

parserVars == <<parser, call, hist>>

Nothing == [sym |-> NoSymbol, id |-> 0, kids |-> <<>>]

Leaf(t, n) == [sym |-> t, id |-> n, kids |-> <<>>]

Node(r, kids) == [sym |-> r, id |-> 0, kids |-> kids]

RECURSIVE Leaves(_)
Leaves(v) == (IF v.id > 0 THEN {v.id} ELSE {}) \cup
             UNION {Leaves(v.kids[i]) : i \in DOMAIN v.kids}

Entry(stateno, major, minor) == [stateno |-> stateno, major |-> major, minor |-> minor]

NoParser == [stack |-> <<>>, size |-> 0, errcnt |-> -1]

NoCall == [major |-> NoSymbol, minor |-> Nothing, errorhit |-> FALSE]

Top(stack) == stack[Len(stack)]

\* Enough shifts since the last syntax error for the next one to be reported.
Quiet == 3

NoHistory ==
    [input     |-> <<>>,        \* the tokens of the current parse
     handed    |-> 0,           \* how many tokens were handed in, ever
     destroyed |-> EmptyBag,    \* the values given to a destructor
     accepted  |-> FALSE,       \* the last call accepted
     result    |-> Nothing,     \* the value it accepted
     given     |-> {},          \* the values handed in with the tokens
     kept      |-> {},          \* the values of accepted inputs
     lost      |-> {},          \* the values a stack overflow dropped
     erred     |-> 0,           \* Len(input) at the first error of this parse; -1: overflow
     quiet     |-> Quiet,       \* tokens shifted since the last error, at most Quiet
     reports   |-> 0]           \* calls of the %syntax_error code in this parse

-----------------------------------------------------------------------------
(* The tables.                                                               *)

LookaheadAt(i) == IF i \in DOMAIN yy.yy_lookahead THEN yy.yy_lookahead[i] ELSE yy.YYNOCODE

RECURSIVE yy_find_shift_action(_, _)
yy_find_shift_action(iLookAhead, stateno) ==
    LET i == yy.yy_shift_ofst[stateno] + iLookAhead
        j == i - iLookAhead + gram.wildcard
    IN  CASE stateno > yy.YY_MAX_SHIFT -> stateno
          [] stateno <= yy.YY_MAX_SHIFT /\ LookaheadAt(i) = iLookAhead -> yy.yy_action[i]
          [] stateno <= yy.YY_MAX_SHIFT /\ LookaheadAt(i) # iLookAhead
               /\ gram.fallback[iLookAhead] # 0 ->
                yy_find_shift_action(gram.fallback[iLookAhead], stateno)
          [] stateno <= yy.YY_MAX_SHIFT /\ LookaheadAt(i) # iLookAhead
               /\ gram.fallback[iLookAhead] = 0
               /\ gram.wildcard # NoSymbol /\ iLookAhead > 0
               /\ LookaheadAt(j) = gram.wildcard -> yy.yy_action[j]
          [] OTHER -> yy.yy_default[stateno]

yy_find_reduce_action(stateno, iLookAhead) ==
    LET i == yy.yy_reduce_ofst[stateno] + iLookAhead
    IN  IF stateno \in DOMAIN yy.yy_reduce_ofst /\ i \in DOMAIN yy.yy_action
           /\ LookaheadAt(i) = iLookAhead
        THEN yy.yy_action[i] ELSE yy.yy_default[stateno]

-----------------------------------------------------------------------------
(* Values and the stack.                                                     *)

\* What yy_destructor() is given for these symbols and their values: nothing for
\* a symbol that it has no case for.
Destroy(entries) ==
    FoldLeft(LAMBDA bag, e : bag (+) SetToBag(Leaves(e.minor)), EmptyBag,
             SelectSeq(entries, LAMBDA e : e.major \in gram.destructors))

Above(stack, n) == SubSeq(stack, n + 1, Len(stack))

Pop(stack, n) == SubSeq(stack, 1, Len(stack) - n)

\* The sizes yyGrowStack() may leave: the old one when it fails.
yyGrowStack(size) ==
    LET newSize == Min({size * 2 + 100, StackLimit})
    IN  IF newSize > size THEN {size, newSize} ELSE {size}

\* The effect of the code translate_code() generates for a rule.
RuleValue(r, kids) ==
    LET rp == gram.rules[r]
    IN  IF rp.code THEN Node(r, [i \in DOMAIN kids |-> IF rp.alias[i] THEN kids[i] ELSE Nothing])
        ELSE IF kids = <<>> THEN Nothing ELSE kids[1]

\* Mutant: translate_code() leaves the unused values alone.
RuleDestroysNothing(r, kids) == <<>>

\* The unlabelled values, each under the symbol of the rule it stands for; but
\* yy_destructor() has no case for a MULTITERMINAL.
RuleDestroys(r, kids) ==
    LET rp     == gram.rules[r]
        unused == SelectSeq([i \in DOMAIN kids |-> i], LAMBDA i : ~rp.alias[i] /\ ~rp.rhs[i].multi)
    IN  [k \in DOMAIN unused |-> Entry(0, rp.rhs[unused[k]].sub[1], kids[unused[k]])]

yy_reduce(stack, r) ==
    LET rp     == gram.rules[r]
        n      == Len(rp.rhs)
        below  == Pop(stack, n)
        kids   == [i \in 1..n |-> stack[Len(below) + i].minor]
        yyact  == yy_find_reduce_action(Top(below).stateno, rp.lhs)
    IN  Append(below, Entry(yyact, rp.lhs, RuleValue(r, kids)))

ReducedKids(stack, r) ==
    LET n == Len(gram.rules[r].rhs)
    IN  [i \in 1..n |-> stack[Len(stack) - n + i].minor]

\* Mutant: yy_shift() keeps the number of a shift-reduce.
ShiftEntryUnchanged(act, major, minor) == Entry(act, major, minor)

\* The entry yy_shift() pushes: a shift-reduce becomes a pending reduce.
ShiftEntry(act, major, minor) ==
    Entry(IF act > yy.YY_MAX_SHIFT THEN act + yy.YY_MIN_REDUCE - yy.YY_MIN_SHIFTREDUCE ELSE act,
          major, minor)

-----------------------------------------------------------------------------
(* The calls.                                                                *)

ParseInit ==
    /\ phase = "generated"
    /\ phase' = "parsing"
    /\ parser' = [stack |-> <<Entry(0, 0, Nothing)>>, size |-> YYSTACKDEPTH, errcnt |-> -1]
    /\ UNCHANGED <<inputVars, lem, yy, call, hist>>

Ended == hist.input # <<>> /\ Last(hist.input) = 0

\* A caller hands in a token.  After the end of one input it may begin another
\* one if the first was accepted or failed, which leaves the stack empty.
Parse(t) ==
    /\ call = NoCall
    /\ hist.handed < gram.tokens
    /\ Ended => Len(parser.stack) = 1
    /\ hist' = [(IF Ended THEN [hist EXCEPT !.input = <<>>, !.erred = 0, !.quiet = Quiet,
                                           !.reports = 0]
                ELSE hist)
               EXCEPT !.input = Append(@, t), !.handed = @ + 1, !.accepted = FALSE, !.result = Nothing,
                      !.given = IF t = 0 THEN @ ELSE @ \cup {hist.handed + 1}]
    /\ call' = [major |-> t, minor |-> IF t = 0 THEN Nothing ELSE Leaf(t, hist.handed + 1),
                errorhit |-> FALSE]
    /\ UNCHANGED <<lemonVars, parser>>

NextAction == yy_find_shift_action(call.major, Top(parser.stack).stateno)

Working == phase = "parsing" /\ call # NoCall

Sizes(full) == IF full THEN yyGrowStack(parser.size) ELSE {parser.size}

\* The stack is emptied, and the token at hand is forgotten.
yyStackOverflow(errcnt) ==
    /\ parser' = [parser EXCEPT !.stack = SubSeq(@, 1, 1), !.errcnt = errcnt]
    /\ hist' = [hist EXCEPT !.destroyed = @ (+) Destroy(Above(parser.stack, 1)),
                            !.lost = @ \cup Leaves(call.minor), !.erred = -1,
                            !.quiet = Quiet]
    /\ call' = NoCall

Reduce ==
    /\ Working /\ NextAction >= yy.YY_MIN_REDUCE
    /\ LET r    == yy.rule[NextAction - yy.YY_MIN_REDUCE]
           full == gram.rules[r].rhs = <<>> /\ Len(parser.stack) >= parser.size
       IN  \E size \in Sizes(full) :
             IF full /\ size = parser.size THEN yyStackOverflow(parser.errcnt)
             ELSE /\ parser' = [parser EXCEPT !.stack = yy_reduce(@, r), !.size = size]
                  /\ hist' = [hist EXCEPT !.destroyed =
                                @ (+) Destroy(RuleDestroys(r, ReducedKids(parser.stack, r)))]
                  /\ call' = call
    /\ UNCHANGED lemonVars

Shift ==
    /\ Working /\ NextAction <= yy.YY_MAX_SHIFTREDUCE
    /\ LET full == Len(parser.stack) >= parser.size
       IN  \E size \in Sizes(full) :
             IF full /\ size = parser.size THEN yyStackOverflow(parser.errcnt - 1)
             ELSE /\ parser' = [parser EXCEPT
                        !.stack = Append(@, ShiftEntry(NextAction, call.major, call.minor)),
                        !.size = size, !.errcnt = @ - 1]
                  /\ hist' = [hist EXCEPT !.quiet = Min({@ + 1, Quiet})]
                  /\ call' = NoCall
    /\ UNCHANGED lemonVars

Accept ==
    /\ Working /\ NextAction = yy.YY_ACCEPT_ACTION
    /\ hist' = [hist EXCEPT !.accepted = TRUE, !.result = Top(parser.stack).minor,
                            !.kept = @ \cup Leaves(Top(parser.stack).minor)]
    /\ parser' = [parser EXCEPT !.stack = Pop(@, 1), !.errcnt = -1]
    /\ call' = NoCall
    /\ UNCHANGED lemonVars

-----------------------------------------------------------------------------
(* A syntax error.                                                           *)

SyntaxError == Working /\ NextAction \in {yy.YY_ERROR_ACTION, yy.YY_NO_ACTION}

AtHand == Entry(0, call.major, call.minor)

\* The history after an error that ends what is `gone`.
Erred(reported, gone) ==
    [hist EXCEPT !.erred = IF @ = 0 THEN Len(hist.input) ELSE @,
                 !.quiet = 0,
                 !.reports = IF reported THEN @ + 1 ELSE @,
                 !.destroyed = @ (+) Destroy(gone)]

\* How far the stack is popped for the error symbol: never to its bottom entry.
PoppedForError(stack) ==
    LET legal == {n \in 2..Len(stack) :
                    yy_find_reduce_action(stack[n].stateno, gram.errsym) <= yy.YY_MAX_SHIFTREDUCE}
    IN  SubSeq(stack, 1, IF legal = {} THEN 1 ELSE Max(legal))

\* The grammar has no error symbol: the token is thrown away.
DiscardToken ==
    /\ SyntaxError /\ gram.errsym = NoSymbol
    /\ LET failed == call.major = 0 /\ gram.recovery
           gone   == <<AtHand>> \o IF failed THEN Above(parser.stack, 1) ELSE <<>>
       IN  /\ hist' = Erred(~gram.recovery \/ parser.errcnt <= 0, gone)
           /\ parser' = [parser EXCEPT
                 !.stack = IF failed THEN SubSeq(@, 1, 1) ELSE @,
                 !.errcnt = IF ~gram.recovery THEN @ ELSE IF failed THEN -1 ELSE 3]
    /\ call' = NoCall
    /\ UNCHANGED lemonVars

\* Mutant: the token that met the error symbol is not remembered.
DiscardingOnTop == Top(parser.stack).major = gram.errsym

\* The error symbol was just shifted, or this token was tried after it.
Discarding == Top(parser.stack).major = gram.errsym \/ call.errorhit

DiscardAfterError ==
    /\ SyntaxError /\ gram.errsym # NoSymbol /\ Discarding
    /\ hist' = Erred(parser.errcnt < 0, <<AtHand>>)
    /\ parser' = [parser EXCEPT !.errcnt = 3]
    /\ call' = NoCall
    /\ UNCHANGED lemonVars

\* Nothing on the stack can shift the error symbol, or the input has ended.
\* The error counter is set to -1 and then, like after any error, to 3.
ParseFailed ==
    /\ SyntaxError /\ gram.errsym # NoSymbol /\ ~Discarding
    /\ Len(PoppedForError(parser.stack)) = 1 \/ call.major = 0
    /\ hist' = Erred(parser.errcnt < 0, <<AtHand>> \o Above(parser.stack, 1))
    /\ parser' = [parser EXCEPT !.stack = SubSeq(@, 1, 1), !.errcnt = 3]
    /\ call' = NoCall
    /\ UNCHANGED lemonVars

\* The error symbol is shifted and the token is tried again.  What is pushed with
\* the error symbol is a copy of the token's value.
ShiftErrorSymbol ==
    /\ SyntaxError /\ gram.errsym # NoSymbol /\ ~Discarding
    /\ call.major # 0
    /\ LET stack == PoppedForError(parser.stack)
           act   == yy_find_reduce_action(Top(stack).stateno, gram.errsym)
           full  == Len(stack) >= parser.size
       IN  /\ Len(stack) > 1
           /\ \E size \in Sizes(full) :
                LET over == full /\ size = parser.size
                IN  /\ parser' = [stack |-> IF over THEN SubSeq(stack, 1, 1)
                                   ELSE Append(stack, ShiftEntry(act, gram.errsym, call.minor)),
                                  size |-> size, errcnt |-> 3]
                    /\ hist' = Erred(parser.errcnt < 0,
                                 Above(parser.stack, IF over THEN 1 ELSE Len(stack)))
    /\ call' = [call EXCEPT !.errorhit = TRUE]
    /\ UNCHANGED lemonVars

-----------------------------------------------------------------------------
\* The caller is done: what is left on the stack is destroyed.
ParseFinalize ==
    /\ phase = "parsing" /\ call = NoCall
    /\ hist.handed = gram.tokens \/ Ended
    /\ phase' = "finalized"
    /\ parser' = NoParser
    /\ hist' = [hist EXCEPT !.destroyed = @ (+) Destroy(Above(parser.stack, 1))]
    /\ UNCHANGED <<inputVars, lem, yy, call>>

LemparInit == LemonInit /\ parser = NoParser /\ call = NoCall /\ hist = NoHistory

ParseStep ==
    \/ Reduce
    \/ Shift
    \/ Accept
    \/ DiscardToken
    \/ DiscardAfterError
    \/ ParseFailed
    \/ ShiftErrorSymbol

LemparNext ==
    \/ LemonNext /\ UNCHANGED parserVars
    \/ ParseInit
    \/ phase = "parsing" /\ \E t \in 0..gram.nterminal - 1 : Parse(t)
    \/ ParseStep
    \/ ParseFinalize
=============================================================================
