------------------------------- MODULE Lemon -------------------------------
(* The parser generator of src/tools/lemon/lemon.c: main() reads a grammar,   *)
(* numbers its symbols and runs its passes over it, one action each (more     *)
(* where a pass has a loop that numbers things).  A symbol is its index: the  *)
(* end of input is 0, then terminals, nonterminals and {default}.  A symbol   *)
(* of a right-hand side is a record, because a MULTITERMINAL is a list of     *)
(* terminals.  A rule is known by its place in the grammar (rp->index + 1), a *)
(* configuration is a pair of a rule and a dot, a state is known by its       *)
(* number + 1.  Sets of tokens and of configurations are sets; the lists that *)
(* lemon.c sorts before it uses them are sequences in that order.             *)
EXTENDS LemonReader

CONSTANTS
    Jobs,           \* the files and options main() may be called with
    MAXRHS          \* the largest number of symbols of a rule

VARIABLES
    job,            \* what main() was called with
    gram,           \* the grammar after its symbols were numbered
    phase,          \* the pass of main() that runs next
    lem,            \* what the passes have computed in struct lemon
    yy              \* the tables of the generated parser

lemonVars == <<job, text, psp, gp, gram, phase, lem, yy>>

\* The variables that do not change once the grammar was read.
inputVars == <<job, text, psp, gp, gram>>

\* The elements of a set in a strict total order.
Sorted(S, Less(_, _)) ==
    [i \in 1..Cardinality(S) |->
        CHOOSE x \in S : Cardinality({y \in S : Less(y, x)}) = i - 1]

\* The value of precsym, errsym, wildcard and start if there is none.
NoSymbol == -1

\* A %start_symbol that the grammar does not have.
UnknownSymbol == -2

NRule(g) == Len(g.rules)

Sym(x) == [multi |-> FALSE, sub |-> <<x>>]

Multi(xs) == [multi |-> TRUE, sub |-> xs]

IsNonterminal(g, s) == ~s.multi /\ s.sub[1] >= g.nterminal

RulesOf(g, n) == {r \in DOMAIN g.rules : g.rules[r].lhs = n}

\* The numbers of the rules in the tables: those with code come first.
iRule(g, r) ==
    LET before(b) == Cardinality({q \in 1..(r - 1) : g.rules[q].code = b})
    IN  IF g.rules[r].code THEN before(TRUE)
        ELSE Cardinality({q \in DOMAIN g.rules : g.rules[q].code}) + before(FALSE)

-----------------------------------------------------------------------------
(* Reading the grammar.                                                      *)

NoGrammar == <<>>

PreprocessInput ==
    /\ phase = "preprocess"
    /\ LET pre == preprocess_input(text)
       IN  /\ phase' = IF pre.exclude > 0 THEN "failed" ELSE "Parse"
           /\ text' = IF pre.exclude > 0 THEN <<>> ELSE pre.tokens
           /\ gp' = [gp EXCEPT !.exit = IF pre.exclude > 0 THEN 1 ELSE 0]
    /\ UNCHANGED <<job, psp, gram, lem, yy>>

ParseToken ==
    /\ phase = "Parse" /\ text # <<>>
    /\ LET read == IF Head(text) = Unclosed THEN Error(psp) ELSE psp
           step == parseonetoken(read, gp, Head(text), MAXRHS)
       IN  psp' = step.psp /\ gp' = step.gp
    /\ text' = Tail(text)
    /\ UNCHANGED <<job, phase, gram, lem, yy>>

\* Terminals, then nonterminals and {default}, then the token classes.
Symbolcmpp(g, a, b) ==
    LET rank(n) == CASE g.symbols[n].type = "TERMINAL" -> 1
                     [] g.symbols[n].type = "NONTERMINAL" -> 2
                     [] OTHER -> 3
    IN  rank(a) < rank(b) \/ (rank(a) = rank(b) /\ a < b)

\* The grammar with numbers for names, as the passes use it.
IndexSymbols(g, j) ==
    LET all    == [g EXCEPT !.symbols = Append(@, Symbol("{default}", "NONTERMINAL"))]
        order  == Sorted(DOMAIN all.symbols, LAMBDA a, b : Symbolcmpp(all, a, b))
        at(i)  == all.symbols[order[i + 1]]
        Count(type) == Cardinality({n \in DOMAIN all.symbols : all.symbols[n].type = type})
        index(x) == SelectInSeq(order, LAMBDA n : all.symbols[n].name = x) - 1
        item(s) == LET sp == all.symbols[Find(all, s.name)]
                       sub == IF s.sub # <<>> THEN s.sub ELSE sp.sub
                   IN  IF s.sub # <<>> \/ sp.type = "MULTITERMINAL"
                       THEN Multi([i \in DOMAIN sub |-> index(sub[i])]) ELSE Sym(index(s.name))
        nterminal == Count("TERMINAL")
        nsymbol   == nterminal + Count("NONTERMINAL") - 1
        arg(kw)   == Filled(g, <<kw, "">>)
        start     == g.args[<<"start_symbol", "">>]
    IN  [nterminal |-> nterminal, nsymbol |-> nsymbol,
         rules |-> [r \in DOMAIN g.rules |->
             LET rp == g.rules[r]
             IN  [lhs |-> index(rp.lhs), rhs |-> [i \in DOMAIN rp.rhs |-> item(rp.rhs[i])],
                  code |-> rp.code, lhsalias |-> rp.lhsalias, alias |-> rp.alias,
                  precsym |-> IF rp.precsym = "" THEN NoSymbol ELSE index(rp.precsym)]],
         prec |-> [i \in 0..nsymbol |-> at(i).prec],
         assoc |-> [i \in 0..nsymbol |-> at(i).assoc],
         start |-> IF ~arg("start_symbol") THEN NoSymbol
                   ELSE IF Len(start) > 1 \/ Find(g, start[1]) = 0 THEN UnknownSymbol
                   ELSE index(start[1]),
         errsym |-> IF Find(g, "error") # 0 THEN index("error") ELSE NoSymbol,
         wildcard |-> IF g.wildcard = "" THEN NoSymbol ELSE index(g.wildcard),
         fallback |-> [i \in 0..nterminal - 1 |->
                          IF at(i).fallback = "" THEN 0 ELSE index(at(i).fallback)],
         destructors |-> {i \in 0..nsymbol - 1 :
                             IF i < nterminal THEN arg("token_destructor")
                             ELSE arg("default_destructor") \/ Filled(g, <<"destructor", at(i).name>>)},
         compress |-> j.compress, recovery |-> j.recovery, tokens |-> j.tokens]

\* main() after Parse(): the number of errors is the exit status.
EndOfFile ==
    /\ phase = "Parse" /\ text = <<>>
    /\ IF psp.errorcnt > 0 \/ gp.rules = <<>>
       THEN /\ phase' = "failed"
            /\ gp' = [gp EXCEPT !.exit = IF psp.errorcnt > 0 THEN psp.errorcnt % 256 ELSE 1]
            /\ UNCHANGED gram
       ELSE /\ phase' = "FindRulePrecedences"
            /\ gram' = IndexSymbols(gp, job)
            /\ gp' = EmptyGrammar
    /\ psp' = INITIALIZE
    /\ UNCHANGED <<job, text, lem, yy>>

-----------------------------------------------------------------------------
(* Precedences and first sets.                                               *)

RulePrecedence(g, r) ==
    LET candidates == FlattenSeq([i \in DOMAIN r.rhs |-> r.rhs[i].sub])
        first      == SelectInSeq(candidates, LAMBDA s : g.prec[s] >= 0)
    IN  CASE r.precsym # NoSymbol -> r.precsym
          [] r.precsym = NoSymbol /\ first = 0 -> NoSymbol
          [] OTHER -> candidates[first]

FindRulePrecedences ==
    /\ phase = "FindRulePrecedences"
    /\ phase' = "FindFirstSets"
    /\ lem' = [lem EXCEPT !.precsym =
                  [r \in DOMAIN gram.rules |-> RulePrecedence(gram, gram.rules[r])]]
    /\ UNCHANGED <<inputVars, yy>>

\* The places of a right-hand side that cannot be empty.
Solid(g, lambda, rhs) ==
    {i \in DOMAIN rhs : ~(IsNonterminal(g, rhs[i]) /\ rhs[i].sub[1] \in lambda)}

\* The tokens that can begin what a right-hand side generates.
FirstOf(g, lambda, firstset, rhs) ==
    LET solid == Solid(g, lambda, rhs)
        upto  == IF solid = {} THEN Len(rhs) ELSE Min(solid)
    IN  UNION {IF IsNonterminal(g, rhs[i]) THEN firstset[rhs[i].sub[1]]
               ELSE ToSet(rhs[i].sub) : i \in 1..upto}

RECURSIVE Lambdas(_, _)
Lambdas(g, lambda) ==
    LET more == lambda \cup {r.lhs : r \in {q \in ToSet(g.rules) :
                                            Solid(g, lambda, q.rhs) = {}}}
    IN  IF more = lambda THEN lambda ELSE Lambdas(g, more)

RECURSIVE FirstSets(_, _, _)
FirstSets(g, lambda, firstset) ==
    LET more == [n \in DOMAIN firstset |-> firstset[n] \cup
                    UNION {FirstOf(g, lambda, firstset, g.rules[r].rhs) :
                           r \in RulesOf(g, n)}]
    IN  IF more = firstset THEN firstset ELSE FirstSets(g, lambda, more)

FindFirstSets ==
    /\ phase = "FindFirstSets"
    /\ phase' = "FindStates"
    /\ LET lambda == Lambdas(gram, {})
       IN  lem' = [lem EXCEPT
               !.lambda = lambda,
               !.firstset = FirstSets(gram, lambda,
                   [n \in gram.nterminal..(gram.nsymbol - 1) |-> {}])]
    /\ UNCHANGED <<inputVars, yy>>

-----------------------------------------------------------------------------
(* Configurations and LR(0) states.                                          *)

Rhs(g, c) == g.rules[c[1]].rhs

CanShift(g, c) == c[2] < Len(Rhs(g, c))

AfterDot(g, c) == Rhs(g, c)[c[2] + 1]

Rest(g, c) == SubSeq(Rhs(g, c), c[2] + 2, Len(Rhs(g, c)))

Configcmp(a, b) == a[1] < b[1] \/ (a[1] = b[1] /\ a[2] < b[2])

\* The configurations whose dot stands before a nonterminal of rule r.
Calls(g, C, r) ==
    {c \in C : CanShift(g, c) /\ AfterDot(g, c) = Sym(g.rules[r].lhs)}

RECURSIVE Configlist_closure(_, _)
Configlist_closure(g, C) ==
    LET more == C \cup {<<r, 0>> : r \in {q \in DOMAIN g.rules : Calls(g, C, q) # {}}}
    IN  IF more = C THEN C ELSE Configlist_closure(g, more)

\* The follow sets the closure starts with, and its propagation links.
ClosureFws(g, l, C) ==
    [c \in C |-> IF c[2] # 0 THEN {}
                 ELSE UNION {FirstOf(g, l.lambda, l.firstset, Rest(g, d)) :
                             d \in Calls(g, C, c[1])}]

\* Mutant: a rest that can be empty, but is not, lets no follow set through.
ClosureLinksAtEnd(g, l, C) ==
    UNION {{<<d, c>> : d \in {e \in Calls(g, C, c[1]) : Rest(g, e) = <<>>}} :
           c \in {e \in C : e[2] = 0}}

ClosureLinks(g, l, C) ==
    UNION {{<<d, c>> : d \in {e \in Calls(g, C, c[1]) :
                              Solid(g, l.lambda, Rest(g, e)) = {}}} :
           c \in {e \in C : e[2] = 0}}

\* The symbols a state shifts, in the order of its sorted configurations.
ShiftSymbols(g, C) ==
    LET configs == Sorted({c \in C : CanShift(g, c)}, Configcmp)
        add(seen, c) == LET s == AfterDot(g, c)
                        IN  IF s \in ToSet(seen) THEN seen ELSE Append(seen, s)
    IN  FoldLeft(add, <<>>, configs)

Action(sp, type, x) == [sp |-> sp, type |-> type, x |-> x]

StartSymbol(g) == IF g.start >= 0 THEN g.start ELSE g.rules[1].lhs

StartBasis(g) == {<<r, 0>> : r \in RulesOf(g, StartSymbol(g))}

\* The start symbol is used by a rule, or a nonterminal has no rules.
StateErrors(g, states) ==
    \/ g.start = UnknownSymbol
    \/ \E r \in ToSet(g.rules) : Sym(StartSymbol(g)) \in ToSet(r.rhs)
    \/ \E s \in ToSet(states) : \E c \in s.cfp :
          /\ CanShift(g, c) /\ IsNonterminal(g, AfterDot(g, c))
          /\ LET n == AfterDot(g, c).sub[1] IN n # g.errsym /\ RulesOf(g, n) = {}

\* The state with this basis, made if it is new; buildshifts() of a new state
\* runs before its maker goes on, so the work left is a stack.
getstate(g, l, basis) ==
    LET same == SelectInSeq(l.states, LAMBDA s : s.bp = basis)
        new  == [bp |-> basis, cfp |-> Configlist_closure(g, basis)]
    IN  IF same # 0 THEN [lem |-> l, stp |-> same]
        ELSE [lem |-> [l EXCEPT
                 !.states = Append(@, new), !.ap = Append(@, <<>>),
                 !.todo = <<[stp |-> Len(l.states) + 1, syms |-> ShiftSymbols(g, new.cfp)]>> \o @],
              stp |-> Len(l.states) + 1]

\* One symbol of buildshifts(): the state after it, its actions and its links.
buildshifts(g, l, stp, s) ==
    LET from == {c \in l.states[stp].cfp : CanShift(g, c) /\ AfterDot(g, c) = s}
        moved(c) == <<c[1], c[2] + 1>>
        got  == getstate(g, [l EXCEPT !.todo[1].syms = Tail(@)], {moved(c) : c \in from})
    IN  [got.lem EXCEPT
            !.ap[stp] = [i \in DOMAIN s.sub |-> Action(s.sub[i], "SHIFT", got.stp)] \o @,
            !.bplp = @ \cup {<<<<got.stp, moved(c)>>, <<stp, c>>>> : c \in from}]

\* The follow sets of all states before propagation; $ follows the start rules.
InitialFws(g, l) ==
    [s \in DOMAIN l.states |->
        LET fws == ClosureFws(g, l, l.states[s].cfp)
        IN  [c \in DOMAIN fws |-> IF s = 1 /\ c \in StartBasis(g) THEN fws[c] \cup {0} ELSE fws[c]]]

FindStates ==
    /\ phase = "FindStates"
    /\ CASE lem.states = <<>> ->
              /\ lem' = getstate(gram, lem, StartBasis(gram)).lem
              /\ phase' = phase
         [] lem.todo # <<>> /\ Head(lem.todo).syms # <<>> ->
              /\ lem' = buildshifts(gram, lem, Head(lem.todo).stp, Head(Head(lem.todo).syms))
              /\ phase' = phase
         [] lem.todo # <<>> /\ Head(lem.todo).syms = <<>> ->
              /\ lem' = [lem EXCEPT !.todo = Tail(@)]
              /\ phase' = phase
         [] OTHER ->
              /\ lem' = [lem EXCEPT
                    !.autoReduce = [s \in DOMAIN lem.states |-> 0],
                    !.fws = InitialFws(gram, lem),
                    !.errors = @ \/ StateErrors(gram, lem.states)]
              /\ phase' = "FindLinks"
    /\ UNCHANGED <<inputVars, yy>>

-----------------------------------------------------------------------------
(* Follow sets.                                                              *)

\* Every link as a pair of places, a place being a state and a configuration.
FindLinks ==
    /\ phase = "FindLinks"
    /\ phase' = "FindFollowSets"
    /\ lem' = [lem EXCEPT !.fplp =
           {<<p[2], p[1]>> : p \in lem.bplp} \cup
           UNION {{<<<<s, p[1]>>, <<s, p[2]>>>> :
                       p \in ClosureLinks(gram, lem, lem.states[s].cfp)} :
                  s \in DOMAIN lem.states}]
    /\ UNCHANGED <<inputVars, yy>>

RECURSIVE Propagate(_, _)
Propagate(links, fws) ==
    LET into(s, c) == {p[1] : p \in {q \in links : q[2] = <<s, c>>}}
        more == [s \in DOMAIN fws |-> [c \in DOMAIN fws[s] |->
                    fws[s][c] \cup UNION {fws[p[1]][p[2]] : p \in into(s, c)}]]
    IN  IF more = fws THEN fws ELSE Propagate(links, more)

FindFollowSets ==
    /\ phase = "FindFollowSets"
    /\ phase' = "FindActions"
    /\ lem' = [lem EXCEPT !.fws = Propagate(lem.fplp, @)]
    /\ UNCHANGED <<inputVars, yy>>

-----------------------------------------------------------------------------
(* Actions and conflicts.                                                    *)

e_action == <<"SHIFT", "ACCEPT", "REDUCE", "ERROR", "SSCONFLICT", "SRCONFLICT",
              "RRCONFLICT", "SH_RESOLVED", "RD_RESOLVED", "NOT_USED", "SHIFTREDUCE">>

TypeRank == [t \in ToSet(e_action) |-> CHOOSE i \in DOMAIN e_action : e_action[i] = t]

actioncmp(a, b) ==
    \/ a.sp < b.sp
    \/ a.sp = b.sp /\ TypeRank[a.type] < TypeRank[b.type]
    \/ /\ a.sp = b.sp /\ a.type = b.type
       /\ a.type \in {"REDUCE", "SHIFTREDUCE"} /\ a.x < b.x

Action_sort(ap) == SortSeq(ap, actioncmp)

\* The types two actions on one symbol get, and the conflicts left to report.
resolve_conflict(g, precsym, ax, ay) ==
    LET spx == IF ax.type = "SHIFT" THEN ax.sp ELSE precsym[ax.x]
        spy == precsym[ay.x]
        px  == IF spx = NoSymbol THEN -1 ELSE g.prec[spx]
        py  == IF spy = NoSymbol THEN -1 ELSE g.prec[spy]
        result(tx, ty, n) == [x |-> tx, y |-> ty, nconflict |-> n]
        shiftReduce ==
            CASE px < 0 \/ py < 0 -> result("SHIFT", "SRCONFLICT", 1)
              [] px >= 0 /\ py >= 0 /\ px > py -> result("SHIFT", "RD_RESOLVED", 0)
              [] px >= 0 /\ py >= 0 /\ px < py -> result("SH_RESOLVED", "REDUCE", 0)
              [] px >= 0 /\ px = py /\ g.assoc[spx] = "RIGHT" -> result("SHIFT", "RD_RESOLVED", 0)
              [] px >= 0 /\ px = py /\ g.assoc[spx] = "LEFT" -> result("SH_RESOLVED", "REDUCE", 0)
              [] OTHER -> result("ERROR", "REDUCE", 0)
        reduceReduce ==
            CASE px < 0 \/ py < 0 \/ px = py -> result("REDUCE", "RRCONFLICT", 1)
              [] px >= 0 /\ py >= 0 /\ px > py -> result("REDUCE", "RD_RESOLVED", 0)
              [] OTHER -> result("RD_RESOLVED", "REDUCE", 0)
    IN  CASE ax.type = "SHIFT" /\ ay.type = "SHIFT" -> result("SHIFT", "SSCONFLICT", 1)
          [] ax.type = "SHIFT" /\ ay.type = "REDUCE" -> shiftReduce
          [] ax.type = "REDUCE" /\ ay.type = "REDUCE" -> reduceReduce
          [] OTHER -> result(ax.type, ay.type, 0)

\* The resolution of a sorted list: every pair on one symbol, in list order.
ResolveAll(g, precsym, ap) ==
    LET pairs == {<<i, j>> \in (DOMAIN ap) \X (DOMAIN ap) : i < j /\ ap[i].sp = ap[j].sp}
        step(acc, p) ==
            LET r == resolve_conflict(g, precsym, acc.ap[p[1]], acc.ap[p[2]])
            IN  [ap |-> [acc.ap EXCEPT ![p[1]].type = r.x, ![p[2]].type = r.y],
                 nconflict |-> acc.nconflict + r.nconflict]
    IN  FoldLeft(step, [ap |-> ap, nconflict |-> 0], Sorted(pairs, Configcmp))

\* All the actions of a state before conflicts are resolved.
StateActions(g, l, s) ==
    LET done    == {c \in l.states[s].cfp : ~CanShift(g, c)}
        reduces == UNION {{Action(t, "REDUCE", c[1]) : t \in l.fws[s][c]} : c \in done}
    IN  (IF s = 1 THEN <<Action(StartSymbol(g), "ACCEPT", 0)>> ELSE <<>>)
        \o Sorted(reduces, actioncmp) \o l.ap[s]

FindActions ==
    /\ phase = "FindActions"
    /\ phase' = "CompressTables"
    /\ LET solved == [s \in DOMAIN lem.ap |->
               ResolveAll(gram, lem.precsym, Action_sort(StateActions(gram, lem, s)))]
           canReduce == UNION {{a.x : a \in {b \in ToSet(solved[s].ap) : b.type = "REDUCE"}} :
                               s \in DOMAIN solved}
       IN  lem' = [lem EXCEPT
               !.ap = [s \in DOMAIN solved |-> solved[s].ap],
               !.nconflict = FoldLeft(LAMBDA n, s : n + s.nconflict, 0, solved),
               !.errors = @ \/ canReduce # DOMAIN gram.rules]
    /\ UNCHANGED <<inputVars, yy>>
=============================================================================
