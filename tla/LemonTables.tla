---------------------------- MODULE LemonTables ----------------------------
(* The second half of main() in src/tools/lemon/lemon.c: default reductions,  *)
(* renumbering of the states, and the packing of all actions into one table.  *)
EXTENDS Lemon

-----------------------------------------------------------------------------
(* Compression: the most frequent reduction of a state becomes its default.  *)

\* Mutant: the rule that accepts may become the default.
BestReduceOfAll(g, ap) ==
    LET places == {i \in DOMAIN ap : ap[i].type = "REDUCE"}
        uses(i) == Cardinality({j \in places : ap[j].x = ap[i].x})
        best == {i \in places : \A j \in places : uses(j) <= uses(i)}
    IN  IF best = {} THEN 0 ELSE Min(best)

\* The place of the first action by the rule most often reduced by, 0 if none.
BestReduce(g, ap) ==
    LET places == {i \in DOMAIN ap : /\ ap[i].type = "REDUCE"
                                     /\ g.rules[ap[i].x].lhs # StartSymbol(g)}
        uses(i) == Cardinality({j \in places : ap[j].x = ap[i].x})
        best == {i \in places : \A j \in places : uses(j) <= uses(i)}
    IN  IF best = {} THEN 0 ELSE Min(best)

\* autoReduce is the rule (pDfltReduce) of a state that only reduces, else 0.
CompressState(g, ap) ==
    LET at     == BestReduce(g, ap)
        rbest  == ap[at].x
        isBest(a) == a.type = "REDUCE" /\ a.x = rbest
        usesWildcard == \E a \in ToSet(ap) : a.type = "SHIFT" /\ a.sp = g.wildcard
        packed == [i \in DOMAIN ap |->
                      IF i = at THEN Action(g.nsymbol, "REDUCE", rbest)
                      ELSE IF isBest(ap[i]) THEN [ap[i] EXCEPT !.type = "NOT_USED"] ELSE ap[i]]
        busy == \E a \in ToSet(packed) :
                    a.type = "SHIFT" \/ (a.type = "REDUCE" /\ a.x # rbest)
    IN  IF at = 0 \/ usesWildcard THEN [ap |-> ap, autoReduce |-> 0]
        ELSE [ap |-> Action_sort(packed), autoReduce |-> IF busy THEN 0 ELSE rbest]

\* A shift to a state that only reduces becomes a shift-and-reduce.
ShiftReduce(ap, autoReduce) ==
    [i \in DOMAIN ap |->
        IF ap[i].type = "SHIFT" /\ autoReduce[ap[i].x] # 0
        THEN Action(ap[i].sp, "SHIFTREDUCE", autoReduce[ap[i].x]) ELSE ap[i]]

\* A rule of one symbol without code is skipped: the action on its symbol is
\* the action on its left-hand side.
RECURSIVE SkipUnit(_, _, _)
SkipUnit(g, ap, i) ==
    LET rp == g.rules[ap[i].x]
        on == CHOOSE j \in DOMAIN ap : /\ j # i /\ ap[j].sp = rp.lhs
                                       /\ \A k \in 1..(j - 1) : k = i \/ ap[k].sp # rp.lhs
    IN  IF ap[i].type = "SHIFTREDUCE" /\ ap[i].sp >= g.nterminal
           /\ ~rp.code /\ Len(rp.rhs) = 1
        THEN SkipUnit(g, [ap EXCEPT ![i] = Action(ap[i].sp, ap[on].type, ap[on].x)], i)
        ELSE ap

SkipUnits(g, ap) ==
    FoldLeft(LAMBDA a, i : SkipUnit(g, a, i), ap, [i \in DOMAIN ap |-> i])

CompressTables ==
    /\ phase = "CompressTables"
    /\ phase' = "ResortStates"
    /\ LET packed == [s \in DOMAIN lem.ap |-> CompressState(gram, lem.ap[s])]
           autoReduce == [s \in DOMAIN packed |-> packed[s].autoReduce]
       IN  IF ~gram.compress THEN UNCHANGED lem
           ELSE lem' = [lem EXCEPT
                    !.ap = [s \in DOMAIN packed |->
                               SkipUnits(gram, ShiftReduce(packed[s].ap, autoReduce))],
                    !.autoReduce = autoReduce]
    /\ UNCHANGED <<inputVars, yy>>

-----------------------------------------------------------------------------
(* Renumbering.                                                              *)

HasAction(a) == a.type \in {"SHIFT", "SHIFTREDUCE", "REDUCE", "ERROR", "ACCEPT"}

\* The actions of a state that go into the table for terminals, or for
\* nonterminals, in list order.
TableActions(g, ap, isTkn) ==
    SelectSeq(ap, LAMBDA a : /\ HasAction(a) /\ a.sp # g.nsymbol
                             /\ (a.sp < g.nterminal) = isTkn)

stateResortCompare(g, l, a, b) ==
    LET nt(s)  == Len(TableActions(g, l.ap[s], FALSE))
        tkn(s) == Len(TableActions(g, l.ap[s], TRUE))
    IN  \/ nt(a) > nt(b)
        \/ nt(a) = nt(b) /\ tkn(a) > tkn(b)
        \/ nt(a) = nt(b) /\ tkn(a) = tkn(b) /\ a > b

-----------------------------------------------------------------------------
(* The action table under construction.  aAction holds the used slots.       *)

acttab_alloc == [aAction |-> <<>>, nAction |-> 0, nActionAlloc |-> 0]

Lookahead(p, i) == IF i \in DOMAIN p.aAction THEN p.aAction[i].lookahead ELSE -1

\* Put the transaction tr, a sequence of lookaheads and actions, into the table.
acttab_insert(g, p, tr, makeItSafe) ==
    LET n     == g.nsymbol + 1
        alloc == IF p.nAction + n >= p.nActionAlloc
                 THEN p.nAction + n + p.nActionAlloc + 20 ELSE p.nActionAlloc
        las   == {tr[j].lookahead : j \in DOMAIN tr}
        mn    == Min(las)
        slot(i, j) == tr[j].lookahead - mn + i
        begin == IF makeItSafe THEN mn ELSE 0
        Duplicate(i) ==
            /\ \A j \in DOMAIN tr : /\ slot(i, j) \in 0..(p.nAction - 1)
                                    /\ slot(i, j) \in DOMAIN p.aAction
                                    /\ p.aAction[slot(i, j)] = tr[j]
            /\ Cardinality({j \in 0..(p.nAction - 1) :
                   Lookahead(p, j) >= 0 /\ Lookahead(p, j) = j + mn - i}) = Len(tr)
        Hole(i) ==
            /\ \A j \in DOMAIN tr : slot(i, j) >= 0 /\ Lookahead(p, slot(i, j)) < 0
            /\ \A j \in 0..(p.nAction - 1) : Lookahead(p, j) # j + mn - i
        duplicates == {i \in begin..(p.nAction - 1) : Lookahead(p, i) = mn /\ Duplicate(i)}
        holes == {i \in begin..(alloc - Max(las) - 1) : Lookahead(p, i) < 0 /\ Hole(i)}
        i     == CASE duplicates # {} -> Max(duplicates)
                   [] duplicates = {} /\ holes # {} -> Min(holes)
                   [] OTHER -> Max({begin, alloc - Max(las)})
        put(a, j) == (slot(i, j) :> tr[j]) @@ a
        used  == {p.nAction} \cup {slot(i, j) + 1 : j \in DOMAIN tr}
                 \cup (IF makeItSafe THEN {i + g.nterminal + 1} ELSE {})
    IN  [tab  |-> [aAction |-> FoldLeft(put, p.aAction, [j \in DOMAIN tr |-> j]),
                   nAction |-> Max(used), nActionAlloc |-> alloc],
         ofst |-> i - mn]

acttab_action_size(p) == Max({0} \cup {i + 1 : i \in DOMAIN p.aAction})

-----------------------------------------------------------------------------
(* The tables of the generated parser.                                       *)

\* The values that separate the kinds of action.
ActionBase(g, l) ==
    LET nstate == Len(l.states)
    IN  [minShiftReduce |-> nstate,
         errAction |-> nstate + NRule(g),
         accAction |-> nstate + NRule(g) + 1,
         noAction  |-> nstate + NRule(g) + 2,
         minReduce |-> nstate + NRule(g) + 3]

compute_action(g, l, a) ==
    LET b == ActionBase(g, l)
    IN  CASE a.type = "SHIFT" -> SelectInSeq(l.sorted, LAMBDA s : s = a.x) - 1
          [] a.type = "SHIFTREDUCE" ->
                (IF a.sp >= g.nterminal /\ a.sp # g.errsym THEN b.minReduce
                 ELSE b.minShiftReduce) + iRule(g, a.x)
          [] a.type = "REDUCE" -> b.minReduce + iRule(g, a.x)
          [] a.type = "ERROR" -> b.errAction
          [] a.type = "ACCEPT" -> b.accAction

\* Every state's terminals and nonterminals, the largest sets first.
axset(g, l, sorted, nxstate) ==
    LET Set(n, isTkn) == [order |-> 2 * n + (IF isTkn THEN 0 ELSE 1), stp |-> n - 1, isTkn |-> isTkn,
                          acts |-> TableActions(g, l.ap[sorted[n]], isTkn)]
        sets == {Set(n, isTkn) : n \in 1..nxstate, isTkn \in BOOLEAN}
    IN  Sorted({a \in sets : a.acts # <<>>},
            LAMBDA a, b : \/ Len(a.acts) > Len(b.acts)
                          \/ Len(a.acts) = Len(b.acts) /\ a.order < b.order)

\* The states are renumbered, and the sets of actions to pack are known.
ResortStates ==
    /\ phase = "ResortStates"
    /\ phase' = "ReportTable"
    /\ LET sorted == <<1>> \o Sorted(2..Len(lem.states),
                         LAMBDA a, b : stateResortCompare(gram, lem, a, b))
           nxstate == Max({1} \cup {n \in DOMAIN sorted : lem.autoReduce[sorted[n]] = 0})
       IN  lem' = [lem EXCEPT !.sorted = sorted, !.nxstate = nxstate,
                              !.ax = axset(gram, lem, sorted, nxstate)]
    /\ UNCHANGED <<inputVars, yy>>

\* The table after one more set, with the offsets iTknOfst and iNtOfst.
InsertSet(g, l, a) ==
    LET tr  == [j \in DOMAIN a.acts |-> [lookahead |-> a.acts[j].sp,
                                         action |-> compute_action(g, l, a.acts[j])]]
        got == acttab_insert(g, l.packed.tab, tr, a.isTkn)
        ofst(old) == (a.stp :> got.ofst) @@ old
    IN  [tab      |-> got.tab,
         iTknOfst |-> IF a.isTkn THEN ofst(l.packed.iTknOfst) ELSE l.packed.iTknOfst,
         iNtOfst  |-> IF a.isTkn THEN l.packed.iNtOfst ELSE ofst(l.packed.iNtOfst)]

\* An offset table: cut after the last state that has one, filled elsewhere.
OffsetTable(ofst, missing) ==
    [s \in 0..Max({-1} \cup DOMAIN ofst) |-> IF s \in DOMAIN ofst THEN ofst[s] ELSE missing]

DefaultAction(g, l, s) ==
    LET dflt == {a \in ToSet(l.ap[s]) : HasAction(a) /\ a.sp = g.nsymbol}
    IN  IF dflt = {} THEN ActionBase(g, l).errAction
        ELSE ActionBase(g, l).minReduce + iRule(g, (CHOOSE a \in dflt : TRUE).x)

Tables(g, l) ==
    LET packed == l.packed
        tab    == packed.tab
        n      == acttab_action_size(tab)
        b      == ActionBase(g, l)
        mnNtOfst == Min({0} \cup {packed.iNtOfst[s] : s \in DOMAIN packed.iNtOfst})
        lookahead(i) == CASE i >= tab.nAction -> g.nterminal
                          [] i < tab.nAction /\ Lookahead(tab, i) < 0 -> g.nsymbol
                          [] OTHER -> Lookahead(tab, i)
        byNumber(k) == CHOOSE r \in DOMAIN g.rules : iRule(g, r) = k
    IN  [YYNSTATE |-> l.nxstate, YYNTOKEN |-> g.nterminal, YYNOCODE |-> g.nsymbol,
         YY_MAX_SHIFT |-> l.nxstate - 1,
         YY_MIN_SHIFTREDUCE |-> b.minShiftReduce,
         YY_MAX_SHIFTREDUCE |-> b.errAction - 1,
         YY_ERROR_ACTION |-> b.errAction, YY_ACCEPT_ACTION |-> b.accAction,
         YY_NO_ACTION |-> b.noAction, YY_MIN_REDUCE |-> b.minReduce,
         yy_action |-> [i \in 0..(n - 1) |->
             IF i \in DOMAIN tab.aAction THEN tab.aAction[i].action ELSE b.noAction],
         yy_lookahead |-> [i \in 0..(Max({tab.nAction, g.nterminal + n}) - 1) |-> lookahead(i)],
         yy_shift_ofst |-> OffsetTable(packed.iTknOfst, n),
         yy_reduce_ofst |-> OffsetTable(packed.iNtOfst, mnNtOfst - 1),
         yy_default |-> [s \in 0..(l.nxstate - 1) |-> DefaultAction(g, l, l.sorted[s + 1])],
         rule |-> [k \in 0..(NRule(g) - 1) |-> byNumber(k)]]

\* translate_code(): a label of a rule without code is never used.
LabelErrors(g) ==
    \E r \in ToSet(g.rules) : ~r.code /\ (r.lhsalias \/ TRUE \in ToSet(r.alias))

\* The sets are inserted one by one, then the tables are written.
ReportTable ==
    /\ phase = "ReportTable"
    /\ IF lem.ax # <<>>
       THEN /\ lem' = [lem EXCEPT !.ax = Tail(@), !.packed = InsertSet(gram, lem, Head(lem.ax))]
            /\ UNCHANGED <<phase, yy>>
       ELSE /\ phase' = "exit"
            /\ yy' = Tables(gram, lem)
            /\ lem' = [lem EXCEPT !.errors = @ \/ LabelErrors(gram)]
    /\ UNCHANGED inputVars

NoLem == [precsym |-> <<>>, lambda |-> {}, firstset |-> <<>>, states |-> <<>>, todo |-> <<>>,
          ap |-> <<>>, bplp |-> {}, fplp |-> {}, fws |-> <<>>, nconflict |-> 0,
          errors |-> FALSE, autoReduce |-> <<>>, sorted |-> <<>>, nxstate |-> 0,
          ax |-> <<>>, packed |-> [tab |-> acttab_alloc, iTknOfst |-> <<>>, iNtOfst |-> <<>>]]

\* The exit status: a conflict or an error fails the build that ran lemon.
Exit ==
    /\ phase = "exit"
    /\ LET bad == lem.errors \/ lem.nconflict > 0
       IN  /\ phase' = IF bad THEN "failed" ELSE "generated"
           /\ gp' = [gp EXCEPT !.exit = IF bad THEN 1 ELSE 0]
    /\ lem' = NoLem
    /\ UNCHANGED <<job, text, psp, gram, yy>>

LemonInit ==
    /\ \E j \in Jobs : text = j.lines /\ job = [j EXCEPT !.lines = <<>>]
    /\ psp = INITIALIZE
    /\ gp = EmptyGrammar
    /\ gram = NoGrammar
    /\ phase = "preprocess"
    /\ lem = NoLem
    /\ yy = <<>>

LemonNext ==
    \/ PreprocessInput \/ ParseToken \/ EndOfFile
    \/ FindRulePrecedences \/ FindFirstSets \/ FindStates \/ FindLinks
    \/ FindFollowSets \/ FindActions \/ CompressTables \/ ResortStates
    \/ ReportTable \/ Exit
=============================================================================
