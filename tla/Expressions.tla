---------------------------- MODULE Expressions ----------------------------
(* Expressions: the lexer (expression_lexer.c), the evaluator                 *)
(* (expression_evaluator.c), which parses and evaluates in one descent and    *)
(* asks a Host for variables and regular expressions, and the Host's adapter  *)
(* of the regular expressions (expression_regex_salts.c).                     *)
(* An input is a sequence of pieces: a punctuation character, a digit, a run  *)
(* of letters or a run of ones that is too long for a double.  Numbers are    *)
(* counted in tenths.  A call of the Host or of the allocator may be the one  *)
(* that fails.                                                                *)
EXTENDS Integers, SequencesExt, FiniteSetsExt

CONSTANTS
    Calls,              \* the calls of praktor_expression_evaluate()
    Variables,          \* what the Host resolves: path -> value
    Letters,            \* the runs of letters that inputs are made of
    EXPRESSION_MAX_DEPTH

VARIABLE expr           \* the call and where it is

exprVars == <<expr>>

\* 309 digits: as a whole number beyond DBL_MAX.
LongRun == "1...1"

Digits == {"0", "1", "2", LongRun}

DigitValue == [d \in Digits |-> IF d = LongRun THEN 1 ELSE CHOOSE n \in 0 .. 2 : ToString(n) = d]

Word == Letters \cup Digits \cup {"_"}

-----------------------------------------------------------------------------
\* Lexer: a lexer is the offset of the next piece and the kind before it.
praktor_expression_lexer_init == [at |-> 1, previous |-> "none"]

\* The first place from i on whose piece is not in S.
RECURSIVE Span(_, _, _)
Span(text, i, S) == IF i <= Len(text) /\ text[i] \in S THEN Span(text, i + 1, S) ELSE i

\* The first pass over a quoted literal: where it closes and how long its value
\* will be.  A regular expression keeps its escapes, a string drops them.
RECURSIVE Measure(_, _, _, _)
Measure(text, i, q, n) ==
    IF i > Len(text) \/ text[i] = q THEN [at |-> i, size |-> n]
    ELSE IF text[i] # "\\" THEN Measure(text, i + 1, q, n + 1)
    ELSE LET kept == n + (IF q = "/" THEN 1 ELSE 0) IN
         IF i < Len(text) THEN Measure(text, i + 2, q, kept + 1) ELSE [at |-> i + 1, size |-> kept]

\* The second pass copies the value, up to the end that the first one found.
RECURSIVE Unquote(_, _, _, _)
Unquote(text, i, end, q) ==
    IF i >= end \/ text[i] = q THEN <<>>
    ELSE IF text[i] # "\\" THEN <<text[i]>> \o Unquote(text, i + 1, end, q)
    ELSE (IF q = "/" THEN <<"\\">> ELSE <<>>)
         \o (IF i + 1 < end THEN <<text[i + 1]>> \o Unquote(text, i + 2, end, q) ELSE <<>>)

\* Mutant: a regular expression is not expected as an argument.
OpensRegexAtStart(lx) == lx.previous \in {"none", "OPERATOR"}

\* A slash opens a regular expression where an operand may stand.
OpensRegex(lx) == lx.previous \in {"none", "OPERATOR", "LPAREN"}

\* An operator: ==, !=, <=, >=, && and ||, === or a single character.
OperatorEnd(text, i) ==
    LET then == IF i < Len(text) THEN text[i + 1] ELSE "none"
        double == (text[i] \in {"=", "!", "<", ">"} /\ then = "=") \/ (text[i] \in {"&", "|"} /\ then = text[i])
        triple == double /\ text[i] = "=" /\ i + 2 <= Len(text) /\ text[i + 2] = "="
    IN  IF triple THEN i + 3 ELSE IF double THEN i + 2 ELSE i + 1

\* The token at place i, by its kind, the places of its value and its end.
Scanned(text, i, lx) ==
    LET ch == text[i]
        more == i < Len(text)
        Plain(kind, begin, end) ==
            [kind |-> kind, end |-> end, size |-> end - begin, value |-> SubSeq(text, begin, end - 1)]
        quoted == Measure(text, i + 1, ch, 0)
        closed == IF quoted.at <= Len(text) THEN quoted.at + 1 ELSE quoted.at
    IN
    CASE ch = "$"  -> Plain("VARIABLE", i + 1, Span(text, i + 1, Word \cup {"."}))
      [] ch \in {"'", "\""} \/ (ch = "/" /\ more /\ OpensRegex(lx)) ->
            [kind |-> IF ch = "/" THEN "REGEX" ELSE "STRING", end |-> closed, size |-> quoted.size,
             value |-> Unquote(text, i + 1, closed, ch)]
      [] ch \in Digits -> Plain("NUMBER", i, Span(text, i, Digits \cup {"."}))
      [] ch = "("  -> Plain("LPAREN", i, i + 1)
      [] ch = ")"  -> Plain("RPAREN", i, i + 1)
      [] ch = "."  -> Plain("DOT", i, i + 1)
      [] ch \in {"=", "!", "<", ">", "&", "|"} \/ (ch = "/" /\ more) ->
            Plain("OPERATOR", i, OperatorEnd(text, i))
      [] ch \in Letters \cup {"_"} -> Plain("IDENTIFIER", i, Span(text, i, Word))
      [] OTHER -> Plain("invalid", i, i)

TokenAt(text, i, lx) ==
    IF i <= Len(text) THEN Scanned(text, i, lx) ELSE [kind |-> "END", end |-> i, size |-> 0, value |-> <<>>]

Lexed(lx, t, capacity) ==
    IF t.kind = "invalid" THEN [status |-> "EINVAL", lx |-> lx, tok |-> t]
    ELSE IF capacity <= t.size THEN [status |-> "ENOBUFS", lx |-> lx, tok |-> t]
    ELSE [status |-> "OK", lx |-> [at |-> t.end, previous |-> t.kind], tok |-> t]

\* praktor_expression_lexer_next(): a token, or an error that consumes nothing.
praktor_expression_lexer_next(text, lx, capacity) == Lexed(lx, TokenAt(text, Span(text, lx.at, {" "}), lx), capacity)

-----------------------------------------------------------------------------
\* Values, and what the evaluator owns: the strings and the compiled regular
\* expressions (handles) that are alive.
Value(kind) == [kind |-> kind, b |-> FALSE, n |-> 0, t |-> <<>>, regex |-> FALSE]

Null == Value("NULL")

Boolean(b) == [Value("BOOLEAN") EXCEPT !.b = b]

Number(n) == [Value("NUMBER") EXCEPT !.n = n]

Text(t) == [Value("STRING") EXCEPT !.t = t]

Regex(t) == [Null EXCEPT !.regex = TRUE, !.t = t]

NaN == -1

Infinite == 10000

Result(p, v) == [p |-> p, v |-> v]

\* Op(r): what is done with r once r is there, as the code does after a call.
After(r, Op(_)) == CHOOSE s \in {Op(e) : e \in {r}} : TRUE

\* fail(): the first failure stays.
Fail(p, status) == IF p.status = "OK" THEN [p EXCEPT !.status = status] ELSE p

\* A call of the Host or the allocator: counted, and noted when it is made
\* though the evaluation has failed.
Asked(p) == [p EXCEPT !.calls = @ + 1, !.late = @ \/ p.status # "OK"]

Fails(p) == p.calls = p.call.fault.at

\* The values that are alive, by their owners.
Owns(p, v) ==
    [p EXCEPT !.strings = @ + (IF v.kind = "STRING" THEN 1 ELSE 0), !.handles = @ + (IF v.regex THEN 1 ELSE 0)]

clear_value(p, v) ==
    [p EXCEPT !.strings = @ - (IF v.kind = "STRING" THEN 1 ELSE 0), !.handles = @ - (IF v.regex THEN 1 ELSE 0)]

token_is(p, kind, values) == p.status = "OK" /\ p.tok.kind = kind /\ (values = {} \/ p.tok.value \in values)

TokenTaken(p, r) == IF r.status = "OK" THEN [p EXCEPT !.lx = r.lx, !.tok = r.tok] ELSE Fail(p, r.status)

next(p) ==
    IF p.status # "OK" THEN p ELSE TokenTaken(p, praktor_expression_lexer_next(p.call.text, p.lx, Len(p.call.text) + 1))

\* take_token() that must succeed.
require(p, kind) ==
    IF p.status # "OK" THEN p
    ELSE IF p.tok.kind # kind THEN Fail(p, "EINVAL")
    ELSE IF kind = "END" THEN p ELSE next(p)

truth(v) ==
    \/ v.regex
    \/ v.kind = "BOOLEAN" /\ v.b
    \/ v.kind = "NUMBER" /\ v.n \notin {NaN, 0}
    \/ v.kind = "STRING" /\ v.t # <<>>

RECURSIVE UnitsOf(_)
UnitsOf(t) == IF t = <<>> THEN 0 ELSE 10 * UnitsOf(Front(t)) + DigitValue[Last(t)]

\* strtod(): the longest numeric prefix, with its end; a number out of range is
\* infinite (and ERANGE).  A run of letters may be the spelling of a number that
\* is none.
strtod(t) ==
    LET whole == Span(t, 1, Digits)
        vast == \E i \in 1 .. whole - 1 : t[i] = LongRun
        point == whole <= Len(t) /\ t[whole] = "."
        tenths == point /\ whole < Len(t) /\ t[whole + 1] \in Digits
        units == UnitsOf(SubSeq(t, 1, whole - 1))
    IN
    CASE t # <<>> /\ t[1] = "nan" -> [n |-> NaN, end |-> 2]
      [] vast            -> [n |-> Infinite, end |-> IF point THEN Span(t, whole + 1, Digits) ELSE whole]
      [] tenths          -> [n |-> 10 * units + DigitValue[t[whole + 1]], end |-> Span(t, whole + 1, Digits)]
      [] whole = 1       -> [n |-> 0, end |-> 1]
      [] OTHER           -> [n |-> 10 * units, end |-> IF point THEN whole + 1 ELSE whole]

\* as_number(): none, or the number.
as_number(v) ==
    LET s == Span(v.t, 1, {" "})
        t == SubSeq(v.t, s, Len(v.t))
        r == strtod(t)
    IN
    CASE v.regex            -> {}
      [] v.kind = "NUMBER"  -> {v.n}
      [] v.kind = "BOOLEAN" -> {IF v.b THEN 10 ELSE 0}
      [] v.kind = "STRING" /\ r.end > 1 /\ Span(t, r.end, {" "}) > Len(t) -> {r.n}
      [] OTHER              -> {}

\* The decimal digits of a number below a thousand.
Decimal(n) == IF n < 10 THEN <<ToString(n)>> ELSE <<ToString(n \div 10), ToString(n % 10)>>

TextOf(v) ==
    CASE v.regex \/ v.kind = "NULL" -> <<>>
      [] v.kind = "BOOLEAN" -> IF v.b THEN <<"true">> ELSE <<"false">>
      [] v.kind = "NUMBER"  -> IF v.n = NaN THEN <<"nan">>
                               ELSE Decimal(v.n \div 10) \o <<".", ToString(v.n % 10), "0", "0", "0", "0", "0">>
      [] OTHER              -> v.t

\* as_text(): a number is formatted into a string of its own, which the caller
\* frees at once; a text beyond the limit is refused.
as_text(p, v) ==
    LET formats == v.kind = "NUMBER" /\ ~v.regex
        q == IF formats THEN Asked(p) ELSE p
    IN
    IF p.status # "OK" THEN p
    ELSE IF formats /\ Fails(q) THEN Fail(q, "ENOMEM")
    ELSE IF Len(TextOf(v)) > p.call.max_string THEN Fail(q, "ENOBUFS") ELSE q

SameText(p, left, right) == Result(p, Boolean(p.status = "OK" /\ TextOf(left) = TextOf(right)))

\* Two numbers a and b, or none; else nulls, or texts.  The difference of two
\* that are not finite is no number, which is not small.
SameValue(p, left, right, a, b) ==
    LET nulls == {v \in {left, right} : ~v.regex /\ v.kind = "NULL"} IN
    IF p.status # "OK" THEN Result(p, Boolean(FALSE))
    ELSE IF a # {} /\ b # {} THEN Result(p, Boolean(a = b /\ a \cap {NaN, Infinite} = {}))
    ELSE IF nulls # {} THEN Result(p, Boolean({left, right} = nulls))
    ELSE SameText(as_text(as_text(p, left), right), left, right)

equal_values(p, left, right) == SameValue(p, left, right, as_number(left), as_number(right))

-----------------------------------------------------------------------------
\* The Host.  resolve() hands over a value even when it fails; compile() may
\* hand over a handle even when it fails, and success without one is refused.
resolve(p, path) ==
    LET q == Asked(p)
        given == p.call.fault.gives
        v == IF path \in DOMAIN Variables THEN Variables[path] ELSE Null
    IN
    IF ~p.call.host THEN Result(Fail(p, "ENOTSUP"), Null)
    ELSE IF Fails(q) THEN LET w == IF given THEN Text(<<>>) ELSE Null IN Result(Fail(Owns(q, w), "EIO"), w)
    ELSE Result(IF v.kind = "STRING" /\ Len(v.t) > p.call.max_string THEN Fail(Owns(q, v), "ENOBUFS")
                ELSE Owns(q, v), v)

compile_regex(p, pattern) ==
    LET q == Asked(p)
        v == Regex(pattern)
    IN
    IF ~p.call.regex THEN Result(Fail(p, "ENOTSUP"), Null)
    ELSE IF Fails(q)
         THEN LET w == IF p.call.fault.gives THEN v ELSE Null IN Result(Fail(Owns(q, w), "EIO"), w)
    ELSE Result(Owns(q, v), v)

\* Whether a text occurs in another, and whether a pattern (of plain pieces,
\* some of them escaped) matches.
Occurs(t, s) == \E i \in 0 .. Len(s) - Len(t) : SubSeq(s, i + 1, i + Len(t)) = t

Matches(pattern, s) == Occurs(SelectSeq(pattern, LAMBDA c : c # "\\"), s)

search(p, pattern, s) ==
    LET q == Asked(p) IN IF Fails(q) THEN Result(Fail(q, "EIO"), Boolean(FALSE)) ELSE Result(q, Boolean(Matches(pattern, s)))

-----------------------------------------------------------------------------
RECURSIVE parse_expression(_)
RECURSIVE parse_unary(_)

copy_string(p) ==
    LET q == Asked(p) IN
    IF Len(p.tok.value) > p.call.max_string THEN Result(Fail(p, "ENOBUFS"), Null)
    ELSE IF Fails(q) THEN Result(Fail(q, "ENOMEM"), Null)
    ELSE Result(Owns(q, Text(p.tok.value)), Text(p.tok.value))

\* A literal out of range is refused, as std::stod() refused it.
NumberOperand(p) ==
    LET n == strtod(p.tok.value).n IN
    IF n = Infinite THEN Result(Fail(p, "EINVAL"), Null) ELSE Result(p, Number(n))

Operand(p) ==
    CASE p.tok.kind = "VARIABLE"     -> resolve(p, p.tok.value)
      [] p.tok.kind = "STRING"       -> copy_string(p)
      [] p.tok.kind = "NUMBER"       -> NumberOperand(p)
      [] p.tok.kind = "REGEX"        -> compile_regex(p, p.tok.value)
      [] token_is(p, "IDENTIFIER", {<<"true">>, <<"false">>}) -> Result(p, Boolean(p.tok.value = <<"true">>))
      [] OTHER                       -> Result(Fail(p, "EINVAL"), Null)

Stepped(r) == [r EXCEPT !.p = next(@)]

Enclosed(r) == [r EXCEPT !.p = require(@, "RPAREN")]

primary(p) ==
    IF p.status # "OK" THEN Result(p, Null)
    ELSE IF p.tok.kind = "LPAREN" THEN Enclosed(parse_expression(next(p))) ELSE Stepped(Operand(p))

\* Mutant: the handle that test() compiled for itself stays.
HandBackNever(p, receiver, v) == p

\* The handle that test() compiled for a receiver that is none.
HandBack(p, receiver, v) == IF receiver.regex THEN p ELSE clear_value(p, v)

\* method(): a receiver that is no regular expression is compiled for test(),
\* and what it was compiled to is destroyed again.
Tested(c, receiver, text) ==
    LET s == search(c.p, c.v.t, text) IN
    IF c.p.status # "OK" THEN Result(HandBack(c.p, receiver, c.v), Null) ELSE Result(HandBack(s.p, receiver, c.v), s.v)

Apply(p, receiver, name, arg) ==
    LET text == TextOf(receiver)
        other == TextOf(arg)
    IN
    CASE p.status # "OK"          -> Result(p, Null)
      [] name = <<"includes">>    -> Result(p, Boolean(Occurs(other, text)))
      [] name = <<"startsWith">>  -> Result(p, Boolean(IsPrefix(other, text)))
      [] name = <<"endsWith">>    -> Result(p, Boolean(IsSuffix(other, text)))
      [] OTHER -> Tested(IF receiver.regex THEN Result(p, receiver) ELSE compile_regex(p, text), receiver, other)

method(p, receiver, name, arg, has_arg) ==
    IF p.status # "OK" THEN Result(p, Null)
    ELSE IF name \notin {<<"includes">>, <<"startsWith">>, <<"endsWith">>, <<"test">>} \/ ~has_arg
    THEN Result(Fail(p, "EINVAL"), Null)
    ELSE Apply(as_text(as_text(p, receiver), arg), receiver, name, arg)

\* postfix(): calls of methods, one after the other.  The name is copied
\* because the argument's tokens overwrite it.
HasArgument(p) == p.status = "OK" /\ p.tok.kind # "RPAREN"

Argument(p) == IF HasArgument(p) THEN parse_expression(p) ELSE Result(p, Null)

\* The operands of r are released.
Cleared(r, left, right) == [r EXCEPT !.p = clear_value(clear_value(@, right), left)]

Called(e, name, arg, has_arg) == Cleared(method(require(arg.p, "RPAREN"), e.v, name, arg.v, has_arg), e.v, arg.v)

WithArgument(e, name, p) == After(Argument(p), LAMBDA arg : Called(e, name, arg, HasArgument(p)))

MethodCall(e, p) ==
    IF ~token_is(p, "IDENTIFIER", {}) THEN Result(Fail(p, "EINVAL"), e.v)
    ELSE IF Fails(Asked(p)) THEN Result(Fail(Asked(p), "ENOMEM"), e.v)
    ELSE After(require(next(Asked(p)), "LPAREN"), LAMBDA q : WithArgument(e, p.tok.value, q))

RECURSIVE PostfixLoop(_)
PostfixLoop(e) == IF token_is(e.p, "DOT", {}) THEN After(MethodCall(e, next(e.p)), PostfixLoop) ELSE e

postfix(p) == After(primary(p), PostfixLoop)

\* enter(): the nesting is bounded.
enter(p) ==
    IF p.status # "OK" THEN p
    ELSE IF p.depth >= p.call.max_depth THEN Fail(p, "ENOBUFS") ELSE [p EXCEPT !.depth = @ + 1]

Left(p) == [p EXCEPT !.depth = @ - 1]

Negated(r) == [r EXCEPT !.p = Left(clear_value(@, r.v)), !.v = Boolean(~truth(@))]

Negation(p) == IF p.status # "OK" THEN Result(p, Null) ELSE Negated(parse_unary(p))

parse_unary(p) == IF token_is(p, "OPERATOR", {<<"!">>}) THEN Negation(enter(next(p))) ELSE postfix(p)

Orders(op, x, y) ==
    /\ NaN \notin {x, y}
    /\ CASE op = <<"<">> -> x < y
         [] op = <<">">> -> x > y
         [] op = <<"<", "=">> -> x <= y
         [] OTHER -> x >= y

Relation(p, op, a, b) ==
    IF p.status = "OK" /\ a # {} /\ b # {} THEN Result(p, Boolean(\E x \in a, y \in b : Orders(op, x, y)))
    ELSE Result(IF a # {} /\ b # {} THEN p ELSE Fail(p, "EINVAL"), Boolean(FALSE))

Compared(e, right) == Cleared(Relation(right.p, e.p.tok.value, as_number(e.v), as_number(right.v)), e.v, right.v)

Comparisons == {<<"<">>, <<">">>, <<"<", "=">>, <<">", "=">>}

\* Each level of the operators is a loop: its first operand is what the level
\* below makes of the unary on which all of them begin, and is joined with the
\* next operand while one of its operators follows.
RECURSIVE ComparisonLoop(_)
ComparisonLoop(e) ==
    IF token_is(e.p, "OPERATOR", Comparisons)
    THEN After(parse_unary(next(e.p)), LAMBDA right : ComparisonLoop(Compared(e, right))) ELSE e

comparison(p) == After(parse_unary(p), ComparisonLoop)

SignOf(r, op) == [r EXCEPT !.v = Boolean(@.b = (op = <<"=", "=">>))]

Equated(e, right) == Cleared(SignOf(equal_values(right.p, e.v, right.v), e.p.tok.value), e.v, right.v)

RECURSIVE EqualityLoop(_)
EqualityLoop(e) ==
    IF token_is(e.p, "OPERATOR", {<<"=", "=", "=">>}) THEN Result(Fail(e.p, "EINVAL"), e.v)
    ELSE IF token_is(e.p, "OPERATOR", {<<"=", "=">>, <<"!", "=">>})
    THEN After(comparison(next(e.p)), LAMBDA right : EqualityLoop(Equated(e, right))) ELSE e

EqualityFrom(e) == After(ComparisonLoop(e), EqualityLoop)

equality(p) == After(parse_unary(p), EqualityFrom)

\* Both operands are evaluated whatever the first one is.
Joined(e, right, is_or) ==
    LET holds == IF is_or THEN truth(e.v) \/ truth(right.v) ELSE truth(e.v) /\ truth(right.v) IN
    Cleared(Result(right.p, Boolean(holds)), e.v, right.v)

RECURSIVE ConjunctionLoop(_)
ConjunctionLoop(e) ==
    IF token_is(e.p, "OPERATOR", {<<"&", "&">>})
    THEN After(equality(next(e.p)), LAMBDA right : ConjunctionLoop(Joined(e, right, FALSE))) ELSE e

ConjunctionFrom(e) == After(EqualityFrom(e), ConjunctionLoop)

conjunction(p) == After(parse_unary(p), ConjunctionFrom)

RECURSIVE LogicalLoop(_)
LogicalLoop(e) ==
    IF token_is(e.p, "OPERATOR", {<<"|", "|">>})
    THEN After(conjunction(next(e.p)), LAMBDA right : LogicalLoop(Joined(e, right, TRUE))) ELSE e

LogicalFrom(e) == After(ConjunctionFrom(e), LogicalLoop)

logical(p) == After(parse_unary(p), LogicalFrom)

Outside(r) == [r EXCEPT !.p = Left(@)]

parse_expression(p) ==
    LET in == enter(p) IN IF in.status # "OK" THEN Result(in, Null) ELSE Outside(logical(in))

-----------------------------------------------------------------------------
\* A call of praktor_expression_evaluate(): the input is read once for its
\* tokens before anything is evaluated.  out and truthy are the caller's.
Untouched == Value("untouched")

Parser(call) ==
    [call |-> call, lx |-> praktor_expression_lexer_init, tok |-> [kind |-> "none", end |-> 0, size |-> 0, value |-> <<>>],
     status |-> "OK", depth |-> 0, calls |-> 0, late |-> FALSE, strings |-> 0, handles |-> 0]

NewCall(call) == [phase |-> "begin", p |-> Parser(call), tokens |-> 0, out |-> Untouched, truthy |-> {}]

Finished(p) == [expr EXCEPT !.phase = "done", !.p = p]

\* Arguments, the limit of the input and the scratch of its length.
ExpressionBegin ==
    LET c == expr.p.call
        p == Asked(expr.p)
    IN
    /\ expr.phase = "begin"
    /\ expr' = IF c.max_tokens = 0 \/ c.max_depth \notin 1 .. EXPRESSION_MAX_DEPTH THEN Finished(Fail(expr.p, "EINVAL"))
               ELSE IF Len(c.text) > c.max_input THEN Finished(Fail(expr.p, "ENOBUFS"))
               ELSE IF Fails(p) THEN Finished(Fail(p, "ENOMEM"))
               ELSE [expr EXCEPT !.phase = "scan", !.p = p]

\* The lexical pass.
ScanToken ==
    LET p == next(expr.p) IN
    /\ expr.phase = "scan"
    /\ expr' = IF expr.tokens = expr.p.call.max_tokens THEN Finished(Fail(expr.p, "ENOBUFS"))
               ELSE IF p.status # "OK" THEN Finished(p)
               ELSE [expr EXCEPT !.p = p, !.tokens = @ + 1,
                                 !.phase = IF p.tok.kind = "END" THEN "evaluate" ELSE "scan"]

\* The second pass evaluates; a regular expression is given out as NULL.
GivenOut(p, v) ==
    LET public == [v EXCEPT !.regex = FALSE, !.t = IF v.regex THEN <<>> ELSE @] IN
    IF p.status # "OK" THEN Finished(clear_value(p, v))
    ELSE [Finished(clear_value(p, [v EXCEPT !.kind = "NULL"])) EXCEPT !.out = public, !.truthy = {truth(v)}]

AtEnd(r) == GivenOut(require(r.p, "END"), r.v)

Evaluate ==
    /\ expr.phase = "evaluate"
    /\ expr' = AtEnd(parse_expression(next([expr.p EXCEPT !.lx = praktor_expression_lexer_init])))

ExprInit == \E c \in Calls : expr = NewCall(c)

ExprNext == ExpressionBegin \/ ScanToken \/ Evaluate

-----------------------------------------------------------------------------
\* What an expression means, by its tokens: it is split at its last operator of
\* the lowest precedence outside parentheses.  The meaning is none, or a value
\* with the nesting it takes.
RECURSIVE TokensFrom(_, _)
TokensFrom(text, lx) ==
    LET r == praktor_expression_lexer_next(text, lx, Len(text) + 1) IN
    IF r.status # "OK" THEN <<[kind |-> "invalid", value |-> <<>>]>>
    ELSE IF r.tok.kind = "END" THEN <<>>
    ELSE <<[kind |-> r.tok.kind, value |-> r.tok.value]>> \o TokensFrom(text, r.lx)

Level(s, i) ==
    Cardinality({j \in 1 .. i - 1 : s[j].kind = "LPAREN"}) - Cardinality({j \in 1 .. i - 1 : s[j].kind = "RPAREN"})

\* The places of some operators outside parentheses.
TopLevel(s, ops) == {i \in DOMAIN s : s[i].kind = "OPERATOR" /\ s[i].value \in ops /\ Level(s, i) = 0}

\* The parenthesis that the last token closes.
Opening(s) == {i \in DOMAIN s : s[i].kind = "LPAREN" /\ Level(s, i) = Level(s, Len(s)) - 1
                                /\ \A j \in i + 1 .. Len(s) : Level(s, j) > Level(s, i)}

Ladder ==
    <<{<<"|", "|">>}, {<<"&", "&">>}, {<<"=", "=">>, <<"!", "=">>},
      {<<"<">>, <<">">>, <<"<", "=">>, <<">", "=">>}>>

\* The numbers that x and y are, if any, are a and b.
Pairwise(c, op, x, y, a, b) ==
    LET plain == \A v \in {x, y} : Len(TextOf(v)) <= c.max_string
        same == IF a # {} /\ b # {} THEN {a = b /\ a \cap {NaN, Infinite} = {}}
                ELSE IF \E v \in {x, y} : v.kind = "NULL" /\ ~v.regex THEN {x = y}
                ELSE IF plain THEN {TextOf(x) = TextOf(y)} ELSE {}
    IN
    CASE op = <<"|", "|">> -> {truth(x) \/ truth(y)}
      [] op = <<"&", "&">> -> {truth(x) /\ truth(y)}
      [] op = <<"=", "=">> -> same
      [] op = <<"!", "=">> -> {~e : e \in same}
      [] OTHER             -> {Orders(op, n, m) : n \in a, m \in b}

Binary(c, op, x, y) == Pairwise(c, op, x, y, as_number(x), as_number(y))

Call(c, name, x, y) ==
    IF \E v \in {x, y} : Len(TextOf(v)) > c.max_string THEN {}
    ELSE CASE name = <<"includes">>   -> {Occurs(TextOf(y), TextOf(x))}
           [] name = <<"startsWith">> -> {IsPrefix(TextOf(y), TextOf(x))}
           [] name = <<"endsWith">>   -> {IsSuffix(TextOf(y), TextOf(x))}
           [] name = <<"test">> /\ c.regex -> {Matches(IF x.regex THEN x.t ELSE TextOf(x), TextOf(y))}
           [] OTHER                   -> {}

OperandMeans(c, t) ==
    CASE t.kind = "VARIABLE" /\ c.host -> {IF t.value \in DOMAIN Variables THEN Variables[t.value] ELSE Null}
      [] t.kind = "STRING"   -> {Text(t.value)}
      [] t.kind = "NUMBER"   -> {Number(n) : n \in {strtod(t.value).n} \ {Infinite}}
      [] t.kind = "REGEX" /\ c.regex -> {Regex(t.value)}
      [] t.kind = "IDENTIFIER" /\ t.value \in {<<"true">>, <<"false">>} -> {Boolean(t.value = <<"true">>)}
      [] OTHER               -> {}

RECURSIVE Meaning(_, _)
Meaning(c, s) ==
    LET n == Len(s)
        rungs == {r \in 1 .. 4 : TopLevel(s, Ladder[r]) # {}}
        i == Max(TopLevel(s, Ladder[Min(rungs)]))
        m == Max(Opening(s))
        Part(a, b) == Meaning(c, SubSeq(s, a, b))
    IN
    CASE n = 0        -> {}
      [] rungs # {}   -> {[v |-> Boolean(b), depth |-> Max({x.depth, y.depth})] :
                            <<b, x, y>> \in {<<b, x, y>> \in BOOLEAN \X Part(1, i - 1) \X Part(i + 1, n) :
                                                b \in Binary(c, s[i].value, x.v, y.v)}}
      [] s[1].kind = "OPERATOR" /\ s[1].value = <<"!">> ->
            {[v |-> Boolean(~truth(x.v)), depth |-> x.depth + 1] : x \in Part(2, n)}
      [] n = 1        -> {[v |-> v, depth |-> 0] : v \in {v \in OperandMeans(c, s[1]) : Len(v.t) <= c.max_string \/ v.regex}}
      [] s[n].kind # "RPAREN" \/ Opening(s) = {} -> {}
      [] m = 1        -> {[x EXCEPT !.depth = @ + 1] : x \in Part(2, n - 1)}
      [] m > 3 /\ s[m - 1].kind = "IDENTIFIER" /\ s[m - 2].kind = "DOT" ->
            {[v |-> Boolean(b), depth |-> Max({x.depth, y.depth + 1})] :
                <<b, x, y>> \in {<<b, x, y>> \in BOOLEAN \X Part(1, m - 3) \X Part(m + 1, n - 1) :
                                    b \in Call(c, s[m - 1].value, x.v, y.v)}}
      [] OTHER        -> {}

\* Whether a call of the Host or the allocator failed.
Faulted == expr.p.call.fault.at \in 1 .. expr.p.calls

\* The lexer gives back the tokens of which an input is written (regular
\* expressions where an operand may stand), measures every value to exactly the
\* length it then copies, and never needs more than the evaluator's scratch,
\* which is as long as the input (praktor_expression_lexer_next()).
LexesExactly ==
    LET c == expr.p.call
        s == TokensFrom(c.text, praktor_expression_lexer_init)
    IN
    /\ expr.p.tok.size = Len(expr.p.tok.value)
    /\ expr.phase = "scan" => expr.p.tok.size < Len(c.text) + 1
    /\ (expr.phase = "scan" /\ expr.tokens = 0 /\ c.written # <<>>) => s = c.written

\* An evaluation succeeds exactly when the expression has a meaning within the
\* limits and nothing it asked for failed, and then gives that value and its
\* truth; otherwise out and truthy are untouched.  Whatever happens, nothing is
\* asked of the Host before the whole input was read or after a failure, and
\* every string and every handle is released exactly once, save the string
\* given out (praktor_expression_evaluate(); expression_evaluator.h).
EvaluatesExactly ==
    LET c == expr.p.call
        s == TokensFrom(c.text, praktor_expression_lexer_init)
        meant == {x \in Meaning(c, s) : x.depth + 1 <= c.max_depth}
        admitted == /\ Len(c.text) <= c.max_input
                    /\ Len(s) + 1 <= c.max_tokens
                    /\ c.max_depth \in 1 .. EXPRESSION_MAX_DEPTH
                    /\ \A i \in DOMAIN s : s[i].kind # "invalid"
        ok == expr.p.status = "OK"
    IN
    expr.phase = "done" =>
        /\ ok <=> admitted /\ meant # {} /\ ~Faulted
        /\ ok => \A x \in meant :
                /\ expr.out = (IF x.v.regex THEN Null ELSE x.v)
                /\ expr.truthy = {truth(x.v)}
        /\ ~ok => expr.out = Untouched /\ expr.truthy = {}
        /\ expr.p.handles = 0
        /\ expr.p.strings = (IF expr.out.kind = "STRING" THEN 1 ELSE 0)
        /\ ~expr.p.late
        /\ ~admitted => expr.p.calls <= 1
=============================================================================
