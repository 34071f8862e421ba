------------------------------- MODULE JsonDoc ------------------------------
(***************************************************************************)
(* JSON documents with comments (util/lib_json): OurReader with the default   *)
(* features of CharReaderBuilder, BuiltStyledStreamWriter with those of       *)
(* StreamWriterBuilder, as lidig_json calls them.  A text is a sequence of    *)
(* tokens: "a" and "b" are strings, "q" a string with a bad escape, "1" a     *)
(* number, "Z" null, "x" a character that begins no token, "N" blanks with a  *)
(* line end, "C" a comment between slash-star and star-slash, "L" a comment   *)
(* from // to the end of its line, the line end included, "l" one without it. *)
(***************************************************************************)
EXTENDS Integers, Sequences, SequencesExt

CONSTANT stackLimit

\* F of v, which is evaluated once.
With(v, F(_)) == CHOOSE y \in {F(x) : x \in {v}} : TRUE

Strings == {"a", "b", "q"}
Comments == {"C", "L", "l"}

\* A value: type, an identity for its comments, members in the order of the map.
Value(t, id) == [t |-> t, id |-> id, names |-> <<>>, kids |-> <<>>]

\* The reader: place, pending comments, the last value (its identity, the place
\* after it, whether it has a comment), the comments set, errors, exception.
Reader == [p |-> 1, before |-> <<>>, last |-> 0, lastEnd |-> 0, lastHas |-> FALSE,
           notes |-> {}, errs |-> {}, throw |-> FALSE]

-----------------------------------------------------------------------------
(* Comments and tokens *)

\* setComment drops the line end that the comment ends with.
setComment(notes, id, place, text) ==
  {n \in notes : n.id # id \/ n.place # place}
  \cup {[id |-> id, place |-> place, text |-> IF Last(text) = "L" THEN Append(Front(text), "l") ELSE text]}

containsNewLine(t, a, b) == \E i \in a..b : t[i] \in {"N", "L"}

\* A comment at place i: of the last value if it is on its line.
addComment(st, t, i) ==
  LET text == <<IF t[i] = "l" THEN "L" ELSE t[i]>> IN
  IF ~st.lastHas /\ st.lastEnd # 0 /\ ~containsNewLine(t, st.lastEnd, i - 1)
  THEN [st EXCEPT !.notes = setComment(@, st.last, "same", text), !.lastHas = TRUE]
  ELSE [st EXCEPT !.before = @ \o text]

FirstAt(t, a, set) == LET at == {i \in a..Len(t) : t[i] \in set} IN
                      IF at = {} THEN Len(t) + 1 ELSE CHOOSE i \in at : \A j \in at : i <= j

\* A comment that has no line end of its own takes all up to the next one.
readToken(st, t) ==
  LET i == IF st.p > Len(t) THEN st.p ELSE FirstAt(t, st.p, UNION {{t[k]} : k \in DOMAIN t} \ {"N"})
      end == IF i <= Len(t) /\ t[i] = "l" THEN FirstAt(t, i, {"N", "L"}) + 1 ELSE i + 1
      type == IF i > Len(t) THEN "end" ELSE IF t[i] = "x" THEN "error" ELSE IF t[i] \in Strings THEN "string"
              ELSE IF t[i] \in Comments THEN "comment" ELSE t[i]
      moved == [st EXCEPT !.p = IF i > Len(t) THEN i ELSE IF end > Len(t) + 1 THEN Len(t) + 1 ELSE end]
  IN [st |-> IF type = "comment" THEN addComment(moved, t, i) ELSE moved, type |-> type, at |-> i, ok |-> type # "error"]

\* The first token from r on that is no comment.
RECURSIVE Skip(_, _)
Skip(r, t) == IF r.type = "comment" THEN With(readToken(r.st, t), LAMBDA q : Skip(q, t)) ELSE r

skipCommentTokens(st, t) == With(readToken(st, t), LAMBDA r : Skip(r, t))

addError(st, at) == [st EXCEPT !.errs = @ \cup {at}]

RECURSIVE Recover(_, _, _)
Recover(r, t, until) ==
  IF r.type \in {until, "end"} THEN r.st ELSE With(readToken(r.st, t), LAMBDA q : Recover(q, t, until))

recoverFromError(st, t, until) == IF st.throw THEN st ELSE With(readToken(st, t), LAMBDA r : Recover(r, t, until))

Fail(st, t, v, until) == [ok |-> FALSE, v |-> v, st |-> With(st, LAMBDA s : recoverFromError(s, t, until))]

-----------------------------------------------------------------------------
(* Values *)

\* operator[]: the member of that name, null if it is new, in the map's order.
Member(v, name, id) ==
  IF Contains(v.names, name) THEN v
  ELSE LET first == v.names # <<>> /\ name = "a" IN
       [v EXCEPT !.names = IF first THEN <<name>> \o @ ELSE Append(@, name),
                 !.kids = IF first THEN <<Value("Z", id)>> \o @ ELSE Append(@, Value("Z", id))]

IndexOf(s, x) == CHOOSE i \in DOMAIN s : s[i] = x

RECURSIVE readValue(_, _, _, _), readObject(_, _, _, _), readArray(_, _, _, _)

\* The member after the name at name.at: colon, value, comma and what follows the
\* comments after it.
ObjectMember(name, t, v, depth) ==
  IF t[name.at] = "q" THEN Fail(addError(name.st, name.at), t, v, "}")
  ELSE With(readToken(name.st, t), LAMBDA colon :
         IF colon.type # ":" THEN Fail(addError(colon.st, colon.at), t, v, "}")
         ELSE With(Member(v, t[name.at], colon.st.p), LAMBDA obj :
              With(readValue(colon.st, t, obj.kids[IndexOf(obj.names, t[name.at])].id, depth + 1), LAMBDA r :
              With([obj EXCEPT !.kids[IndexOf(obj.names, t[name.at])] = r.v], LAMBDA new :
                IF ~r.ok THEN Fail(r.st, t, new, "}")
                ELSE With(readToken(r.st, t), LAMBDA comma :
                       IF comma.type \notin {"}", ",", "comment"} THEN Fail(addError(comma.st, comma.at), t, new, "}")
                       ELSE With(Skip(comma, t), LAMBDA next :
                              IF next.type = "}" THEN [ok |-> TRUE, v |-> new, st |-> next.st]
                              ELSE readObject(next.st, t, new, depth)))))))

\* What follows the opening brace or a comma; a trailing comma is allowed.
readObject(st, t, v, depth) ==
  With(skipCommentTokens(st, t), LAMBDA name :
    CASE name.type = "}" -> [ok |-> TRUE, v |-> v, st |-> name.st]
      [] name.type = "string" -> ObjectMember(name, t, v, depth)
      [] OTHER -> Fail(addError(name.st, name.at), t, v, "}"))

\* The end of the array, or one more element.
readArray(st, t, v, depth) ==
  With(FirstAt(t, st.p, UNION {{t[k]} : k \in DOMAIN t} \ {"N"}), LAMBDA i :
    IF i <= Len(t) /\ t[i] = "]" THEN [ok |-> TRUE, v |-> v, st |-> [st EXCEPT !.p = i + 1]]
    ELSE With(readValue([st EXCEPT !.p = i], t, i, depth + 1), LAMBDA r :
         With([v EXCEPT !.kids = Append(@, r.v)], LAMBDA new :
           IF ~r.ok THEN Fail(r.st, t, new, "]")
           ELSE With(skipCommentTokens(r.st, t), LAMBDA comma :
                  CASE comma.type = "]" -> [ok |-> TRUE, v |-> new, st |-> comma.st]
                    [] comma.type = "," -> readArray(comma.st, t, new, depth)
                    [] OTHER -> Fail(addError(comma.st, comma.at), t, new, "]")))))

\* Mutated form: the last level is refused too.
TooDeep_Early(depth) == depth >= stackLimit

TooDeep(depth) == depth > stackLimit

\* The comments before a value become its own.
Commented(st, id) ==
  IF st.before = <<>> THEN st ELSE [st EXCEPT !.notes = setComment(@, id, "before", st.before), !.before = <<>>]

\* A value that begins with the token of that type at that place.
Began(st, t, type, at, id, depth) ==
  CASE type = "{" -> readObject(st, t, Value("{", id), depth)
    [] type = "[" -> readArray(st, t, Value("[", id), depth)
    [] type = "string" /\ t[at] = "q" -> [ok |-> FALSE, v |-> Value("Z", id), st |-> addError(st, at)]
    [] OTHER -> [ok |-> TRUE, v |-> Value(t[at], id), st |-> st]

readValue(st, t, id, depth) ==
  IF TooDeep(depth) THEN [ok |-> FALSE, v |-> Value("Z", id), st |-> [st EXCEPT !.throw = TRUE]]
  ELSE With(skipCommentTokens(st, t), LAMBDA token :
       With(Commented(token.st, id), LAMBDA st1 :
         IF token.type \notin {"{", "[", "string", "1", "Z"}
         THEN [ok |-> FALSE, v |-> Value("Z", id), st |-> addError(st1, token.at)]
         ELSE With(Began(st1, t, token.type, token.at, id, depth), LAMBDA r :
                [r EXCEPT !.st.last = id, !.st.lastEnd = r.st.p, !.st.lastHas = FALSE])))

\* OurReader::parse; what follows the value is not an error.
parse(t) ==
  With(readValue(Reader, t, 0, 1), LAMBDA r :
    IF r.st.throw THEN r
    ELSE With(skipCommentTokens(r.st, t).st, LAMBDA st :
           [r EXCEPT !.st.notes = IF st.before = <<>> THEN st.notes ELSE setComment(st.notes, 0, "after", st.before)]))

-----------------------------------------------------------------------------
(* BuiltStyledStreamWriter.  w is [out, indented, lines]: lines tells whether *)
(* the indentation is not empty.                                             *)

Put(w, text) == [w EXCEPT !.out = @ \o text]
writeIndent(w) == IF w.lines THEN Put(w, <<"N">>) ELSE w

\* Mutated form: no line is begun.
writeWithIndent_Never(w, text) == [Put(w, text) EXCEPT !.indented = FALSE]

writeWithIndent(w, text) == [Put(IF w.indented THEN w ELSE writeIndent(w), text) EXCEPT !.indented = FALSE]

Note(notes, v, place) == LET n == {x \in notes : x.id = v.id /\ x.place = place} IN
                         IF n = {} THEN <<>> ELSE (CHOOSE x \in n : TRUE).text

writeCommentBeforeValue(w, notes, v) ==
  IF Note(notes, v, "before") = <<>> THEN w ELSE writeWithIndent(w, Note(notes, v, "before"))

writeCommentAfterValueOnSameLine(w, notes, v) ==
  LET y == Put(w, Note(notes, v, "same")) IN
  IF Note(notes, v, "after") = <<>> THEN y ELSE Put(writeIndent(y), Note(notes, v, "after"))

RECURSIVE writeValue(_, _, _)

\* Member or element k, its comments, and the comma before the next one.
writeChild(w, notes, v, k) ==
  LET before == writeCommentBeforeValue(w, notes, v.kids[k])
      child == IF v.t = "{" THEN writeValue(Put(writeWithIndent(before, <<v.names[k]>>), <<":">>), notes, v.kids[k])
               ELSE [writeValue([(IF before.indented THEN before ELSE writeIndent(before)) EXCEPT !.indented = TRUE],
                                notes, v.kids[k]) EXCEPT !.indented = FALSE]
  IN writeCommentAfterValueOnSameLine(IF k = Len(v.kids) THEN child ELSE Put(child, <<",">>), notes, v.kids[k])

writeValue(w, notes, v) ==
  LET close == IF v.t = "{" THEN <<"}">> ELSE <<"]">> IN
  IF v.t \notin {"{", "["} THEN Put(w, <<v.t>>)
  ELSE IF v.kids = <<>> THEN Put(w, <<v.t>> \o close)
  ELSE writeWithIndent(FoldLeft(LAMBDA y, k : writeChild(y, notes, v, k), writeWithIndent(w, <<v.t>>),
                                [k \in DOMAIN v.kids |-> k]), close)

write(r, lines) ==
  LET w == writeCommentBeforeValue([out |-> <<>>, indented |-> TRUE, lines |-> lines], r.st.notes, r.v)
      y == [(IF w.indented THEN w ELSE writeIndent(w)) EXCEPT !.indented = TRUE]
  IN writeCommentAfterValueOnSameLine(writeValue(y, r.st.notes, r.v), r.st.notes, r.v).out

-----------------------------------------------------------------------------
RECURSIVE Plain(_)
Plain(v) == [t |-> v.t, names |-> v.names, kids |-> [k \in DOMAIN v.kids |-> Plain(v.kids[k])]]

\* What was read is read again from what is written of it, comments and all: with
\* line ends always, on one line unless a comment of the text ends with its line.
RewriteKeepsValue(t) ==
  \A r \in {parse(t)} :
    r.ok => \A text \in {write(r, lines) : lines \in IF Contains(t, "L") THEN {TRUE} ELSE BOOLEAN} :
              \E again \in {parse(text)} : again.ok /\ Plain(again.v) = Plain(r.v)

\* t from a to b is a value, with at most d levels below it.
RECURSIVE IsValue(_, _, _, _), IsList(_, _, _, _, _)
IsValue(t, a, b, d) ==
  /\ a <= b /\ d > 0
  /\ \/ a = b /\ t[a] \in {"a", "b", "1", "Z"}
     \/ a < b /\ t[a] = "[" /\ t[b] = "]" /\ (b = a + 1 \/ IsList(t, a + 1, b - 1, d - 1, FALSE))
     \/ a < b /\ t[a] = "{" /\ t[b] = "}" /\ (b = a + 1 \/ IsList(t, a + 1, b - 1, d - 1, TRUE))

\* Elements or members with commas between them, and one after the last if need be.
IsList(t, a, b, d, members) ==
  LET from == IF members THEN a + 2 ELSE a IN
  /\ members => a + 1 <= b /\ t[a] \in {"a", "b"} /\ t[a + 1] = ":"
  /\ \E c \in from..b : /\ IsValue(t, from, c, d)
                        /\ \/ c = b
                           \/ t[c + 1] = "," /\ (c + 1 = b \/ IsList(t, c + 2, b, d, members))

\* A text without comments is read without error exactly if it begins with a JSON
\* value that is not nested too deep; an error leaves the reader at the end of
\* a value or of the text, and an exception is thrown only for the depth.
AcceptsJson(t) ==
  (\A i \in DOMAIN t : t[i] \notin Comments \cup {"N"}) =>
    \A r \in {parse(t)} :
      /\ r.ok <=> \E b \in DOMAIN t : IsValue(t, 1, b, stackLimit)
      /\ r.st.throw => Len(SelectSeq(t, LAMBDA c : c \in {"{", "["})) >= stackLimit
      /\ ~r.ok <=> r.st.throw \/ r.st.errs # {}
=============================================================================
