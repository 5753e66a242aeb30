-------------------------------- MODULE SemVer --------------------------------
(***************************************************************************)
(* Versions and constraints: SemVer, version_key and ConstraintSet of      *)
(* registry/resolver.py, and is_valid_semver_constraint of                 *)
(* engine/parser.py, which decides on the same texts before.               *)
(*                                                                         *)
(* A version is its three numbers, its prerelease identifiers and the      *)
(* place of its build metadata in the order of strings.  An identifier is  *)
(* numeric or not; it has a value as a number and a place in the order of  *)
(* strings, which are different orders ("10" comes before "2").            *)
(*                                                                         *)
(* A constraint is the sequence of its words.  A word is an operator or    *)
(* none, and what follows it: a version, written as semver demands         *)
(* ("strict") or only as int() reads it ("loose", 01.0.0), something that  *)
(* neither reads ("bad"), or nothing ("none").                             *)
(***************************************************************************)
EXTENDS Integers, Sequences

Identifiers == [numeric : BOOLEAN, int : Nat, text : Nat]
SemVers == [core : [1..3 -> Nat], prerelease : Seq(Identifiers), build : Nat]

Least(S) == CHOOSE i \in S : \A k \in S : i <= k

Sign(n) == IF n > 0 THEN 1 ELSE IF n < 0 THEN -1 ELSE 0

-----------------------------------------------------------------------------
(* The order of versions *)

compare_identifiers(a, b) ==
  IF a.numeric /\ b.numeric THEN Sign(a.int - b.int)
  ELSE IF a.numeric THEN -1
  ELSE IF b.numeric THEN 1
  ELSE Sign(a.text - b.text)

\* The first identifier that differs decides, then the number of them.
PrereleaseSign(p, q) ==
  LET differ == {i \in DOMAIN p \cap DOMAIN q : compare_identifiers(p[i], q[i]) # 0}
  IN IF differ # {} THEN compare_identifiers(p[Least(differ)], q[Least(differ)])
     ELSE Sign(Len(p) - Len(q))

compare_versions(a, b) ==
  LET differ == {i \in 1..3 : a.core[i] # b.core[i]} IN
  IF differ # {} THEN Sign(a.core[Least(differ)] - b.core[Least(differ)])
  ELSE IF a.prerelease = <<>> /\ b.prerelease = <<>> THEN 0
  ELSE IF a.prerelease = <<>> THEN 1
  ELSE IF b.prerelease = <<>> THEN -1
  ELSE PrereleaseSign(a.prerelease, b.prerelease)

\* The order of tuples: the first difference decides, a prefix is smaller.
TupleBelow(s, t) ==
  \/ \E i \in DOMAIN s \cap DOMAIN t :
       s[i] < t[i] /\ \A k \in 1..(i - 1) : s[k] = t[k]
  \/ Len(s) < Len(t) /\ \A i \in DOMAIN s : s[i] = t[i]

\* Mutant: the parts of the key are compared from the right.
KeyBelowReversed(a, b) ==
  TupleBelow(<<a.core[3], a.core[2], a.core[1]>>, <<b.core[3], b.core[2], b.core[1]>>)

\* version_key(a) < version_key(b): the prerelease as a tuple of strings.
KeyBelow(a, b) ==
  LET texts(v) == [i \in DOMAIN v.prerelease |-> v.prerelease[i].text] IN
  \/ TupleBelow(a.core, b.core)
  \/ a.core = b.core /\ TupleBelow(texts(a), texts(b))
  \/ a.core = b.core /\ texts(a) = texts(b) /\ a.build < b.build

-----------------------------------------------------------------------------
(* Comparators *)

Comparator(op, version) == [op |-> op, version |-> version]

ComparatorSatisfied(c, candidate) ==
  LET cmp == compare_versions(candidate, c.version) IN
  CASE c.op = ">=" -> cmp >= 0
    [] c.op = "<=" -> cmp <= 0
    [] c.op = ">"  -> cmp > 0
    [] c.op = "<"  -> cmp < 0
    [] c.op = "="  -> cmp = 0
    [] c.op = "!=" -> cmp # 0

Release(a, b, c) == [core |-> <<a, b, c>>, prerelease |-> <<>>, build |-> 0]

\* Mutant: 0.y.z is treated as x.y.z.
caret_upper_bound_major(base) == Release(base.core[1] + 1, 0, 0)

caret_upper_bound(base) ==
  IF base.core[1] > 0 THEN Release(base.core[1] + 1, 0, 0)
  ELSE IF base.core[2] > 0 THEN Release(0, base.core[2] + 1, 0)
  ELSE Release(0, 0, base.core[3] + 1)

tilde_upper_bound(base) ==
  IF base.core[1] > 0 THEN Release(base.core[1], base.core[2] + 1, 0)
  ELSE IF base.core[2] > 0 THEN Release(0, base.core[2] + 1, 0)
  ELSE Release(0, 0, base.core[3] + 1)

-----------------------------------------------------------------------------
(* Constraints *)

RangeOps == {">=", "<=", ">", "<", "!="}
Words ==
  [op : RangeOps \cup {"none", "=", "^", "~"},
   kind : {"strict", "loose", "bad", "none"},
   version : SemVers]

HasOp(text, ops) == \E i \in DOMAIN text : text[i].op \in ops

\* An operator that stands alone takes the next word for its version.
Bare(word) == word.op \in RangeOps /\ word.kind = "none"

\* The loop over the words, in both files: every word is an operator with a
\* version, an operator alone before a version, or such a version.
Tokens(text, kinds) ==
  \A i \in DOMAIN text :
    \/ text[i].op \in RangeOps \cup {"="} /\ text[i].kind \in kinds
    \/ Bare(text[i]) /\ i < Len(text) /\ text[i + 1].op = "none"
    \/ text[i].op = "none" /\ text[i].kind \in kinds /\ i > 1 /\ Bare(text[i - 1])

\* The parser: a range if an operator occurs anywhere, "=" among them, else one
\* version with or without ^ or ~.
is_valid_semver_constraint(text) ==
  /\ text # <<>>
  /\ IF HasOp(text, RangeOps \cup {"="}) THEN Tokens(text, {"strict"})
     ELSE Len(text) = 1 /\ text[1].kind = "strict"

Parsed == {"strict", "loose"}

\* ConstraintSet.from_string returns: ^ and ~ are looked at first, and "=" does
\* not make a range.
Readable(text) ==
  /\ text # <<>>
  /\ CASE text[1].op \in {"^", "~"} ->
            \/ Len(text) = 1 /\ text[1].kind \in Parsed
            \/ /\ Len(text) = 2 /\ text[1].kind = "none"
               /\ text[2].op = "none" /\ text[2].kind \in Parsed
       [] text[1].op \notin {"^", "~"} /\ HasOp(text, RangeOps) ->
            Tokens(text, Parsed)
       [] OTHER -> Len(text) = 1 /\ text[1].op = "none" /\ text[1].kind \in Parsed

\* The comparators that from_string makes of a constraint it can read.
Comparators(text) ==
  LET version(i) == IF text[i].kind = "none" THEN text[i + 1].version
                    ELSE text[i].version IN
  CASE text[1].op = "^" ->
         {Comparator(">=", version(1)), Comparator("<", caret_upper_bound(version(1)))}
    [] text[1].op = "~" ->
         {Comparator(">=", version(1)), Comparator("<", tilde_upper_bound(version(1)))}
    [] text[1].op = "none" -> {Comparator("=", version(1))}
    [] OTHER -> {Comparator(text[i].op, version(i)) :
                   i \in {k \in DOMAIN text : text[k].op # "none"}}

Satisfied(text, candidate) ==
  \A c \in Comparators(text) : ComparatorSatisfied(c, candidate)
=============================================================================
