----------------------------- MODULE MCSubmission -----------------------------
(* Documents for TLC: every field of a plain document varied on its own. *)
EXTENDS Submission

CONSTANTS a, b, missing, Jobs

Numeric(n, text) == [numeric |-> TRUE, int |-> n, text |-> text]
Alpha(text) == [numeric |-> FALSE, int |-> 0, text |-> text]
Prerelease(v, ids) == [v EXCEPT !.prerelease = ids]

\* "10" < "2" < "alpha" as strings
Ten == Numeric(10, 1)
Two == Numeric(2, 2)
alpha == Alpha(3)

MCVersions ==
  {Release(0, 0, 1), Release(0, 1, 1), Release(1, 0, 0), Release(1, 1, 0),
   [Release(1, 0, 0) EXCEPT !.build = 1],
   Prerelease(Release(1, 1, 0), <<Two>>), Prerelease(Release(1, 1, 0), <<Ten>>),
   Prerelease(Release(1, 1, 0), <<alpha, Two>>),
   Prerelease(Release(2, 0, 0), <<alpha>>)}

Bases ==
  {Release(0, 0, 1), Release(0, 1, 0), Release(1, 0, 0),
   Prerelease(Release(1, 1, 0), <<Ten>>), Prerelease(Release(1, 1, 0), <<alpha>>)}

Ops == RangeOps \cup {"none", "=", "^", "~"}

Word(op, kind, version) == [op |-> op, kind |-> kind, version |-> version]
Operators == {Word(op, "none", Release(0, 0, 0)) : op \in Ops \ {"none"}}
Strict == {Word(op, "strict", v) : op \in Ops, v \in Bases}
Others == {Word(op, kind, Release(1, 0, 0)) : op \in Ops, kind \in {"loose", "bad"}}
MCWords == Operators \cup Strict \cup Others

\* ">= v < w" and ">= v <w" for all v and w
Ranges ==
  {<<Word(">=", "none", Release(0, 0, 0)), Word("none", "strict", v),
     Word("<", "none", Release(0, 0, 0)), Word("none", "strict", w)>> : v, w \in Bases}
  \cup
  {<<Word(">=", "none", Release(0, 0, 0)), Word("none", "strict", v),
     Word("<", "strict", w)>> : v, w \in Bases}

\* Two words: after a comparator that is complete, another with one of two bounds.
Bounds == {Release(1, 0, 0), Prerelease(Release(1, 1, 0), <<Ten>>)}
TwoWords ==
  {t \in MCWords \X MCWords :
     t[1] \in Strict /\ t[2] \in Strict => t[2].version \in Bounds}

Texts == {<<>>} \cup {<<w>> : w \in MCWords} \cup TwoWords \cup Ranges

Number(micro) == [kind |-> "number", micro |-> micro]
Cpus == {Number(500000), Number(0), Number(5), [kind |-> "nan", micro |-> 0],
         [kind |-> "inf", micro |-> 0], [kind |-> "text", micro |-> 0]}

Memory(tenths, unit) ==
  [kind |-> "number", tenths |-> tenths, fraction |-> tenths % 10 # 0, unit |-> unit]
Memories ==
  {Memory(n, unit) : n \in {0, 5, 10, 15}, unit \in {1, 1000, 1024}}
  \cup {[Memory(10, 1) EXCEPT !.kind = "text"]}

Artifacts ==
  [name : {1, 2},
   path : {"plain", "dotted", "unwritten", "unmentioned", "absolute", "parent"}]

Plain ==
  [malformed |-> "nothing",
   constraint |-> <<Word("^", "strict", Release(1, 0, 0))>>,
   needs |-> [j \in Jobs |-> {}],
   cpu |-> Number(500000), memory |-> Memory(10, 1024), artifacts |-> <<>>]

MCDocuments ==
  {[Plain EXCEPT !.malformed = part] :
     part \in {"pipeline", "dependency", "job", "step", "artifact"}}
  \cup {[Plain EXCEPT !.constraint = t] : t \in Texts}
  \cup {[Plain EXCEPT !.needs = n] : n \in [Jobs -> SUBSET (Jobs \cup {missing})]}
  \cup {[Plain EXCEPT !.cpu = c, !.memory = m] : c \in Cpus, m \in Memories}
  \cup {[Plain EXCEPT !.artifacts = s] :
          s \in {<<x>> : x \in Artifacts} \cup (Artifacts \X Artifacts)}
=============================================================================
