-------------------------------- MODULE Text --------------------------------
(***************************************************************************)
(* Strings as sequences of symbols.  A symbol stands for one character, for *)
(* one percent escape or for one {placeholder}, whichever the code that     *)
(* reads the string never takes apart.                                      *)
(***************************************************************************)
EXTENDS Integers, Sequences, FiniteSets
LOCAL INSTANCE SequencesExt

None == <<>>
Some(x) == <<x>>

\* What to do with an optional value.
Then(o, Step(_)) == IF o = None THEN None ELSE Step(o[1])
OrElse(o, x) == IF o = None THEN x ELSE o[1]

\* The least of a set of indexes, or 0.
Least(at) == IF at = {} THEN 0 ELSE CHOOSE i \in at : \A j \in at : i <= j
FirstAt(s, c) == Least({i \in DOMAIN s : s[i] = c})

Before(s, i) == SubSeq(s, 1, i - 1)
After(s, i) == SubSeq(s, i + 1, Len(s))

\* str::split_once: the text before and after the first c, or None.
CutAt(s, i) == IF i = 0 THEN None ELSE Some(<<Before(s, i), After(s, i)>>)
SplitOnce(s, c) == CutAt(s, FirstAt(s, c))

RECURSIVE Split(_, _)
Split(s, c) ==
  LET i == FirstAt(s, c) IN
  IF i = 0 THEN <<s>> ELSE <<Before(s, i)>> \o Split(After(s, i), c)

RECURSIVE Joined(_, _)
Joined(parts, sep) ==
  CASE Len(parts) = 0 -> <<>>
    [] Len(parts) = 1 -> parts[1]
    [] OTHER          -> parts[1] \o sep \o Joined(Tail(parts), sep)

OccursAt(sub, s, i) == i + Len(sub) - 1 <= Len(s) /\ SubSeq(s, i, i + Len(sub) - 1) = sub
Occurs(sub, s) == \E i \in 1..(Len(s) + 1) : OccursAt(sub, s, i)

\* str::replacen for a non-empty find; a negative n replaces every occurrence.
RECURSIVE Replaced(_, _, _, _)
Replaced(s, find, rep, n) ==
  IF n = 0 \/ Len(s) < Len(find) THEN s
  ELSE IF OccursAt(find, s, 1)
       THEN rep \o Replaced(SubSeq(s, Len(find) + 1, Len(s)), find, rep, n - 1)
       ELSE <<s[1]>> \o Replaced(Tail(s), find, rep, n)

Mapped(s, F(_)) == [i \in DOMAIN s |-> F(s[i])]
StartsWith(s, p) == IsPrefix(p, s)
EndsWith(s, p) == IsSuffix(p, s)
Flat(parts) == Joined(parts, <<>>)

\* A map entry list as the code's ordered or hashed map: key to values in order.
Keys(pairs) == {pairs[i][1] : i \in DOMAIN pairs}
Grouped(pairs) ==
  [k \in Keys(pairs) |->
     LET mine == SelectSeq(pairs, LAMBDA p : p[1] = k)
     IN  Mapped(mine, LAMBDA p : p[2])]
=============================================================================
