-------------------------- MODULE RobotNamingProofs --------------------------
(***************************************************************************)
(* The names of robots, for every alphabet, prefix, role name and suffix:  *)
(* what normalisation makes of a string, so that robotName never falls     *)
(* back to the bare suffix; and when the short name of a robot can be got  *)
(* back from the full name that Harbor gives it: always for a              *)
(* project-level robot, and for a system-level one if Harbor's robot       *)
(* prefix ends in "$" or "+", but never if it has neither.                 *)
(*                                                                         *)
(* What a recursive function computes is proved by the least counter-      *)
(* example (LeastMember, from the well-foundedness of the numbers), as the *)
(* provers cannot instantiate the induction theorems.                      *)
(***************************************************************************)
EXTENDS RobotNaming, WellFoundedInduction, SequenceTheorems, TLAPS

Separators == {"$", "+"}

\* What a sequence over S holds is in S.
LEMMA SeqElements ==
    ASSUME NEW S, NEW s \in Seq(S)
    PROVE  \A i \in DOMAIN s : s[i] \in S
OBVIOUS

\* A name Harbor takes has no separator in it.
LEMMA ValidNameHasNoSeparator ==
    ASSUME NEW short, HarborRobotName(short)
    PROVE  \A i \in DOMAIN short : short[i] \notin Separators
<1>1. short \in Seq(Alnum \union {".", "_", "-"})
  BY DEF HarborRobotName
<1>2. \A i \in DOMAIN short : short[i] \in Alnum \union {".", "_", "-"}
  BY <1>1, SeqElements
<1> QED
  BY <1>2, NamingAssumption DEF Separators

\* Max of a set of positions whose greatest member is known.
LEMMA MaxIs ==
    ASSUME NEW S \in SUBSET Int, NEW m \in S, \A x \in S : x <= m
    PROVE  Max(S) = m
<1>1. PICK x \in S : x = Max(S) /\ \A y \in S : x >= y
  BY DEF Max
<1> QED BY <1>1

\* A nonempty set of numbers has a least member.
LEMMA LeastMember ==
    ASSUME NEW T \in SUBSET Nat, T # {}
    PROVE  \E x \in T : \A y \in T : x <= y
<1> DEFINE Less == {pair \in Nat \X Nat : pair[1] < pair[2]}
<1>1. IsWellFoundedOn(Less, Nat)
  BY NatLessThanWellFounded DEF OpToRel
<1>2. \A a, b \in Nat : a < b => <<a, b>> \in Less
  OBVIOUS
<1> HIDE DEF Less
<1>3. PICK x \in T : \A y \in T : ~(<<y, x>> \in Less)
  BY <1>1, WFMin
<1>4. ASSUME NEW y \in T PROVE x <= y
  <2>1. x \in Nat /\ y \in Nat
    OBVIOUS
  <2>2. ~(y < x)
    BY <1>2, <1>3, <2>1, Zenon
  <2> QED BY <2>1, <2>2
<1> QED BY <1>4

\* A nonempty set of positions has a greatest member, and it is Max.
LEMMA GreatestMember ==
    ASSUME NEW n \in Nat, NEW S \in SUBSET (1..n), S # {}
    PROVE  Max(S) \in S /\ \A x \in S : x <= Max(S)
<1> DEFINE T == {n - x : x \in S}
<1>1. T \in SUBSET Nat
  <2> SUFFICES ASSUME NEW x \in S PROVE n - x \in Nat
    OBVIOUS
  <2>1. x \in 1..n
    OBVIOUS
  <2> QED BY <2>1
<1>2. PICK y \in S : TRUE
  OBVIOUS
<1>3. n - y \in T
  OBVIOUS
<1>4. PICK t \in T : \A x \in T : t <= x
  <2> HIDE DEF T
  <2> QED BY <1>1, <1>3, LeastMember
<1>5. PICK m \in S : t = n - m
  OBVIOUS
<1>6. ASSUME NEW x \in S PROVE x <= m
  <2>1. n - x \in T
    OBVIOUS
  <2>2. n - m <= n - x /\ m \in 1..n /\ x \in 1..n
    BY <2>1, <1>4, <1>5
  <2> QED BY <2>2
<1>7. S \in SUBSET Int
  OBVIOUS
<1>8. Max(S) = m
  BY <1>6, <1>7, MaxIs
<1> QED BY <1>6, <1>8

\* ShortName cuts nothing off behind the last separator.
LEMMA ShortNameKeepsTail ==
    ASSUME NEW C, NEW front \in Seq(C), NEW tail \in Seq(C),
           \A i \in 1..Len(tail) : tail[i] \notin Separators
    PROVE  Len(ShortName(front \o tail)) >= Len(tail)
<1> DEFINE full == front \o tail
           I == {i \in 1..Len(full) : full[i] \in {"$", "+"}}
           k == SelectLastInSeq(full, LAMBDA c : c \in {"$", "+"})
<1>1. /\ full \in Seq(C)
      /\ Len(full) = Len(front) + Len(tail)
      /\ Len(front) \in Nat /\ Len(tail) \in Nat
  OBVIOUS
<1>2. ASSUME NEW i \in I PROVE i <= Len(front)
  <2>1. CASE i > Len(front)
    <3>1. i - Len(front) \in 1..Len(tail)
      BY <1>1, <2>1
    <3>2. full[i] = tail[i - Len(front)]
      BY <1>1, <2>1
    <3> QED BY <3>1, <3>2 DEF Separators
  <2> QED BY <2>1, <1>1
<1>3. k \in 0..Len(front)
  <2>1. CASE I = {}
    BY <2>1, <1>1 DEF SelectLastInSeq
  <2>2. CASE I # {}
    <3>1. k = Max(I)
      BY <2>2 DEF SelectLastInSeq
    <3>2. I \in SUBSET (1..Len(full)) /\ Len(full) \in Nat
      BY <1>1
    <3>3. Max(I) \in I
      <4> HIDE DEF I
      <4> QED BY <2>2, <3>2, GreatestMember
    <3>4. Max(I) \in 1..Len(full)
      BY <3>3
    <3>5. Max(I) <= Len(front)
      BY <1>2, <3>3
    <3> QED
      <4> HIDE DEF I, k
      <4> QED BY <3>1, <3>4, <3>5, <1>1
  <2> QED BY <2>1, <2>2
<1>4. ShortName(full) = SubSeq(full, k + 1, Len(full))
  BY DEF ShortName
<1> HIDE DEF k
<1>5. Len(SubSeq(full, k + 1, Len(full))) = Len(full) - k
  BY <1>1, <1>3
<1> QED BY <1>1, <1>3, <1>4, <1>5

\* ShortName cuts behind the last separator.
LEMMA CutBehindSeparator ==
    ASSUME NEW Char, NEW front \in Seq(Char), NEW short \in Seq(Char),
           front # <<>>, front[Len(front)] \in Separators,
           \A i \in 1..Len(short) : short[i] \notin Separators
    PROVE  ShortName(front \o short) = short
<1> DEFINE full == front \o short
           I == {i \in 1..Len(full) : full[i] \in {"$", "+"}}
<1>1. /\ full \in Seq(Char)
      /\ Len(full) = Len(front) + Len(short)
      /\ Len(front) \in Nat \ {0} /\ Len(short) \in Nat
  OBVIOUS
<1>2. \A i \in 1..Len(short) : full[Len(front) + i] = short[i]
  OBVIOUS
<1>3. full[Len(front)] = front[Len(front)]
  OBVIOUS
<1>4. Len(front) \in I
  BY <1>1, <1>3 DEF Separators
<1>5. ASSUME NEW i \in I PROVE i <= Len(front)
  <2>1. CASE i > Len(front)
    <3>1. i - Len(front) \in 1..Len(short) /\ i = Len(front) + (i - Len(front))
      BY <1>1, <2>1
    <3>2. full[i] = short[i - Len(front)]
      BY <3>1, <1>2
    <3> QED BY <3>1, <3>2 DEF Separators
  <2> QED BY <2>1, <1>1
<1>6. Max(I) = Len(front)
  <2>1. I \in SUBSET Int
    BY <1>1
  <2>2. \A x \in I : x <= Len(front)
    BY <1>5
  <2> HIDE DEF I
  <2> QED BY <2>1, <2>2, <1>4, MaxIs
<1>7. SelectLastInSeq(full, LAMBDA c : c \in {"$", "+"}) = Len(front)
  BY <1>4, <1>6 DEF SelectLastInSeq
<1>8. SubSeq(full, Len(front) + 1, Len(full)) = short
  BY <1>1, <1>2
<1> QED BY <1>7, <1>8 DEF ShortName

\* The rollback and the revocation get the short name back from the name that
\* Harbor lists (shortName, client.go): for every project-level robot, and for
\* a system-level one if Harbor's robot prefix ends in "$" or "+" (NameComesBack
\* in RobotAccess).
THEOREM ShortNameBack ==
    ASSUME NEW Char, {"$", "+"} \subseteq Char,
           NEW harborPrefix \in Seq(Char), NEW level \in {"system", "project"},
           NEW project \in Char, NEW short \in Seq(Char), HarborRobotName(short),
           \/ level = "project"
           \/ harborPrefix # <<>> /\ harborPrefix[Len(harborPrefix)] \in Separators
    PROVE  ShortName(FullName(harborPrefix, level, project, short)) = short
<1>1. \A i \in 1..Len(short) : short[i] \notin Separators
  BY ValidNameHasNoSeparator
<1>2. CASE level = "project"
  <2> DEFINE front == harborPrefix \o <<project, "+">>
  <2>1. <<project, "+">> \in Seq(Char)
    OBVIOUS
  <2>2. /\ front \in Seq(Char)
        /\ front # <<>>
        /\ front[Len(front)] \in Separators
    BY <2>1 DEF Separators
  <2>3. FullName(harborPrefix, level, project, short) = front \o short
    BY <1>2 DEF FullName
  <2> HIDE DEF front
  <2> QED BY <1>1, <2>2, <2>3, CutBehindSeparator
<1>3. CASE level = "system"
  <2>1. FullName(harborPrefix, level, project, short) = harborPrefix \o short
    BY <1>3 DEF FullName
  <2> QED BY <1>1, <1>3, <2>1, CutBehindSeparator
<1> QED BY <1>2, <1>3

\* Where Harbor's robot prefix, which is configurable, has no separator, the
\* short name of a system-level robot is never what the engine asked for:
\* FindRobotByShortName (client.go) cannot find it, and the rollback gives up.
THEOREM ShortNameLost ==
    ASSUME NEW Char, NEW harborPrefix \in Seq(Char), NEW project,
           harborPrefix # <<>>, \A i \in DOMAIN harborPrefix : harborPrefix[i] \notin Separators,
           NEW short \in Seq(Char), HarborRobotName(short)
    PROVE  ShortName(FullName(harborPrefix, "system", project, short)) # short
<1> DEFINE full == harborPrefix \o short
           I == {i \in 1..Len(full) : full[i] \in {"$", "+"}}
<1>1. \A i \in 1..Len(short) : short[i] \notin Separators
  BY ValidNameHasNoSeparator
<1>2. full \in Seq(Char) /\ Len(full) = Len(harborPrefix) + Len(short)
  OBVIOUS
<1>3. ASSUME NEW i \in 1..Len(full) PROVE full[i] \notin Separators
  <2>1. CASE i <= Len(harborPrefix)
    <3>1. full[i] = harborPrefix[i] /\ i \in DOMAIN harborPrefix
      BY <2>1
    <3> QED BY <3>1
  <2>2. CASE i > Len(harborPrefix)
    <3>1. i - Len(harborPrefix) \in 1..Len(short)
      BY <1>2, <2>2
    <3>2. full[i] = short[i - Len(harborPrefix)]
      BY <1>2, <2>2
    <3> QED BY <1>1, <3>1, <3>2
  <2> QED BY <2>1, <2>2, <1>2
<1>4. I = {}
  BY <1>3 DEF Separators
<1>5. SelectLastInSeq(full, LAMBDA c : c \in {"$", "+"}) = 0
  BY <1>4 DEF SelectLastInSeq
<1>6. ShortName(full) = SubSeq(full, 1, Len(full))
  BY <1>5 DEF ShortName
<1>7. SubSeq(full, 1, Len(full)) = full
  BY <1>2
<1>8. Len(full) # Len(short)
  BY <1>2
<1>9. FullName(harborPrefix, "system", project, short) = full
  BY DEF FullName
<1> QED BY <1>6, <1>7, <1>8, <1>9

-----------------------------------------------------------------------------
(* Normalisation                                                           *)

\* Letters, digits and single dashes.
Clean ==
    {t \in Seq(Alnum \union {"-"}) :
        \A i \in 1..Len(t) : i > 1 /\ t[i] = "-" => t[i - 1] \in Alnum}

\* Dashes only inside.
Trimmed(t) == t # <<>> => t[1] \in Alnum /\ t[Len(t)] \in Alnum

\* What membership in Clean says.
LEMMA CleanProperties ==
    ASSUME NEW t \in Clean
    PROVE  /\ t \in Seq(Alnum \union {"-"}) /\ Len(t) \in Nat
           /\ t # <<>> => Len(t) > 0
           /\ \A i \in 1..Len(t) : t[i] \in Alnum \union {"-"}
           /\ \A i \in 1..Len(t) : i > 1 /\ t[i] = "-" => t[i - 1] \in Alnum
BY DEF Clean

\* One more character leaves no two dashes side by side.
LEMMA CollapsedClean ==
    ASSUME NEW t \in Clean, NEW c
    PROVE  Collapsed(t, c) \in Clean
<1> DEFINE n == Len(t)
<1>1. n \in Nat /\ t \in Seq(Alnum \union {"-"})
  BY CleanProperties
<1>2. CASE c \in Alnum
  <2>1. Append(t, c) \in Seq(Alnum \union {"-"}) /\ Len(Append(t, c)) = n + 1
    BY <1>1, <1>2
  <2>2. \A i \in 1..n : Append(t, c)[i] = t[i]
    BY <1>1, <1>2
  <2>3. Append(t, c)[n + 1] = c
    BY <1>1, <1>2
  <2>4. c # "-"
    BY <1>2, NamingAssumption
  <2>5. ASSUME NEW i \in 1..(n + 1), i > 1, Append(t, c)[i] = "-"
        PROVE  Append(t, c)[i - 1] \in Alnum
    <3>1. i \in 1..n /\ i - 1 \in 1..n
      BY <1>1, <2>3, <2>4, <2>5
    <3> QED BY <2>2, <2>5, <3>1, CleanProperties
  <2> QED BY <1>2, <2>1, <2>5 DEF Collapsed, Clean
<1>3. CASE c \notin Alnum /\ EndsInDash(t)
  BY <1>3 DEF Collapsed
<1>4. CASE c \notin Alnum /\ ~EndsInDash(t)
  <2>1. Append(t, "-") \in Seq(Alnum \union {"-"}) /\ Len(Append(t, "-")) = n + 1
    BY <1>1
  <2>2. \A i \in 1..n : Append(t, "-")[i] = t[i]
    BY <1>1
  <2>3. n > 0 => t[n] \in Alnum
    BY <1>1, <1>4, CleanProperties DEF EndsInDash, Last
  <2>4. ASSUME NEW i \in 1..(n + 1), i > 1, Append(t, "-")[i] = "-"
        PROVE  Append(t, "-")[i - 1] \in Alnum
    <3>1. i - 1 \in 1..n /\ Append(t, "-")[i - 1] = t[i - 1]
      BY <1>1, <2>2, <2>4
    <3>2. CASE i = n + 1
      BY <1>1, <2>3, <3>1, <3>2
    <3>3. CASE i \in 1..n
      BY <2>2, <2>4, <3>1, <3>3, CleanProperties
    <3>4. i = n + 1 \/ i \in 1..n
      BY <1>1
    <3> QED BY <3>2, <3>3, <3>4
  <2> QED BY <1>4, <2>1, <2>4 DEF Collapsed, Clean
<1> QED BY <1>2, <1>3, <1>4

\* Whatever its input, Collapse leaves letters, digits and single dashes: by
\* the least counterexample twice, first for the length up to which the
\* recursive function exists, then for the one up to which its values are so.
LEMMA CollapseIsClean ==
    ASSUME NEW s, Len(s) \in Nat
    PROVE  Collapse(s) \in Clean
<1> DEFINE n == Len(s)
           Follows(g, i) == IF i = 0 THEN <<>> ELSE Collapsed(g[i - 1], s[i])
           Solves(g, k) == \A i \in 0..k : g[i] = Follows(g, i)
           upTo == CHOOSE f : f = [i \in 0..n |-> IF i = 0 THEN <<>> ELSE Collapsed(f[i - 1], s[i])]
<1>1. n \in Nat
  OBVIOUS
<1>2. \A k \in 0..n : \E g \in [0..k -> Clean] : Solves(g, k)
  <2> DEFINE Bad == {k \in 0..n : ~\E g \in [0..k -> Clean] : Solves(g, k)}
  <2> SUFFICES ASSUME Bad # {} PROVE FALSE
    OBVIOUS
  <2>1. Bad \in SUBSET Nat
    BY <1>1
  <2>2. PICK m \in Bad : \A k \in Bad : m <= k
    <3> HIDE DEF Bad
    <3> QED BY <2>1, LeastMember
  <2>3. m \in 0..n
    OBVIOUS
  <2>4. <<>> \in Clean
    BY DEF Clean
  <2>5. CASE m = 0
    <3> DEFINE g == [i \in 0..0 |-> <<>>]
    <3>1. g \in [0..m -> Clean] /\ Solves(g, m)
      BY <2>4, <2>5
    <3> QED BY <3>1
  <2>6. CASE m > 0
    <3>1. m - 1 \in 0..n /\ m - 1 \notin Bad
      <4> HIDE DEF Bad
      <4> QED BY <2>2, <2>3, <2>6, <1>1
    <3>2. PICK g \in [0..(m - 1) -> Clean] : Solves(g, m - 1)
      BY <3>1
    <3> DEFINE h == [i \in 0..m |-> IF i = m THEN Collapsed(g[m - 1], s[m]) ELSE g[i]]
    <3>3. g[m - 1] \in Clean
      BY <2>3, <2>6
    <3>4. \A i \in 0..m : i # m => i \in 0..(m - 1) /\ g[i] \in Clean
      BY <2>3, <2>6
    <3>5. h \in [0..m -> Clean]
      BY <3>3, <3>4, CollapsedClean
    <3>6. ASSUME NEW i \in 0..m PROVE h[i] = Follows(h, i)
      <4>1. CASE i = m
        <5>1. h[m] = Collapsed(g[m - 1], s[m]) /\ h[m - 1] = g[m - 1]
          BY <2>3, <2>6
        <5> QED BY <4>1, <5>1, <2>6
      <4>2. CASE i # m
        <5>1. i \in 0..(m - 1) /\ h[i] = g[i]
          BY <2>3, <4>2
        <5>2. i # 0 => h[i - 1] = g[i - 1]
          BY <2>3, <5>1
        <5>3. g[i] = Follows(g, i)
          BY <3>2, <5>1
        <5> QED BY <5>1, <5>2, <5>3
      <4> QED BY <4>1, <4>2
    <3> QED BY <3>5, <3>6
  <2> QED BY <2>3, <2>5, <2>6
<1>3. PICK g \in [0..n -> Clean] : Solves(g, n)
  BY <1>1, <1>2
<1>4. g = [i \in 0..n |-> IF i = 0 THEN <<>> ELSE Collapsed(g[i - 1], s[i])]
  BY <1>3
<1>5. upTo = [i \in 0..n |-> IF i = 0 THEN <<>> ELSE Collapsed(upTo[i - 1], s[i])]
  BY <1>4
<1> HIDE DEF upTo
<1>6. \A i \in 0..n : upTo[i] = IF i = 0 THEN <<>> ELSE Collapsed(upTo[i - 1], s[i])
  BY <1>5
<1>7. \A k \in 0..n : upTo[k] \in Clean
  <2> DEFINE Bad == {k \in 0..n : upTo[k] \notin Clean}
  <2> SUFFICES ASSUME Bad # {} PROVE FALSE
    OBVIOUS
  <2>1. Bad \in SUBSET Nat
    BY <1>1
  <2>2. PICK m \in Bad : \A k \in Bad : m <= k
    <3> HIDE DEF Bad
    <3> QED BY <2>1, LeastMember
  <2>3. m \in 0..n /\ upTo[m] \notin Clean
    OBVIOUS
  <2>4. m # 0
    <3>1. <<>> \in Clean
      BY DEF Clean
    <3>2. upTo[0] = <<>>
      BY <1>1, <1>6
    <3> QED BY <2>3, <3>1, <3>2
  <2>5. m - 1 \in 0..n /\ m - 1 \notin Bad
    <3> HIDE DEF Bad
    <3> QED BY <1>1, <2>2, <2>3, <2>4
  <2>6. upTo[m - 1] \in Clean
    BY <2>5
  <2> QED BY <1>6, <2>3, <2>4, <2>6, CollapsedClean
<1>8. Collapse(s) = upTo[n]
  BY DEF Collapse, upTo
<1> QED BY <1>1, <1>7, <1>8

\* Min of a set of positions is one of them, and none is below it.
LEMMA LeastPosition ==
    ASSUME NEW n \in Nat, NEW S \in SUBSET (1..n), S # {}
    PROVE  Min(S) \in S /\ \A x \in S : Min(S) <= x
<1>1. S \in SUBSET Nat
  OBVIOUS
<1>2. PICK m \in S : \A x \in S : m <= x
  BY <1>1, LeastMember
<1> QED BY <1>2 DEF Min

\* A stretch of a clean sequence is clean.
LEMMA SubSeqClean ==
    ASSUME NEW t \in Clean, NEW lo \in Nat, NEW hi \in Nat, 1 <= lo, hi <= Len(t)
    PROVE  /\ SubSeq(t, lo, hi) \in Clean
           /\ lo <= hi => /\ Len(SubSeq(t, lo, hi)) = hi - lo + 1
                          /\ SubSeq(t, lo, hi)[1] = t[lo]
                          /\ SubSeq(t, lo, hi)[hi - lo + 1] = t[hi]
<1> DEFINE r == SubSeq(t, lo, hi)
<1>1. Len(t) \in Nat /\ \A i \in 1..Len(t) : t[i] \in Alnum \union {"-"}
  BY CleanProperties
<1>2. CASE hi < lo
  <2>1. r = <<>>
    BY <1>2, SubSeqEmpty
  <2> QED BY <1>2, <2>1 DEF Clean
<1>3. CASE lo <= hi
  <2>1. \A i \in lo..hi : t[i] \in Alnum \union {"-"}
    BY <1>1
  <2>2. /\ r \in Seq(Alnum \union {"-"})
        /\ Len(r) = hi - lo + 1
        /\ \A i \in 1..(hi - lo + 1) : r[i] = t[lo + i - 1]
    BY <1>3, <2>1, SubSeqProperties
  <2> HIDE DEF r
  <2>3. ASSUME NEW i \in 1..Len(r), i > 1, r[i] = "-" PROVE r[i - 1] \in Alnum
    <3>1. i \in 1..(hi - lo + 1) /\ i - 1 \in 1..(hi - lo + 1)
      BY <2>2, <2>3
    <3>2. r[i] = t[lo + i - 1] /\ r[i - 1] = t[lo + (i - 1) - 1]
      BY <2>2, <3>1
    <3>3. /\ lo + i - 1 \in 1..Len(t) /\ lo + i - 1 > 1
          /\ lo + (i - 1) - 1 = (lo + i - 1) - 1
      BY <1>1, <2>3, <3>1
    <3> QED BY <2>3, <3>2, <3>3, CleanProperties
  <2>4. r \in Clean
    BY <2>2, <2>3 DEF Clean
  <2>5. 1 \in 1..(hi - lo + 1) /\ hi - lo + 1 \in 1..(hi - lo + 1)
    BY <1>3
  <2>6. r[1] = t[lo] /\ r[hi - lo + 1] = t[hi]
    <3>1. lo + 1 - 1 = lo /\ lo + (hi - lo + 1) - 1 = hi
      OBVIOUS
    <3> QED BY <2>2, <2>5, <3>1
  <2> QED BY <2>2, <2>4, <2>6 DEF r
<1> QED BY <1>2, <1>3

\* Trimmed as strings.Trim does it, it has dashes inside only.
LEMMA TrimIsTrimmed ==
    ASSUME NEW t \in Clean
    PROVE  TrimDashes(t) \in Clean /\ Trimmed(TrimDashes(t)) /\ Len(TrimDashes(t)) <= Len(t)
<1> DEFINE kept == {i \in DOMAIN t : t[i] # "-"}
<1>1. Len(t) \in Nat /\ DOMAIN t = 1..Len(t) /\ \A i \in 1..Len(t) : t[i] \in Alnum \union {"-"}
  BY CleanProperties, LenProperties
<1>2. CASE kept = {}
  <2>1. TrimDashes(t) = <<>>
    BY <1>2 DEF TrimDashes
  <2> QED BY <1>1, <2>1 DEF Clean, Trimmed
<1>3. CASE kept # {}
  <2> DEFINE lo == Min(kept)
             hi == Max(kept)
  <2>1. kept \in SUBSET (1..Len(t))
    BY <1>1
  <2>2. lo \in kept /\ hi \in kept /\ lo <= hi
    <3> HIDE DEF kept
    <3> QED BY <1>1, <1>3, <2>1, LeastPosition, GreatestMember
  <2>3. /\ lo \in 1..Len(t) /\ t[lo] \in Alnum
        /\ hi \in 1..Len(t) /\ t[hi] \in Alnum
    BY <1>1, <2>2
  <2>4. TrimDashes(t) = SubSeq(t, lo, hi)
    BY <1>3 DEF TrimDashes
  <2> HIDE DEF lo, hi
  <2>5. /\ lo \in Nat /\ hi \in Nat /\ 1 <= lo /\ hi <= Len(t)
        /\ hi - lo + 1 <= Len(t)
    BY <1>1, <2>2, <2>3
  <2> QED BY <2>2, <2>3, <2>4, <2>5, SubSeqClean DEF Trimmed
<1> QED BY <1>2, <1>3

\* normalizeSegment, for every string, however long and whatever it holds.
LEMMA SegmentIsClean ==
    ASSUME NEW S, NEW s \in Seq(S)
    PROVE  /\ normalizeSegment(s) \in Clean
           /\ Trimmed(normalizeSegment(s))
           /\ Len(normalizeSegment(s)) <= MaxSegment
<1>1. Len(ToLower(s)) = Len(s) /\ Len(s) \in Nat
  <2>1. Len(s) \in Nat /\ DOMAIN s = 1..Len(s)
    BY LenProperties
  <2>2. DOMAIN ToLower(s) = 1..Len(s)
    BY <2>1 DEF ToLower
  <2>3. ToLower(s) = [i \in 1..Len(s) |-> IF s[i] \in DOMAIN lowerOf THEN lowerOf[s[i]] ELSE s[i]]
    BY <2>1 DEF ToLower
  <2> QED BY <2>1, <2>2, <2>3
<1>2. Collapse(ToLower(s)) \in Clean
  BY <1>1, CollapseIsClean
<1> DEFINE t == TrimDashes(Collapse(ToLower(s)))
<1>3. t \in Clean /\ Trimmed(t)
  BY <1>2, TrimIsTrimmed
<1>4. normalizeSegment(s) = IF Len(t) > MaxSegment THEN TrimDashes(SubSeq(t, 1, MaxSegment)) ELSE t
  BY DEF normalizeSegment, Cut
<1> HIDE DEF t
<1>5. MaxSegment \in Nat /\ MaxSegment >= 1 /\ Len(t) \in Nat
  <2>1. Len(t) \in Nat
    BY <1>3, CleanProperties
  <2>2. MaxSegment \in Nat \ {0}
    BY NamingAssumption
  <2> QED BY <2>1, <2>2
<1>6. CASE Len(t) > MaxSegment
  <2>1. SubSeq(t, 1, MaxSegment) \in Clean /\ Len(SubSeq(t, 1, MaxSegment)) = MaxSegment
    BY <1>3, <1>5, <1>6, SubSeqClean
  <2>2. normalizeSegment(s) = TrimDashes(SubSeq(t, 1, MaxSegment))
    BY <1>4, <1>6
  <2> QED BY <2>1, <2>2, TrimIsTrimmed
<1>7. CASE ~(Len(t) > MaxSegment)
  BY <1>3, <1>4, <1>5, <1>7
<1> QED BY <1>6, <1>7

\* A segment in front of a name makes a name.
LEMMA JoinIsName ==
    ASSUME NEW a \in Clean, Trimmed(a), NEW b \in Clean, Trimmed(b), b # <<>>
    PROVE  Segment(a) \o b \in Clean /\ Trimmed(Segment(a) \o b) /\ Segment(a) \o b # <<>>
<1>1. CASE a = <<>>
  BY <1>1, CleanProperties DEF Segment
<1>2. CASE a # <<>>
  <2> DEFINE la == Len(a)
             lb == Len(b)
             r == (a \o <<"-">>) \o b
  <2>1. la \in Nat /\ la > 0 /\ lb \in Nat /\ lb > 0
    BY <1>2, CleanProperties
  <2>2. /\ a \in Seq(Alnum \union {"-"}) /\ b \in Seq(Alnum \union {"-"})
        /\ <<"-">> \in Seq(Alnum \union {"-"})
    BY CleanProperties
  <2>3. /\ a \o <<"-">> \in Seq(Alnum \union {"-"})
        /\ Len(a \o <<"-">>) = la + 1
        /\ \A i \in 1..la : (a \o <<"-">>)[i] = a[i]
        /\ (a \o <<"-">>)[la + 1] = "-"
    BY <2>1, <2>2
  <2>4. /\ r \in Seq(Alnum \union {"-"})
        /\ Len(r) = la + 1 + lb
        /\ \A i \in 1..(la + 1) : r[i] = (a \o <<"-">>)[i]
        /\ \A i \in 1..lb : r[la + 1 + i] = b[i]
    <3> DEFINE d == a \o <<"-">>
    <3>1. d \in Seq(Alnum \union {"-"}) /\ Len(d) = la + 1
      BY <2>3
    <3> HIDE DEF d
    <3>2. /\ d \o b \in Seq(Alnum \union {"-"})
          /\ Len(d \o b) = Len(d) + lb
          /\ \A i \in 1..Len(d) : (d \o b)[i] = d[i]
          /\ \A i \in 1..lb : (d \o b)[Len(d) + i] = b[i]
      BY <2>1, <2>2, <3>1
    <3>3. d = a \o <<"-">>
      BY DEF d
    <3> QED BY <3>1, <3>2, <3>3
  <2>5. /\ \A i \in 1..la : r[i] = a[i]
        /\ r[la + 1] = "-"
        /\ \A i \in 1..lb : r[la + 1 + i] = b[i]
    BY <2>1, <2>3, <2>4
  <2>6. /\ \A i \in 1..la : i > 1 /\ a[i] = "-" => a[i - 1] \in Alnum
        /\ \A i \in 1..lb : i > 1 /\ b[i] = "-" => b[i - 1] \in Alnum
        /\ a[1] \in Alnum /\ a[la] \in Alnum /\ b[1] \in Alnum /\ b[lb] \in Alnum
        /\ "-" \notin Alnum
    BY <1>2, CleanProperties, NamingAssumption DEF Trimmed
  <2> HIDE DEF r, la, lb
  <2>7. ASSUME NEW i \in 1..Len(r), i > 1, r[i] = "-" PROVE r[i - 1] \in Alnum
    <3>1. CASE i \in 1..la
      <4>1. i - 1 \in 1..la
        BY <2>1, <2>7, <3>1
      <4> QED BY <2>5, <2>6, <2>7, <3>1, <4>1
    <3>2. CASE i = la + 1
      <4>1. i - 1 = la /\ la \in 1..la
        BY <2>1, <3>2
      <4> QED BY <2>5, <2>6, <4>1
    <3>3. CASE i > la + 1
      <4> DEFINE j == i - (la + 1)
      <4>1. j \in 1..lb /\ i = la + 1 + j
        BY <2>1, <2>4, <3>3
      <4>2. b[j] = "-"
        BY <2>5, <2>7, <4>1
      <4>3. j > 1
        BY <2>6, <4>1, <4>2
      <4>4. j - 1 \in 1..lb /\ i - 1 = la + 1 + (j - 1)
        BY <2>1, <4>1, <4>3
      <4>5. r[i - 1] = b[j - 1]
        BY <2>5, <4>4
      <4> HIDE DEF j
      <4> QED BY <2>6, <4>1, <4>2, <4>3, <4>5
    <3>4. i \in 1..la \/ i = la + 1 \/ i > la + 1
      BY <2>1, <2>4
    <3> QED BY <3>1, <3>2, <3>3, <3>4
  <2>8. r \in Clean
    BY <2>4, <2>7 DEF Clean
  <2>9. r # <<>> /\ r[1] \in Alnum /\ r[Len(r)] \in Alnum
    <3>1. 1 \in 1..la /\ lb \in 1..lb /\ Len(r) = la + 1 + lb /\ Len(r) > 0
      BY <2>1, <2>4
    <3> QED BY <2>4, <2>5, <2>6, <3>1
  <2>10. Segment(a) \o b = r
    BY <1>2 DEF Segment, r
  <2> QED BY <2>8, <2>9, <2>10 DEF Trimmed
<1> QED BY <1>1, <1>2

\* What robotName joins, Harbor takes: "Should be unreachable given
\* normalization; guard anyway" (naming.go) is right, for every prefix, every
\* name of a role and every suffix of letters and digits.
THEOREM JoinedNameIsValid ==
    ASSUME NEW S, NEW prefix \in Seq(S), NEW roleName \in Seq(S),
           NEW suffix \in Seq(Alnum), suffix # <<>>
    PROVE  HarborRobotName(JoinedName(prefix, roleName, suffix))
<1> DEFINE a == normalizeSegment(prefix)
           b == normalizeSegment(roleName)
<1>1. a \in Clean /\ Trimmed(a) /\ b \in Clean /\ Trimmed(b)
  BY SegmentIsClean
<1>2. suffix \in Clean /\ Trimmed(suffix)
  <2>1. Len(suffix) \in Nat \ {0} /\ \A i \in 1..Len(suffix) : suffix[i] \in Alnum
    OBVIOUS
  <2>2. suffix \in Seq(Alnum \union {"-"})
    BY SeqMonotonic
  <2>3. 1 \in 1..Len(suffix) /\ Len(suffix) \in 1..Len(suffix)
    BY <2>1
  <2>4. ASSUME NEW i \in 1..Len(suffix), i > 1, suffix[i] = "-" PROVE suffix[i - 1] \in Alnum
    BY <2>1, <2>4, NamingAssumption
  <2> QED BY <2>1, <2>2, <2>3, <2>4 DEF Clean, Trimmed
<1>3. JoinedName(prefix, roleName, suffix) = (Segment(a) \o Segment(b)) \o suffix
  BY DEF JoinedName
<1> HIDE DEF a, b
<1>4. /\ Segment(a) \in Seq(Alnum \union {"-"})
      /\ Segment(b) \in Seq(Alnum \union {"-"})
      /\ suffix \in Seq(Alnum \union {"-"})
  <2>1. \A x \in Seq(Alnum \union {"-"}) : Segment(x) \in Seq(Alnum \union {"-"})
    <3>1. ASSUME NEW x \in Seq(Alnum \union {"-"})
          PROVE  Segment(x) \in Seq(Alnum \union {"-"})
      <4>1. <<"-">> \in Seq(Alnum \union {"-"})
        OBVIOUS
      <4>2. x \o <<"-">> \in Seq(Alnum \union {"-"})
        BY <4>1, ConcatProperties
      <4> QED BY <4>2 DEF Segment
    <3> QED BY <3>1
  <2> QED BY <1>1, <1>2, <2>1, CleanProperties
<1>5. (Segment(a) \o Segment(b)) \o suffix = Segment(a) \o (Segment(b) \o suffix)
  <2> DEFINE L == Alnum \union {"-"}
  <2> HIDE DEF L
  <2>1. \A x, y, z \in Seq(L) : (x \o y) \o z = x \o (y \o z)
    BY ConcatAssociative
  <2>2. Segment(a) \in Seq(L) /\ Segment(b) \in Seq(L) /\ suffix \in Seq(L)
    BY <1>4 DEF L
  <2> QED BY <2>1, <2>2, Zenon
<1> DEFINE name == Segment(a) \o (Segment(b) \o suffix)
<1>6. /\ Segment(b) \o suffix \in Clean
      /\ Trimmed(Segment(b) \o suffix) /\ Segment(b) \o suffix # <<>>
  BY <1>1, <1>2, JoinIsName
<1>7. name \in Clean /\ Trimmed(name) /\ name # <<>>
  BY <1>1, <1>6, JoinIsName
<1>8. JoinedName(prefix, roleName, suffix) = name
  BY <1>3, <1>5
<1> HIDE DEF name
<1>9. HarborRobotName(name)
  <2>1. /\ name \in Seq(Alnum \union {"-"})
        /\ Len(name) \in Nat /\ Len(name) > 0 /\ DOMAIN name = 1..Len(name)
    BY <1>7, CleanProperties, LenProperties
  <2>2. name \in Seq(Alnum \union {".", "_", "-"})
    BY <2>1, SeqMonotonic
  <2>3. ASSUME NEW i \in 1..Len(name), name[i] \notin Alnum
        PROVE  i \in 2..(Len(name) - 1) /\ name[i - 1] \in Alnum
    <3>1. name[i] = "-"
      BY <1>7, <2>3, CleanProperties
    <3>2. i # 1 /\ i # Len(name)
      BY <1>7, <2>3 DEF Trimmed
    <3>3. i \in 2..(Len(name) - 1) /\ i > 1
      <4> DEFINE n == Len(name)
      <4>1. n \in Nat /\ i \in 1..n /\ i # n
        BY <2>1, <3>2
      <4> HIDE DEF n
      <4>2. i \in 2..(n - 1) /\ i > 1
        BY <3>2, <4>1
      <4> QED BY <4>2 DEF n
    <3> QED BY <1>7, <3>1, <3>3, CleanProperties
  <2> QED BY <1>7, <2>1, <2>2, <2>3 DEF HarborRobotName
<1> QED BY <1>8, <1>9

=============================================================================
