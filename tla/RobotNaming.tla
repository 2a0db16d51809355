----------------------------- MODULE RobotNaming -----------------------------
(***************************************************************************)
(* How the engine names a robot, and how it gets the short name back from  *)
(* the one Harbor made of it.  internal/backend/naming.go,                 *)
(* internal/harbor/client.go.  A string is a sequence of characters; what  *)
(* tells them apart is whether they are in [a-z0-9], have a lower-case     *)
(* letter, or are one of the separators written out here.                  *)
(***************************************************************************)
EXTENDS Naturals, SequencesExt

CONSTANTS
    Alnum,      \* the characters [a-z0-9]
    lowerOf,    \* the upper-case letters, each with its lower-case one
    MaxSegment  \* maxRoleSegment

ASSUME NamingAssumption ==
    /\ Alnum \intersect {"-", ".", "_", "$", "+"} = {}
    /\ lowerOf \in [DOMAIN lowerOf -> Alnum]
    /\ Alnum \intersect DOMAIN lowerOf = {}
    /\ MaxSegment \in Nat \ {0}

\* harborRobotNameRe: runs of [a-z0-9] with single separators between them.
HarborRobotName(s) ==
    /\ s \in Seq(Alnum \union {".", "_", "-"}) /\ s # <<>>
    /\ \A i \in DOMAIN s :
          s[i] \in Alnum \/ (i \in 2..(Len(s) - 1) /\ s[i - 1] \in Alnum)

ToLower(s) == [i \in DOMAIN s |-> IF s[i] \in DOMAIN lowerOf THEN lowerOf[s[i]] ELSE s[i]]

\* nonAlnumRun: every run of other characters becomes one "-".
EndsInDash(t) == t # <<>> /\ Last(t) = "-"
Collapsed(t, c) ==
    IF c \in Alnum THEN Append(t, c)
    ELSE IF EndsInDash(t) THEN t ELSE Append(t, "-")
Collapse(s) ==
    LET upTo[i \in 0..Len(s)] == IF i = 0 THEN <<>> ELSE Collapsed(upTo[i - 1], s[i])
    IN  upTo[Len(s)]

TrimDashes(s) ==
    LET kept == {i \in DOMAIN s : s[i] # "-"}
    IN  IF kept = {} THEN <<>> ELSE SubSeq(s, Min(kept), Max(kept))

CutAsItIs(s) == SubSeq(s, 1, MaxSegment)   \* mutant: not trimmed again
Cut(s) == TrimDashes(SubSeq(s, 1, MaxSegment))

normalizeSegment(s) ==
    LET t == TrimDashes(Collapse(ToLower(s)))
    IN  IF Len(t) > MaxSegment THEN Cut(t) ELSE t

\* robotName: the segments that survive, then the random suffix.
Segment(s) == IF s = <<>> THEN <<>> ELSE s \o <<"-">>

JoinedName(prefix, roleName, suffix) ==
    Segment(normalizeSegment(prefix)) \o Segment(normalizeSegment(roleName)) \o suffix

robotName(prefix, roleName, suffix) ==
    LET name == JoinedName(prefix, roleName, suffix)
    IN  IF HarborRobotName(name) THEN name ELSE suffix

-----------------------------------------------------------------------------
\* What Harbor makes of a short name.
FullName(harborPrefix, level, project, short) ==
    harborPrefix \o (IF level = "project" THEN <<project, "+">> ELSE <<>>) \o short

\* What follows the last "$" or "+"; all of it when there is neither.
ShortName(full) ==
    SubSeq(full, SelectLastInSeq(full, LAMBDA c : c \in {"$", "+"}) + 1, Len(full))

\* The fuzzy match of a listing.
Substring(s, t) == s \in SubSeqs(t)

=============================================================================
