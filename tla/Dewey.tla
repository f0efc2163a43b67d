------------------------------- MODULE Dewey -------------------------------
(***************************************************************************)
(* Package versions and patterns: dewey.c and pkg_match, pkg_order of      *)
(* opattern.c in pkg_install/files/lib (match.c of pbulk does the same).    *)
(*                                                                         *)
(* A version is the sequence of the pieces mkcomponent cuts a string into. *)
(* Characters that are neither a digit, a letter nor a modifier are        *)
(* skipped by the code and have no piece.                                  *)
(***************************************************************************)
EXTENDS Integers, FiniteSets, SequencesExt

Alpha == -3
Beta == -2
RC == -1
Dot == 0

Number(n) == [kind |-> "number", n |-> n]
Modifier(n) == [kind |-> "modifier", n |-> n]
Letter(n) == [kind |-> "letter", n |-> n]   \* 1 for a, 26 for z
Nb(n) == [kind |-> "nb", n |-> n]

Piece == [kind : {"number", "modifier", "letter", "nb"}, n : Int]

-----------------------------------------------------------------------------
(* dewey.c *)

mkcomponent(ap, piece) ==
  CASE piece.kind \in {"number", "modifier"} -> [ap EXCEPT !.v = Append(@, piece.n)]
    [] piece.kind = "letter" -> [ap EXCEPT !.v = @ \o <<Dot, piece.n>>]
    [] piece.kind = "nb"     -> [ap EXCEPT !.netbsd = piece.n]

mkversion(num) == FoldLeft(mkcomponent, [v |-> << >>, netbsd |-> 0], num)

DIGIT(v, n) == IF n <= Len(v) THEN v[n] ELSE 0

result(cmp, tst) ==
  \/ tst = "<"  /\ cmp < 0
  \/ tst = "<=" /\ cmp <= 0
  \/ tst = ">"  /\ cmp > 0
  \/ tst = ">=" /\ cmp >= 0
  \/ tst = "==" /\ cmp = 0
  \/ tst = "!=" /\ cmp # 0

(* The places at which two versions differ, the shorter padded with zeros. *)
differing(lhs, rhs) ==
  {i \in 1 .. Len(lhs.v) \cup 1 .. Len(rhs.v) : DIGIT(lhs.v, i) # DIGIT(rhs.v, i)}

IsFirst(i, S) == i \in S /\ \A j \in S : i <= j

(* The first difference decides, and the package revision if there is none.*)
vtest(lhs, tst, rhs) ==
  IF differing(lhs, rhs) = {}
  THEN result(lhs.netbsd - rhs.netbsd, tst)
  ELSE \E i \in differing(lhs, rhs) :
         /\ IsFirst(i, differing(lhs, rhs))
         /\ result(DIGIT(lhs.v, i) - DIGIT(rhs.v, i), tst)

dewey_cmp(lhs, op, rhs) == vtest(mkversion(lhs), op, mkversion(rhs))

(* A relational pattern: a base name and its limits, a lower and an upper  *)
(* one or just one.                                                        *)
dewey_match(pattern, pkg) ==
  /\ pkg.base = pattern.base
  /\ \A limit \in pattern.limits : dewey_cmp(pkg.version, limit.op, limit.version)

-----------------------------------------------------------------------------
(* opattern.c.  A package name is [base, version]; a pattern is the set of *)
(* the alternatives that its braces expand to, each of kind "dewey", "base"*)
(* (a base name, which stands for base-[0-9]* as well) or "name".          *)

matches_alternative(alternative, pkg) ==
  CASE alternative.kind = "dewey" -> dewey_match(alternative, pkg)
    [] alternative.kind = "base"  -> pkg.base = alternative.base
    [] alternative.kind = "name"  -> pkg = alternative.name

pkg_match(pattern, pkg) == \E a \in pattern : matches_alternative(a, pkg)

(* pkg_order of a package and the best one so far (or NULL): does the new  *)
(* one replace it?                                                         *)
pkg_order(pattern, first, second, null) ==
  /\ pkg_match(pattern, first)
  /\ second # null => dewey_cmp(first.version, ">", second.version)
=============================================================================
