-------------------------- MODULE PkgTools_proofs --------------------------
(***************************************************************************)
(* The package tools, for any packages, plists and options: the types, the *)
(* marks "not for deletion", conflicts, what the user asked for, the files *)
(* and the lines of +REQUIRED_BY, whatever is killed between two steps.    *)
(***************************************************************************)
EXTENDS PkgTools, ListLemmas

-----------------------------------------------------------------------------
(* Versions *)

IsVersion(g, num) ==
  g = [S \in SUBSET (1 .. Len(num)) |->
         IF S = {} THEN [v |-> << >>, netbsd |-> 0]
         ELSE mkcomponent(g[S \ {Max(S)}], num[Max(S)])]

LEMMA ComponentType ==
  ASSUME NEW ap \in Array, NEW piece \in Piece
  PROVE  mkcomponent(ap, piece) \in Array
<1>1. ap.v \in Seq(Int) /\ ap.netbsd \in Int /\ piece.n \in Int
  BY DEF Array, Piece
<1>2. Append(ap.v, piece.n) \in Seq(Int) /\ ap.v \o <<Dot, piece.n>> \in Seq(Int)
  BY <1>1 DEF Dot
<1>3. \A s \in Seq(Int) : [ap EXCEPT !.v = s] \in Array
  BY DEF Array
<1>4. [ap EXCEPT !.netbsd = piece.n] \in Array
  BY <1>1 DEF Array
<1>5. piece.kind \in {"number", "modifier", "letter", "nb"}
  BY DEF Piece
<1> QED
  BY <1>2, <1>3, <1>4, <1>5 DEF mkcomponent

(* mkversion makes an array of every version.                              *)
LEMMA VersionType ==
  ASSUME NEW num \in Seq(Piece)
  PROVE  mkversion(num) \in Array
<1> DEFINE N == Len(num)
           base == [v |-> << >>, netbsd |-> 0]
           F == [k \in 1 .. N |-> [x \in Array |-> mkcomponent(x, num[k])]]
           g == CHOOSE h : IsVersion(h, num)
<1>1. N \in Nat /\ DOMAIN num = 1 .. N /\ \A k \in 1 .. N : num[k] \in Piece
  OBVIOUS
<1>2. base \in Array
  BY DEF Array
<1>3. F \in [1 .. N -> [Array -> Array]]
  BY <1>1, ComponentType
<1>4. PICK f \in [SUBSET (1 .. N) -> Array] : IsFold(f, base, F, N)
  <2> HIDE DEF N, F, base
  <2> QED
    BY <1>1, <1>2, <1>3, FoldExists
<1>5. \A S \in SUBSET (1 .. N) : S # {} => Max(S) \in 1 .. N
  <2> HIDE DEF N
  <2> QED
    BY <1>1, MaxInside
<1>6. IsVersion(f, num)
  <2>1. \A S \in SUBSET (1 .. N) : S # {} =>
          F[Max(S)][f[S \ {Max(S)}]] = mkcomponent(f[S \ {Max(S)}], num[Max(S)])
    BY <1>4, <1>5
  <2>2. f = [S \in SUBSET (1 .. N) |->
               IF S = {} THEN base ELSE F[Max(S)][f[S \ {Max(S)}]]]
    BY <1>4 DEF IsFold
  <2> HIDE DEF F
  <2>3. f = [S \in SUBSET (1 .. N) |->
               IF S = {} THEN base ELSE mkcomponent(f[S \ {Max(S)}], num[Max(S)])]
    BY <2>1, <2>2
  <2> QED
    BY <2>3 DEF IsVersion
<1>7. IsVersion(g, num)
  BY <1>6
<1>8. mkversion(num) = g[1 .. N]
  BY <1>1, Zenon DEF mkversion, FoldLeft, MapThenFoldSet, IsVersion
<1> HIDE DEF g, F
<1>9. g[1 .. N] \in Array
  <2>1. \A S \in SUBSET (1 .. N) :
          g[S] = IF S = {} THEN base ELSE mkcomponent(g[S \ {Max(S)}], num[Max(S)])
    BY <1>7 DEF IsVersion
  <2>2. {} \in SUBSET (1 .. N)
    OBVIOUS
  <2> HIDE DEF base, N
  <2>3. g[{}] \in Array
    BY <2>1, <2>2, <1>2
  <2>4. ASSUME NEW S \in SUBSET (1 .. N), S # {}, g[S \ {Max(S)}] \in Array
        PROVE  g[S] \in Array
    <3>1. num[Max(S)] \in Piece
      BY <1>1, <1>5, <2>4
    <3>2. g[S] = mkcomponent(g[S \ {Max(S)}], num[Max(S)])
      BY <2>1, <2>4
    <3> QED
      BY <2>4, <3>1, <3>2, ComponentType
  <2> QED
    BY <1>1, <2>3, <2>4, FoldRange
<1> QED
  BY <1>8, <1>9

-----------------------------------------------------------------------------
(* Names and patterns *)

LEMMA NameParts ==
  /\ \A p \in Pkg : p.version \in Seq(Piece) /\ Temporary(p).base = p.base
                    /\ Temporary(p).version \in Seq(Piece)
  /\ \A n \in Name : n.version \in Seq(Piece)
  /\ Pkg \subseteq Name /\ \A p \in Pkg : Temporary(p) \in Name
<1>1. ASSUME NEW p \in Pkg
      PROVE  p.version \in Seq(Piece) /\ Temporary(p).base = p.base
             /\ Temporary(p).version \in Seq(Piece)
  <2>1. p \in [base : {p.base}, version : Seq(Piece)]
    BY PkgAssumption
  <2>2. \A v : [p EXCEPT !.version = v].base = p.base /\ [p EXCEPT !.version = v].version = v
    BY <2>1
  <2>3. Modifier(Dot) \in Piece /\ Letter(24) \in Piece
    BY DEF Modifier, Letter, Dot, Piece
  <2>4. <<Modifier(Dot)>> \in Seq(Piece) /\ [i \in 1 .. 6 |-> Letter(24)] \in Seq(Piece)
    BY <2>3
  <2>5. p.version \o <<Modifier(Dot)>> \o [i \in 1 .. 6 |-> Letter(24)] \in Seq(Piece)
    BY <2>1, <2>4
  <2> QED
    BY <2>1, <2>2, <2>5 DEF Temporary
<1> QED
  BY <1>1 DEF Name

LEMMA NamesFinite == IsFiniteSet(Name)
<1>1. IsFiniteSet({Temporary(p) : p \in Pkg})
  <2> DEFINE f == [p \in Pkg |-> Temporary(p)]
  <2>1. IsFiniteSet({f[p] : p \in Pkg})
    <3> HIDE DEF f
    <3> QED
      BY PkgAssumption, ImageFinite
  <2>2. {f[p] : p \in Pkg} = {Temporary(p) : p \in Pkg}
    OBVIOUS
  <2> QED
    BY <2>1, <2>2
<1> QED
  BY <1>1, PkgAssumption, FS_Union DEF Name

LEMMA BaseMatches ==
  ASSUME NEW p \in Pkg
  PROVE  /\ BasePattern(p) \in Pattern
         /\ \A n : pkg_match(BasePattern(p), n) <=> n.base = p.base
         /\ \A n \in Name : n \in Matching[BasePattern(p)] <=> n.base = p.base
<1>1. BasePattern(p) \in Pattern
  BY DEF Pattern
<1>2. \A n : pkg_match(BasePattern(p), n) <=> n.base = p.base
  BY DEF pkg_match, BasePattern, matches_alternative
<1> QED
  BY <1>1, <1>2 DEF Matching

(* find_best_matching_installed_pkg returns NULL only if there is no       *)
(* version of the package.                                                 *)
LEMMA NoneInstalled ==
  ASSUME NEW p \in Pkg, NEW names \in SUBSET Name, best_matching(BasePattern(p), names) = {}
  PROVE  \A n \in names : n.base # p.base
<1> DEFINE V == {n \in names : n.base = p.base}
           S == {mkversion(n.version) : n \in V}
<1> SUFFICES ASSUME V # {} PROVE FALSE
  OBVIOUS
<1>1. S \subseteq Array /\ S # {}
  BY NameParts, VersionType
<1>2. IsFiniteSet(S)
  <2>1. IsFiniteSet(V)
    BY NamesFinite, FS_Subset
  <2> DEFINE f == [n \in V |-> mkversion(n.version)]
  <2>2. S = {f[n] : n \in V}
    BY Zenon
  <2> HIDE DEF V, f, S
  <2> QED
    BY <2>1, <2>2, ImageFinite
<1>3. PICK b \in S : \A a \in S : ~vtest(a, ">", b)
  <2> HIDE DEF S
  <2> QED
    BY <1>1, <1>2, BestExists
<1>4. PICK n \in V : b = mkversion(n.version)
  BY <1>3
<1>5. ASSUME NEW m \in names PROVE <<m, n>> \notin Order[BasePattern(p)]
  <2> SUFFICES ASSUME <<m, n>> \in Order[BasePattern(p)] PROVE FALSE
    OBVIOUS
  <2>1. pkg_order(BasePattern(p), m, n, NULL)
    BY BaseMatches DEF Order
  <2>2. n # NULL
    BY PkgAssumption
  <2>3. m.base = p.base
    BY <2>1, BaseMatches DEF pkg_order
  <2>4. vtest(mkversion(m.version), ">", b)
    BY <2>1, <2>2, <1>4 DEF pkg_order, dewey_cmp
  <2> QED
    BY <2>3, <2>4, <1>3
<1>6. n \in best_matching(BasePattern(p), names)
  BY <1>5, BaseMatches DEF best_matching
<1> QED
  BY <1>6

LEMMA BestMatching ==
  ASSUME NEW q, NEW names
  PROVE  best_matching(q, names) \subseteq names /\ best_matching(q, names) \subseteq Matching[q]
BY DEF best_matching

-----------------------------------------------------------------------------
(* The repository *)

LEMMA Plists ==
  ASSUME NEW p \in Pkg
  PROVE  /\ Plist[p].files \in Seq(File) /\ Plist[p].depends \in Seq(Pattern)
         /\ Plist[p].conflicts \subseteq Pattern
BY PlistAssumption

(* What is brought along brings along no more.                             *)
LEMMA BringsAlong ==
  ASSUME NEW s \in Scenarios, NEW p \in s.packages
  PROVE  /\ wanted(s, p) \subseteq brings(s, p)
         /\ brings(s, p) \subseteq s.packages
         /\ \A e \in brings(s, p) : wanted(s, e) \subseteq brings(s, p)
<1>1. \A e \in s.packages : wanted(s, e) \subseteq s.packages
  BY BestMatching DEF wanted
<1>2. ASSUME NEW e \in brings(s, p), NEW d \in wanted(s, e)
      PROVE  d \in brings(s, p)
  <2>1. e \in s.packages /\ d \in s.packages
    BY <1>1 DEF brings
  <2>2. ASSUME NEW S \in SUBSET s.packages, wanted(s, p) \subseteq S,
               \A x \in S : wanted(s, x) \subseteq S
        PROVE  d \in S
    BY <2>2 DEF brings
  <2> QED
    BY <2>1, <2>2 DEF brings
<1> QED
  BY <1>1, <1>2 DEF brings

-----------------------------------------------------------------------------
(* The types *)

Options == {"A", "D", "R", "f", "ff", "k", "r", "u", "U"}

Directory ==
  [contents : Pkg \cup {NULL}, required_by : SUBSET Name,
   preserve : BOOLEAN, automatic : BOOLEAN]

DatabaseType == Installed \subseteq Name /\ pkgdb \in [Installed -> Directory]

-----------------------------------------------------------------------------
(* The list of pkg_delete *)

LEMMA LinesType ==
  ASSUME DatabaseType, NEW n \in Installed
  PROVE  /\ lines(n) \subseteq Name
         /\ pkgdb[n].preserve \in BOOLEAN /\ pkgdb[n].automatic \in BOOLEAN
BY DEF DatabaseType, Directory, lines

(* with -r: names, and pkgs among them                                      *)
LEMMA DependentsType ==
  ASSUME DatabaseType, NEW pkgs \in SUBSET Name
  PROVE  with_dependents(pkgs) \subseteq Name
BY LinesType DEF with_dependents

LEMMA SortedType ==
  ASSUME DatabaseType, NEW pkgs \in SUBSET Name, NEW opts,
         NEW list \in sort_and_recurse(pkgs, opts)
  PROVE  /\ list \in Seq(Name)
         /\ ToSet(list) \subseteq IF "r" \in opts THEN with_dependents(pkgs) ELSE pkgs
<1> DEFINE all == IF "r" \in opts THEN with_dependents(pkgs) ELSE pkgs
           rest == all \ removable(all)
<1>1. all \subseteq Name /\ removable(all) \subseteq all
  BY DependentsType DEF removable
<1>2. PICK first \in SetToSeqs(removable(all)), last \in SetToSeqs(rest) : list = first \o last
  <2>1. sort_and_recurse(pkgs, opts) =
          IF rest # {} /\ {"f", "ff"} \cap opts = {} THEN {}
          ELSE {first \o last : first \in {s \in SetToSeqs(removable(all)) : Sorted(s)},
                                last \in SetToSeqs(rest)}
    BY DEF sort_and_recurse
  <2> HIDE DEF all, rest
  <2> QED
    BY <2>1
<1> HIDE DEF all
<1>3. IsFiniteSet(removable(all)) /\ IsFiniteSet(rest)
  BY <1>1, NamesFinite, FS_Subset
<1>4. first \in Seq(removable(all)) /\ last \in Seq(rest)
  BY <1>2, <1>3, OrderedSets
<1>5. first \in Seq(all) /\ last \in Seq(all)
  BY <1>1, <1>4, SeqMonotonic
<1>6. list \in Seq(all)
  BY <1>2, <1>5, ConcatProperties
<1>7. list \in Seq(Name) /\ ToSet(list) \subseteq all
  BY <1>1, <1>6, SeqMonotonic, ToSetSeq
<1> QED
  BY <1>7 DEF all

(* The fold over the directory.                                            *)
IsLeaves(g, opts, list, directory) ==
  g = [S \in SUBSET (1 .. Len(directory)) |->
         IF S = {} THEN list
         ELSE find_new_leaves_iter(opts, g[S \ {Max(S)}], directory[Max(S)])]

LEMMA LeavesType ==
  ASSUME DatabaseType, NEW opts, NEW list \in Seq(Name), NEW directory \in Seq(Installed)
  PROVE  /\ find_new_leaves(opts, list, directory) \in Seq(Name)
         /\ \A n \in ToSet(find_new_leaves(opts, list, directory)) :
              \/ n \in ToSet(list)
              \/ n \in Installed /\ ("R" \notin opts => pkgdb[n].automatic)
                 /\ {"R", "A"} \cap opts # {}
<1> DEFINE A == {l \in Seq(Name) : \A n \in ToSet(l) :
                   \/ n \in ToSet(list)
                   \/ n \in Installed /\ ("R" \notin opts => pkgdb[n].automatic)}
           N == Len(directory)
           F == [k \in 1 .. N |-> [l \in A |-> find_new_leaves_iter(opts, l, directory[k])]]
           g == CHOOSE h : IsLeaves(h, opts, list, directory)
<1>1. N \in Nat /\ DOMAIN directory = 1 .. N /\ \A k \in 1 .. N : directory[k] \in Installed
  OBVIOUS
<1>2. list \in A
  OBVIOUS
<1>3. ASSUME NEW l \in A, NEW n \in Installed
      PROVE  find_new_leaves_iter(opts, l, n) \in A
  <2>1. n \in Name /\ l \in Seq(Name)
    BY DEF DatabaseType
  <2>2. Append(l, n) \in Seq(Name) /\ ToSet(Append(l, n)) = ToSet(l) \cup {n}
    BY <2>1, ToSetAppend
  <2>3. CASE find_new_leaves_iter(opts, l, n) = l
    BY <2>3
  <2>4. CASE find_new_leaves_iter(opts, l, n) = Append(l, n) /\ ("R" \notin opts => pkgdb[n].automatic)
    BY <2>2, <2>4
  <2> QED
    BY <2>3, <2>4 DEF find_new_leaves_iter
<1> HIDE DEF A
<1>4. F \in [1 .. N -> [A -> A]]
  BY <1>1, <1>3
<1>5. PICK f \in [SUBSET (1 .. N) -> A] : IsFold(f, list, F, N)
  <2> HIDE DEF N, F
  <2> QED
    BY <1>1, <1>2, <1>4, FoldExists
<1>6. \A S \in SUBSET (1 .. N) : S # {} => Max(S) \in 1 .. N
  <2> HIDE DEF N
  <2> QED
    BY <1>1, MaxInside
<1>7. IsLeaves(f, opts, list, directory)
  <2>1. \A S \in SUBSET (1 .. N) : S # {} =>
          F[Max(S)][f[S \ {Max(S)}]] =
            find_new_leaves_iter(opts, f[S \ {Max(S)}], directory[Max(S)])
    BY <1>5, <1>6
  <2>2. f = [S \in SUBSET (1 .. N) |->
               IF S = {} THEN list ELSE F[Max(S)][f[S \ {Max(S)}]]]
    BY <1>5 DEF IsFold
  <2> HIDE DEF F
  <2>3. f = [S \in SUBSET (1 .. N) |->
               IF S = {} THEN list
               ELSE find_new_leaves_iter(opts, f[S \ {Max(S)}], directory[Max(S)])]
    BY <2>1, <2>2
  <2> QED
    BY <2>3 DEF IsLeaves
<1>8. IsLeaves(g, opts, list, directory)
  BY <1>7
<1>9. CASE {"R", "A"} \cap opts = {}
  BY <1>9 DEF find_new_leaves
<1>10. CASE {"R", "A"} \cap opts # {}
  <2>1. find_new_leaves(opts, list, directory) = g[1 .. N]
    BY <1>1, <1>10, Zenon DEF find_new_leaves, FoldLeft, MapThenFoldSet, IsLeaves
  <2> HIDE DEF g, F
  <2>2. \A S \in SUBSET (1 .. N) :
          g[S] = IF S = {} THEN list
                 ELSE find_new_leaves_iter(opts, g[S \ {Max(S)}], directory[Max(S)])
    BY <1>8 DEF IsLeaves
  <2>3. {} \in SUBSET (1 .. N)
    OBVIOUS
  <2> HIDE DEF N
  <2>4. g[{}] \in A
    BY <2>2, <2>3, <1>2
  <2>5. ASSUME NEW S \in SUBSET (1 .. N), S # {}, g[S \ {Max(S)}] \in A
        PROVE  g[S] \in A
    <3>1. directory[Max(S)] \in Installed
      BY <1>1, <1>6, <2>5
    <3>2. g[S] = find_new_leaves_iter(opts, g[S \ {Max(S)}], directory[Max(S)])
      BY <2>2, <2>5
    <3> QED
      BY <2>5, <3>1, <3>2, <1>3
  <2>6. g[1 .. N] \in A
    BY <1>1, <2>4, <2>5, FoldRange
  <2> QED
    BY <1>10, <2>1, <2>6 DEF A
<1> QED
  BY <1>9, <1>10

(* The fold over the list.                                                 *)
IsKept(g, list) ==
  g = [S \in SUBSET (1 .. Len(list)) |->
         IF S = {} THEN << >> ELSE keep_preserve(g[S \ {Max(S)}], list[Max(S)])]

LEMMA KeepType ==
  ASSUME NEW list \in Seq(Name)
  PROVE  /\ FoldLeft(keep_preserve, << >>, list) \in Seq(Name)
         /\ \A n \in ToSet(FoldLeft(keep_preserve, << >>, list)) :
              n \in ToSet(list) /\ ~preserved(n)
<1> DEFINE A == {l \in Seq(Name) : \A n \in ToSet(l) : n \in ToSet(list) /\ ~preserved(n)}
           N == Len(list)
           F == [k \in 1 .. N |-> [l \in A |-> keep_preserve(l, list[k])]]
           g == CHOOSE h : IsKept(h, list)
<1>1. /\ N \in Nat /\ DOMAIN list = 1 .. N
      /\ \A k \in 1 .. N : list[k] \in ToSet(list) /\ list[k] \in Name
  BY ToSetSeq
<1>2. << >> \in A
  BY ToSetSeq, EmptySeq
<1>3. ASSUME NEW l \in A, NEW n \in ToSet(list)
      PROVE  keep_preserve(l, n) \in A
  <2>1. n \in Name /\ l \in Seq(Name)
    BY ToSetSeq
  <2>2. Append(l, n) \in Seq(Name) /\ ToSet(Append(l, n)) = ToSet(l) \cup {n}
    BY <2>1, ToSetAppend
  <2> QED
    BY <2>2 DEF keep_preserve
<1> HIDE DEF A
<1>4. F \in [1 .. N -> [A -> A]]
  BY <1>1, <1>3
<1>5. PICK f \in [SUBSET (1 .. N) -> A] : IsFold(f, << >>, F, N)
  <2> HIDE DEF N, F
  <2> QED
    BY <1>1, <1>2, <1>4, FoldExists
<1>6. \A S \in SUBSET (1 .. N) : S # {} => Max(S) \in 1 .. N
  <2> HIDE DEF N
  <2> QED
    BY <1>1, MaxInside
<1>7. IsKept(f, list)
  <2>1. \A S \in SUBSET (1 .. N) : S # {} =>
          F[Max(S)][f[S \ {Max(S)}]] = keep_preserve(f[S \ {Max(S)}], list[Max(S)])
    BY <1>5, <1>6
  <2>2. f = [S \in SUBSET (1 .. N) |->
               IF S = {} THEN << >> ELSE F[Max(S)][f[S \ {Max(S)}]]]
    BY <1>5 DEF IsFold
  <2> HIDE DEF F
  <2>3. f = [S \in SUBSET (1 .. N) |->
               IF S = {} THEN << >> ELSE keep_preserve(f[S \ {Max(S)}], list[Max(S)])]
    BY <2>1, <2>2
  <2> QED
    BY <2>3 DEF IsKept
<1>8. IsKept(g, list)
  BY <1>7
<1>9. FoldLeft(keep_preserve, << >>, list) = g[1 .. N]
  BY <1>1, Zenon DEF FoldLeft, MapThenFoldSet, IsKept
<1> HIDE DEF g, F
<1>10. \A S \in SUBSET (1 .. N) :
         g[S] = IF S = {} THEN << >> ELSE keep_preserve(g[S \ {Max(S)}], list[Max(S)])
  BY <1>8 DEF IsKept
<1>11. {} \in SUBSET (1 .. N)
  OBVIOUS
<1> HIDE DEF N
<1>12. g[{}] \in A
  BY <1>10, <1>11, <1>2
<1>13. ASSUME NEW S \in SUBSET (1 .. N), S # {}, g[S \ {Max(S)}] \in A
       PROVE  g[S] \in A
  <2>1. list[Max(S)] \in ToSet(list)
    BY <1>1, <1>6, <1>13
  <2>2. g[S] = keep_preserve(g[S \ {Max(S)}], list[Max(S)])
    BY <1>10, <1>13
  <2> QED
    BY <1>13, <2>1, <2>2, <1>3
<1>14. g[1 .. N] \in A
  BY <1>1, <1>12, <1>13, FoldRange
<1> QED
  BY <1>9, <1>14 DEF A

(* What is on the list that pkg_delete begins to remove.                   *)
LEMMA ListsType ==
  ASSUME DatabaseType, NEW pkgs \in SUBSET Name, NEW opts, NEW list \in Lists(pkgs, opts)
  PROVE  /\ list \in Seq(Name)
         /\ "ff" \notin opts => \A n \in ToSet(list) \cap Installed : ~pkgdb[n].preserve
         /\ \A n \in ToSet(list) :
              \/ n \in pkgs
              \/ "r" \in opts /\ n \in with_dependents(pkgs)
              \/ n \in Installed /\ ("R" \notin opts => pkgdb[n].automatic)
                 /\ {"R", "A"} \cap opts # {}
<1>1. PICK sorted \in sort_and_recurse(pkgs, opts), directory \in directories(opts) :
         list \in find_preserve_pkgs(opts, find_new_leaves(opts, sorted, directory))
  BY DEF Lists
<1> DEFINE long == find_new_leaves(opts, sorted, directory)
<1>2. directory \in Seq(Installed)
  <2>1. CASE {"R", "A"} \cap opts = {}
    BY <1>1, <2>1, EmptySeq DEF directories
  <2>2. CASE {"R", "A"} \cap opts # {}
    <3> DEFINE S == {n \in Installed : lines(n) # {}}
    <3>1. directory \in SetToSeqs(S)
      BY <1>1, <2>2 DEF directories
    <3>2. S \subseteq Name /\ S \subseteq Installed
      BY DEF DatabaseType
    <3> HIDE DEF S
    <3>3. IsFiniteSet(S)
      BY <3>2, NamesFinite, FS_Subset
    <3> QED
      BY <3>1, <3>2, <3>3, OrderedSets, SeqMonotonic
  <2> QED
    BY <2>1, <2>2
<1>3. /\ sorted \in Seq(Name)
      /\ ToSet(sorted) \subseteq IF "r" \in opts THEN with_dependents(pkgs) ELSE pkgs
  BY <1>1, SortedType
<1>4. /\ long \in Seq(Name)
      /\ \A n \in ToSet(long) :
           \/ n \in ToSet(sorted)
           \/ n \in Installed /\ ("R" \notin opts => pkgdb[n].automatic)
              /\ {"R", "A"} \cap opts # {}
  BY <1>2, <1>3, LeavesType
<1> HIDE DEF long
<1>5. /\ list \in Seq(Name) /\ \A n \in ToSet(list) : n \in ToSet(long)
      /\ "ff" \notin opts => \A n \in ToSet(list) : ~preserved(n)
  <2>1. list \in find_preserve_pkgs(opts, long)
    BY <1>1 DEF long
  <2>2. CASE "k" \in opts
    BY <2>1, <2>2, <1>4, KeepType DEF find_preserve_pkgs
  <2>3. CASE "k" \notin opts
    BY <2>1, <2>3, <1>4 DEF find_preserve_pkgs
  <2> QED
    BY <2>2, <2>3
<1> QED
  BY <1>3, <1>4, <1>5 DEF preserved

Place == {"check", "depends", "installed", "mkdir", "write_meta_data",
          "preserve_meta_data_file", "rename", "pre_install", "extract_files",
          "mark_automatic", "pkg_register_depends", "nuke_pkg", "nuke_pkgdb"}

PkgTask ==
  [pc : Place, pkg : Pkg, mark_automatic : BOOLEAN, other_version : Name \cup {NULL},
   install_logdir : Name, install_logdir_real : Pkg \cup {NULL},
   depends : Seq(Pattern), dependencies : Seq(Name), files : Seq(File),
   preserve : Seq({"required_by", "preserve", "automatic"})]

Deletion ==
  [pc : {"none", "next", "remove", "rmdir"}, opts : SUBSET Options, list : Seq(Name),
   files : Seq(File), depends : Seq(Pattern), late_error : BOOLEAN]

Command ==
  [name : {"none", "pkg_add", "pkg_delete", "rebuild_tree", "rebuild"},
   opts : SUBSET Options, pkg : Name \cup {NULL}]

StateType ==
  /\ DatabaseType
  /\ byfile \in [File -> Pkg \cup {NULL}] /\ disk \in [File -> Pkg \cup {NULL}]
  /\ faults \in Nat
  /\ trouble \subseteq {"lines", "tree", "files", "update"}
  /\ status \in {"ok", "fail"}

TypeOK ==
  /\ scenario \in Scenarios
  /\ StateType
  /\ command \in Command
  /\ deletion \in Deletion
  /\ tasks \in Seq(PkgTask)

(* A call of pkg_do by itself: where it is in a replacement decides what   *)
(* its directory is called.                                                *)
TaskOK(t) ==
  /\ t.pkg \in scenario.packages
  /\ t.install_logdir_real = NULL => t.install_logdir = t.pkg
  /\ t.install_logdir_real # NULL =>
       /\ t.install_logdir_real = t.pkg /\ t.other_version = t.pkg
       /\ t.install_logdir = Temporary(t.pkg)
       /\ t.pc \in {"mkdir", "write_meta_data", "preserve_meta_data_file", "rename",
                     "nuke_pkgdb"}
  /\ t.other_version = NULL => t.pc \notin {"preserve_meta_data_file", "rename"}
  /\ t.other_version # NULL => t.pc # "check" /\ t.other_version.base = t.pkg.base
  /\ t.pc = "installed" => t.depends # << >>
  /\ ToSet(t.files) \subseteq ToSet(Plist[t.pkg].files)
  /\ ToSet(t.depends) \subseteq ToSet(Plist[t.pkg].depends)
  /\ t.pc \notin {"extract_files", "mark_automatic", "pkg_register_depends",
                  "nuke_pkg", "nuke_pkgdb"} => t.files = Plist[t.pkg].files

(* The calls: all but the innermost wait, and each package is among those  *)
(* the callers' packages bring along.                                      *)
Stack ==
  /\ \A k \in 1 .. Len(tasks) : TaskOK(tasks[k]) /\ (k > 1 => tasks[k].pc = "installed")
  /\ \A k, l \in 1 .. Len(tasks) :
       k < l => tasks[k].pkg \in brings(scenario, tasks[l].pkg)

Waiting == {tasks[k] : k \in 2 .. Len(tasks)}

(* The directory a call is about to fill or has filled is there, and so is *)
(* that of the version it replaces until pkg_delete runs.                  *)
DirOK(t) ==
  /\ t.pc = "write_meta_data" => t.install_logdir \in Installed
  /\ t.pc \in {"mkdir", "write_meta_data", "preserve_meta_data_file"} /\ t.other_version # NULL
       => t.other_version \in Installed
  /\ \/ t.pc = "preserve_meta_data_file"
     \/ t.pc = "rename" /\ t.install_logdir_real # NULL
     => t.install_logdir \in Installed /\ pkgdb[t.install_logdir].contents = t.pkg

(* Who runs, and what pkg_delete has before it.                            *)
Running ==
  /\ Adding => command.name = "pkg_add" /\ DirOK(task)
  /\ Deleting /\ ~Adding => command.name = "pkg_delete" /\ deletion.opts = command.opts
  /\ Deleting /\ Adding => /\ task.pc = "rename" /\ deletion.opts = {}
                           /\ ToSet(deletion.list) \subseteq {task.other_version}
  /\ ~Deleting => deletion.list = << >>
  /\ deletion.pc \in {"remove", "rmdir"} => deletion.list # << >> /\ this \in Installed
  /\ deletion.pc = "remove" => /\ pkgdb[this].contents # NULL
                               /\ ToSet(deletion.files) \subseteq ToSet(plist(this).files)
  /\ deletion.pc = "rmdir" => pkgdb[this].contents = NULL

(* find_preserve_pkgs has been through the list.                           *)
NotPreserved ==
  "ff" \notin deletion.opts =>
    \A n \in ToSet(deletion.list) \cap Installed : ~pkgdb[n].preserve

StructInv == TypeOK /\ Stack /\ Running /\ NotPreserved

-----------------------------------------------------------------------------
(* Steps of the stack of calls *)

LEMMA TheTask ==
  ASSUME TypeOK, Stack, Adding
  PROVE  /\ task \in PkgTask /\ TaskOK(task) /\ task = tasks[1] /\ 1 \in 1 .. Len(tasks)
         /\ Len(tasks) \in Nat
         /\ \A k \in 1 .. Len(tasks) : tasks[k] \in PkgTask /\ TaskOK(tasks[k])
         /\ \A t \in Waiting : t \in PkgTask /\ TaskOK(t) /\ t.pc = "installed"
                               /\ task.pkg \in brings(scenario, t.pkg)
<1>1. tasks \in Seq(PkgTask) /\ tasks # << >>
  BY DEF TypeOK, Adding
<1>2. /\ task \in PkgTask /\ task = tasks[1] /\ 1 \in 1 .. Len(tasks) /\ Len(tasks) \in Nat
      /\ \A k \in 1 .. Len(tasks) : tasks[k] \in PkgTask
  BY <1>1 DEF task
<1>3. \A k \in 2 .. Len(tasks) : k \in 1 .. Len(tasks) /\ 1 < k /\ k > 1
  BY <1>2
<1> QED
  BY <1>2, <1>3 DEF Stack, Waiting

LEMMA Put ==
  ASSUME TypeOK, Adding, NEW t \in PkgTask, tasks' = <<t>> \o Tail(tasks)
  PROVE  /\ tasks' \in Seq(PkgTask) /\ Adding' /\ task' = t /\ Len(tasks') = Len(tasks)
         /\ tasks'[1] = t /\ Len(tasks) \in Nat /\ 1 \in 1 .. Len(tasks)
         /\ \A k \in 2 .. Len(tasks) : tasks'[k] = tasks[k]
         /\ Waiting' = Waiting
<1>1. tasks \in Seq(PkgTask) /\ tasks # << >>
  BY DEF TypeOK, Adding
<1>2. /\ Tail(tasks) \in Seq(PkgTask) /\ Len(Tail(tasks)) = Len(tasks) - 1 /\ Len(tasks) \in Nat
      /\ \A i \in 1 .. Len(tasks) - 1 : Tail(tasks)[i] = tasks[i + 1]
  BY <1>1, HeadTailProperties
<1>3. <<t>> \in Seq(PkgTask) /\ Len(<<t>>) = 1 /\ <<t>>[1] = t
  OBVIOUS
<1>4. /\ tasks' \in Seq(PkgTask) /\ Len(tasks') = 1 + Len(Tail(tasks))
      /\ \A i \in 1 .. 1 + Len(Tail(tasks)) :
           tasks'[i] = IF i <= 1 THEN <<t>>[i] ELSE Tail(tasks)[i - 1]
  BY <1>2, <1>3, ConcatProperties
<1>5. Len(tasks') = Len(tasks) /\ 1 \in 1 .. Len(tasks)
  BY <1>1, <1>2, <1>4
<1>6. tasks'[1] = t
  BY <1>3, <1>4, <1>5
<1>7. ASSUME NEW k \in 2 .. Len(tasks) PROVE tasks'[k] = tasks[k]
  <2>1. k \in 1 .. 1 + Len(Tail(tasks)) /\ ~(k <= 1) /\ k - 1 \in 1 .. Len(tasks) - 1
    BY <1>2, <1>5
  <2>2. (k - 1) + 1 = k
    OBVIOUS
  <2> QED
    BY <1>2, <1>4, <2>1, <2>2
<1>8. Adding' /\ task' = t
  BY <1>4, <1>5, <1>6 DEF Adding, task
<1>9. Waiting' = Waiting
  BY <1>5, <1>7 DEF Waiting
<1> QED
  BY <1>2, <1>4, <1>5, <1>6, <1>7, <1>8, <1>9

LEMMA Pop ==
  ASSUME TypeOK, Adding, tasks' = Tail(tasks)
  PROVE  /\ tasks' \in Seq(PkgTask) /\ Len(tasks) \in Nat /\ Len(tasks') = Len(tasks) - 1
         /\ \A k \in 1 .. Len(tasks') : tasks'[k] = tasks[k + 1] /\ k + 1 \in 2 .. Len(tasks)
         /\ Waiting' \subseteq Waiting
         /\ Waiting = IF Adding' THEN {task'} \cup Waiting' ELSE {}
<1>1. tasks \in Seq(PkgTask) /\ tasks # << >>
  BY DEF TypeOK, Adding
<1>2. /\ tasks' \in Seq(PkgTask) /\ Len(tasks') = Len(tasks) - 1 /\ Len(tasks) \in Nat \ {0}
      /\ \A i \in 1 .. Len(tasks') : tasks'[i] = tasks[i + 1]
  BY <1>1, HeadTailProperties
<1>3. \A k \in 1 .. Len(tasks') : k + 1 \in 2 .. Len(tasks)
  BY <1>2
<1>4. \A k \in 2 .. Len(tasks) : k - 1 \in 1 .. Len(tasks') /\ (k - 1) + 1 = k
  BY <1>2
<1>5. Waiting = {tasks'[k] : k \in 1 .. Len(tasks')}
  BY <1>2, <1>3, <1>4 DEF Waiting
<1>6. CASE tasks' = << >>
  <2>1. Len(tasks') = 0 /\ ~Adding'
    BY <1>6 DEF Adding
  <2>2. Waiting = {} /\ Waiting' = {}
    BY <1>5, <2>1 DEF Waiting
  <2> QED
    BY <1>2, <1>3, <2>1, <2>2
<1>7. CASE tasks' # << >>
  <2>1. Adding' /\ task' = tasks'[1] /\ 1 \in 1 .. Len(tasks')
    BY <1>2, <1>7 DEF Adding, task
  <2>2. \A k \in 1 .. Len(tasks') : k = 1 \/ k \in 2 .. Len(tasks')
    BY <1>2
  <2>3. \A k \in 2 .. Len(tasks') : k \in 1 .. Len(tasks')
    BY <1>2
  <2>4. Waiting = {task'} \cup Waiting'
    BY <1>5, <2>1, <2>2, <2>3 DEF Waiting
  <2> QED
    BY <1>2, <1>3, <2>1, <2>4
<1> QED
  BY <1>6, <1>7

LEMMA Push ==
  ASSUME TypeOK, Adding, NEW t \in PkgTask, NEW u \in PkgTask,
         tasks' = <<u, t>> \o Tail(tasks)
  PROVE  /\ tasks' \in Seq(PkgTask) /\ Adding' /\ task' = u /\ Len(tasks') = Len(tasks) + 1
         /\ tasks'[1] = u /\ tasks'[2] = t /\ Len(tasks) \in Nat /\ 1 \in 1 .. Len(tasks)
         /\ \A k \in 3 .. Len(tasks') : tasks'[k] = tasks[k - 1] /\ k - 1 \in 2 .. Len(tasks)
         /\ Waiting' = {t} \cup Waiting
<1>1. tasks \in Seq(PkgTask) /\ tasks # << >>
  BY DEF TypeOK, Adding
<1>2. /\ Tail(tasks) \in Seq(PkgTask) /\ Len(Tail(tasks)) = Len(tasks) - 1
      /\ Len(tasks) \in Nat \ {0}
      /\ \A i \in 1 .. Len(tasks) - 1 : Tail(tasks)[i] = tasks[i + 1]
  BY <1>1, HeadTailProperties
<1>3. <<u, t>> \in Seq(PkgTask) /\ Len(<<u, t>>) = 2 /\ <<u, t>>[1] = u /\ <<u, t>>[2] = t
  OBVIOUS
<1>4. /\ tasks' \in Seq(PkgTask) /\ Len(tasks') = 2 + Len(Tail(tasks))
      /\ \A i \in 1 .. 2 + Len(Tail(tasks)) :
           tasks'[i] = IF i <= 2 THEN <<u, t>>[i] ELSE Tail(tasks)[i - 2]
  BY <1>2, <1>3, ConcatProperties
<1>5. Len(tasks') = Len(tasks) + 1 /\ 1 \in 1 .. Len(tasks)
  BY <1>2, <1>4
<1>6. tasks'[1] = u /\ tasks'[2] = t
  BY <1>2, <1>3, <1>4
<1>7. ASSUME NEW k \in 3 .. Len(tasks')
      PROVE  tasks'[k] = tasks[k - 1] /\ k - 1 \in 2 .. Len(tasks)
  <2>1. k \in 1 .. 2 + Len(Tail(tasks)) /\ ~(k <= 2) /\ k - 2 \in 1 .. Len(tasks) - 1
    BY <1>2, <1>5
  <2>2. (k - 2) + 1 = k - 1 /\ k - 1 \in 2 .. Len(tasks)
    BY <1>2, <1>5
  <2> QED
    BY <1>2, <1>4, <2>1, <2>2
<1>8. Adding' /\ task' = u
  BY <1>4, <1>5, <1>6 DEF Adding, task
<1>9. Waiting' = {t} \cup Waiting
  <2>1. \A k \in 2 .. Len(tasks') : k = 2 \/ k \in 3 .. Len(tasks')
    BY <1>2, <1>5
  <2>2. \A k \in 2 .. Len(tasks) : k + 1 \in 3 .. Len(tasks') /\ (k + 1) - 1 = k
                                   /\ k + 1 \in 2 .. Len(tasks')
    BY <1>2, <1>5
  <2>3. 2 \in 2 .. Len(tasks')
    BY <1>2, <1>5
  <2>4. \A k \in 2 .. Len(tasks) : tasks'[k + 1] = tasks[k]
    BY <1>7, <2>2
  <2>5. \A k \in 2 .. Len(tasks') : tasks'[k] \in {t} \cup Waiting
    BY <1>6, <1>7, <2>1 DEF Waiting
  <2>6. \A k \in 2 .. Len(tasks) : tasks[k] \in Waiting'
    BY <2>2, <2>4 DEF Waiting
  <2>7. t \in Waiting'
    BY <1>6, <2>3 DEF Waiting
  <2> QED
    BY <2>5, <2>6, <2>7 DEF Waiting
<1> QED
  BY <1>2, <1>4, <1>5, <1>6, <1>7, <1>8, <1>9

LEMMA StackPut ==
  ASSUME TypeOK, Stack, Adding, NEW t \in PkgTask, tasks' = <<t>> \o Tail(tasks),
         scenario' = scenario, t.pkg = task.pkg, TaskOK(t)
  PROVE  Stack'
<1>1. /\ Len(tasks') = Len(tasks) /\ tasks'[1] = t /\ Len(tasks) \in Nat /\ 1 \in 1 .. Len(tasks)
      /\ \A k \in 2 .. Len(tasks) : tasks'[k] = tasks[k]
  BY Put
<1>2. task = tasks[1]
  BY TheTask
<1>3. \A k \in 1 .. Len(tasks) : k = 1 \/ k \in 2 .. Len(tasks)
  BY <1>1
<1>4. \A k \in 1 .. Len(tasks) : tasks'[k].pkg = tasks[k].pkg
  BY <1>1, <1>2, <1>3
<1>5. \A k, l \in 1 .. Len(tasks') :
        k < l => tasks'[k].pkg \in brings(scenario', tasks'[l].pkg)
  BY <1>1, <1>4 DEF Stack
<1>6. ASSUME NEW k \in 1 .. Len(tasks')
      PROVE  TaskOK(tasks[k])' /\ (k > 1 => tasks'[k].pc = "installed")
  <2>1. CASE k = 1
    <3>1. TaskOK(t)
      OBVIOUS
    <3> QED
      BY <1>1, <2>1, <3>1 DEF TaskOK
  <2>2. CASE k \in 2 .. Len(tasks)
    <3>1. TaskOK(tasks[k]) /\ (k > 1 => tasks[k].pc = "installed") /\ tasks'[k] = tasks[k]
      BY <1>1, <2>2 DEF Stack
    <3> QED
      BY <3>1 DEF TaskOK
  <2> QED
    BY <1>1, <1>3, <2>1, <2>2
<1> QED
  BY <1>5, <1>6 DEF Stack

LEMMA StackPop ==
  ASSUME TypeOK, Stack, Adding, tasks' = Tail(tasks), scenario' = scenario
  PROVE  Stack'
<1>1. /\ Len(tasks) \in Nat /\ Len(tasks') = Len(tasks) - 1
      /\ \A k \in 1 .. Len(tasks') : tasks'[k] = tasks[k + 1] /\ k + 1 \in 2 .. Len(tasks)
  BY Pop
<1>2. \A k \in 1 .. Len(tasks') : k + 1 \in 1 .. Len(tasks) /\ k + 1 > 1
  BY <1>1
<1>3. ASSUME NEW k \in 1 .. Len(tasks')
      PROVE  TaskOK(tasks[k])' /\ (k > 1 => tasks'[k].pc = "installed")
  <2>1. k + 1 \in 1 .. Len(tasks) /\ k + 1 > 1 /\ tasks'[k] = tasks[k + 1]
    BY <1>1, <1>2
  <2>2. TaskOK(tasks[k + 1]) /\ tasks[k + 1].pc = "installed"
    BY <2>1 DEF Stack
  <2> QED
    BY <2>1, <2>2 DEF TaskOK
<1>4. ASSUME NEW k \in 1 .. Len(tasks'), NEW l \in 1 .. Len(tasks'), k < l
      PROVE  tasks'[k].pkg \in brings(scenario', tasks'[l].pkg)
  <2>1. k + 1 < l + 1
    BY <1>1, <1>4
  <2> QED
    BY <1>1, <1>2, <2>1 DEF Stack
<1> QED
  BY <1>3, <1>4 DEF Stack

LEMMA StackPush ==
  ASSUME TypeOK, Stack, Adding, NEW t \in PkgTask, NEW u \in PkgTask,
         tasks' = <<u, t>> \o Tail(tasks), scenario' = scenario,
         t.pkg = task.pkg, TaskOK(t), t.pc = "installed",
         TaskOK(u), u.pkg \in wanted(scenario, task.pkg)
  PROVE  Stack'
<1>1. /\ Len(tasks') = Len(tasks) + 1
      /\ tasks'[1] = u /\ tasks'[2] = t /\ Len(tasks) \in Nat /\ 1 \in 1 .. Len(tasks)
      /\ \A k \in 3 .. Len(tasks') : tasks'[k] = tasks[k - 1] /\ k - 1 \in 2 .. Len(tasks)
  BY Push
<1>2. /\ task = tasks[1] /\ \A k \in 1 .. Len(tasks) : TaskOK(tasks[k])
  BY TheTask
<1>3. scenario \in Scenarios
  BY DEF TypeOK
<1>4. \A k \in 1 .. Len(tasks') : k = 1 \/ k = 2 \/ k \in 3 .. Len(tasks')
  BY <1>1
<1>5. \A k \in 2 .. Len(tasks') : tasks'[k].pkg = tasks[k - 1].pkg /\ k - 1 \in 1 .. Len(tasks)
  <2>1. ASSUME NEW k \in 2 .. Len(tasks')
        PROVE  tasks'[k].pkg = tasks[k - 1].pkg /\ k - 1 \in 1 .. Len(tasks)
    <3>1. CASE k = 2
      BY <3>1, <1>1, <1>2
    <3>2. CASE k \in 3 .. Len(tasks')
      BY <3>2, <1>1
    <3> QED
      BY <1>1, <3>1, <3>2
  <2> QED
    BY <2>1
<1>6. \A l \in 1 .. Len(tasks) : u.pkg \in brings(scenario, tasks[l].pkg)
  <2>1. ASSUME NEW l \in 1 .. Len(tasks)
        PROVE  u.pkg \in brings(scenario, tasks[l].pkg)
    <3>1. tasks[l].pkg \in scenario.packages
      BY <1>2 DEF TaskOK
    <3>2. CASE l = 1
      BY <1>2, <1>3, <3>1, <3>2, BringsAlong
    <3>3. CASE l # 1
      <4>1. 1 < l
        BY <1>1, <3>3
      <4>2. task.pkg \in brings(scenario, tasks[l].pkg)
        BY <1>1, <1>2, <4>1 DEF Stack
      <4> QED
        BY <1>3, <3>1, <4>2, BringsAlong
    <3> QED
      BY <3>2, <3>3
  <2> QED
    BY <2>1
<1>7. ASSUME NEW k \in 1 .. Len(tasks'), NEW l \in 1 .. Len(tasks'), k < l
      PROVE  tasks'[k].pkg \in brings(scenario', tasks'[l].pkg)
  <2>1. l \in 2 .. Len(tasks')
    BY <1>1, <1>7
  <2>2. CASE k = 1
    BY <1>1, <1>5, <1>6, <2>1, <2>2
  <2>3. CASE k # 1
    <3>1. k \in 2 .. Len(tasks') /\ k - 1 < l - 1
      BY <1>1, <1>7, <2>3
    <3>2. tasks[k - 1].pkg \in brings(scenario, tasks[l - 1].pkg)
      BY <1>5, <2>1, <3>1 DEF Stack
    <3> QED
      BY <1>5, <2>1, <3>1, <3>2
  <2> QED
    BY <2>2, <2>3
<1>8. ASSUME NEW k \in 1 .. Len(tasks')
      PROVE  TaskOK(tasks[k])' /\ (k > 1 => tasks'[k].pc = "installed")
  <2>1. CASE k = 1
    BY <1>1, <2>1 DEF TaskOK
  <2>2. CASE k = 2
    BY <1>1, <2>2 DEF TaskOK
  <2>3. CASE k \in 3 .. Len(tasks')
    <3>1. tasks'[k] = tasks[k - 1] /\ k - 1 \in 1 .. Len(tasks) /\ k - 1 > 1
      BY <1>1, <2>3
    <3>2. TaskOK(tasks[k - 1]) /\ tasks[k - 1].pc = "installed"
      BY <3>1 DEF Stack
    <3> QED
      BY <3>1, <3>2 DEF TaskOK
  <2> QED
    BY <1>4, <2>1, <2>2, <2>3
<1> QED
  BY <1>7, <1>8 DEF Stack

(* What -f means to whom is not said here: the steps of one call.          *)
LEMMA AddPut ==
  ASSUME StructInv, Adding, ~Deleting, NEW t \in PkgTask, tasks' = <<t>> \o Tail(tasks),
         UNCHANGED <<scenario, command, deletion>>,
         t.pkg = task.pkg, TaskOK(t), DirOK(t)', StateType'
  PROVE  StructInv'
<1>1. tasks' \in Seq(PkgTask) /\ Adding' /\ task' = t
  BY Put DEF StructInv
<1>2. TypeOK'
  BY <1>1 DEF StructInv, TypeOK
<1>3. Stack'
  BY StackPut DEF StructInv
<1>4. ~Deleting' /\ deletion' = deletion /\ deletion.pc = "none"
  BY DEF Deleting
<1>5. deletion.list = << >>
  BY DEF StructInv, Running
<1>6. DirOK(task)'
  BY <1>1 DEF DirOK
<1>7. Running'
  BY <1>1, <1>4, <1>5, <1>6 DEF StructInv, Running
<1>8. ToSet(deletion'.list) = {}
  BY <1>4, <1>5, ToSetEmpty
<1> QED
  BY <1>2, <1>3, <1>7, <1>8 DEF StructInv, NotPreserved

LEMMA AddPop ==
  ASSUME StructInv, Adding, ~Deleting, tasks' = Tail(tasks),
         UNCHANGED <<scenario, command, deletion>>, StateType'
  PROVE  StructInv'
<1>1. tasks' \in Seq(PkgTask) /\ (Adding' => task' \in Waiting)
  BY Pop DEF StructInv
<1>2. TypeOK'
  BY <1>1 DEF StructInv, TypeOK
<1>3. Stack'
  BY StackPop DEF StructInv
<1>4. ~Deleting' /\ deletion' = deletion /\ deletion.pc = "none"
  BY DEF Deleting
<1>5. deletion.list = << >>
  BY DEF StructInv, Running
<1>6. Adding' => DirOK(task)'
  <2>1. \A t \in Waiting : t.pc = "installed"
    BY TheTask DEF StructInv
  <2> QED
    BY <1>1, <2>1 DEF DirOK
<1>7. Running'
  BY <1>4, <1>5, <1>6 DEF StructInv, Running
<1>8. ToSet(deletion'.list) = {}
  BY <1>4, <1>5, ToSetEmpty
<1> QED
  BY <1>2, <1>3, <1>7, <1>8 DEF StructInv, NotPreserved

LEMMA NewTask ==
  ASSUME TypeOK, NEW p \in scenario.packages, NEW automatic \in BOOLEAN
  PROVE  Task(p, automatic) \in PkgTask /\ TaskOK(Task(p, automatic)) /\ p \in Pkg
<1>1. p \in Pkg
  BY ScenariosAssumption DEF TypeOK
<1>2. p \in Name /\ NULL \notin Pkg
  BY <1>1, PkgAssumption DEF Name
<1>3. << >> \in Seq(Name) /\ << >> \in Seq({"required_by", "preserve", "automatic"})
  BY EmptySeq
<1> QED
  BY <1>1, <1>2, <1>3, Plists DEF Task, PkgTask, Place, TaskOK

LEMMA AddPush ==
  ASSUME StructInv, Adding, ~Deleting, NEW t \in PkgTask,
         NEW p \in wanted(scenario, task.pkg), NEW automatic \in BOOLEAN,
         tasks' = <<Task(p, automatic), t>> \o Tail(tasks),
         UNCHANGED <<scenario, command, deletion>>,
         t.pkg = task.pkg, TaskOK(t), t.pc = "installed", StateType'
  PROVE  StructInv'
<1>1. PICK u : u = Task(p, automatic)
  OBVIOUS
<1>2. p \in scenario.packages
  BY BestMatching DEF wanted
<1>3. u \in PkgTask /\ TaskOK(u) /\ u.pkg = p /\ u.pc = "check"
  BY <1>1, <1>2, NewTask DEF StructInv, Task
<1>4. tasks' \in Seq(PkgTask) /\ Adding' /\ task' = u
  BY <1>1, <1>3, Push DEF StructInv
<1>5. TypeOK'
  BY <1>4 DEF StructInv, TypeOK
<1>6. Stack'
  BY <1>1, <1>3, StackPush DEF StructInv
<1>7. ~Deleting' /\ deletion' = deletion /\ deletion.pc = "none"
  BY DEF Deleting
<1>8. deletion.list = << >>
  BY DEF StructInv, Running
<1>9. DirOK(task)'
  BY <1>3, <1>4 DEF DirOK
<1>10. Running'
  BY <1>4, <1>7, <1>8, <1>9 DEF StructInv, Running
<1>11. ToSet(deletion'.list) = {}
  BY <1>7, <1>8, ToSetEmpty
<1> QED
  BY <1>5, <1>6, <1>10, <1>11 DEF StructInv, NotPreserved

(* t is u further on, with nothing else changed.                           *)
Alike(t, u) ==
  /\ t.pkg = u.pkg /\ t.mark_automatic = u.mark_automatic
  /\ t.other_version = u.other_version /\ t.install_logdir = u.install_logdir
  /\ t.install_logdir_real = u.install_logdir_real
  /\ t.depends = u.depends /\ t.dependencies = u.dependencies
  /\ t.files = u.files /\ t.preserve = u.preserve

LEMMA NextPlace ==
  ASSUME NEW u \in PkgTask, NEW pc \in Place
  PROVE  \E t \in PkgTask : t = [u EXCEPT !.pc = pc] /\ t.pc = pc /\ Alike(t, u)
<1>1. [u EXCEPT !.pc = pc] \in PkgTask
  BY DEF PkgTask
<1>2. [u EXCEPT !.pc = pc].pc = pc /\ Alike([u EXCEPT !.pc = pc], u)
  BY DEF PkgTask, Alike
<1> QED
  BY <1>1, <1>2

LEMMA FaultType ==
  ASSUME Fault, TypeOK
  PROVE  faults' \in Nat /\ faults' = faults + 1 /\ faults < scenario.max_faults
BY DEF Fault, TypeOK, StateType

(* Steps that do not touch the database.                                   *)
LEMMA CheckAlreadyInstalledStruct ==
  ASSUME StructInv, CheckAlreadyInstalled, UNCHANGED <<scenario, command>>
  PROVE  StructInv'
<1>1. Adding /\ ~Deleting /\ tasks' = Tail(tasks) /\ status' = "ok"
  BY DEF CheckAlreadyInstalled, At, Return
<1>2. DatabaseType'
  <2>1. DatabaseType
    BY DEF StructInv, TypeOK, StateType
  <2>2. CASE pkgdb' = pkgdb
    BY <2>1, <2>2 DEF DatabaseType, Installed
  <2>3. CASE pkgdb' = [pkgdb EXCEPT ![task.pkg].automatic = FALSE]
    BY <2>1, <2>3 DEF DatabaseType, Installed, Directory
  <2> QED
    BY <2>2, <2>3 DEF CheckAlreadyInstalled
<1>3. StateType'
  BY <1>1, <1>2 DEF CheckAlreadyInstalled, StructInv, TypeOK, StateType
<1> QED
  BY <1>1, <1>3, AddPop DEF CheckAlreadyInstalled

LEMMA GotoStruct ==
  ASSUME StructInv, Adding, ~Deleting, NEW pc \in Place, Goto(pc),
         UNCHANGED <<scenario, command, deletion>>, StateType',
         task.pc # "check",
         \/ task.install_logdir_real = NULL /\ task.pc # "preserve_meta_data_file"
         \/ pc = "nuke_pkgdb",
         pc \in {"mkdir", "pre_install", "extract_files", "mark_automatic",
                 "pkg_register_depends", "nuke_pkgdb"},
         pc = "mkdir" => task.other_version = NULL,
         pc \in {"mkdir", "pre_install"} => task.pc = "depends",
         pc = "extract_files" => task.pc = "pre_install"
  PROVE  StructInv'
<1>1. task \in PkgTask /\ TaskOK(task)
  BY TheTask DEF StructInv
<1>2. PICK t \in PkgTask : t = [task EXCEPT !.pc = pc] /\ t.pc = pc /\ Alike(t, task)
  BY <1>1, NextPlace
<1>3. tasks' = <<t>> \o Tail(tasks)
  BY <1>2 DEF Goto
<1>4. TaskOK(t)
  BY <1>1, <1>2 DEF TaskOK, Alike
<1>5. DirOK(t)'
  BY <1>2 DEF DirOK, Alike
<1> QED
  BY <1>2, <1>3, <1>4, <1>5, AddPut DEF Alike

LEMMA OtherVersion ==
  ASSUME StructInv, Adding, task.pc = "check", NEW other \in others
  PROVE  /\ other \in Name \cup {NULL}
         /\ other # NULL => other \in Installed /\ other.base = task.pkg.base
         /\ replaces_itself => other = task.pkg
<1>1. task.pkg \in Pkg /\ Installed \subseteq Name /\ NULL \notin Name
  BY TheTask, PkgAssumption DEF StructInv, PkgTask, TypeOK, StateType, DatabaseType
<1>2. CASE replaces_itself
  BY <1>1, <1>2 DEF others, other_versions, replaces_itself, Complete
<1>3. CASE ~replaces_itself
  <2> DEFINE q == BasePattern(task.pkg)
  <2>1. \A n \in best_matching(q, Installed) : n \in Installed /\ n.base = task.pkg.base
    BY <1>1, BaseMatches DEF best_matching
  <2> HIDE DEF q
  <2>2. other \in best_matching(q, Installed) \cup {NULL}
    BY <1>3 DEF others, other_versions, q
  <2> QED
    BY <1>1, <1>3, <2>1, <2>2
<1> QED
  BY <1>2, <1>3

LEMMA CheckStruct ==
  ASSUME StructInv, Check, UNCHANGED <<scenario, command>>
  PROVE  StructInv'
<1>1. Adding /\ ~Deleting /\ task.pc = "check" /\ UNCHANGED <<pkgdb, byfile, disk, deletion, faults>>
  BY DEF Check, At, database
<1>2. task \in PkgTask /\ TaskOK(task)
  BY <1>1, TheTask DEF StructInv
<1>3. PICK other \in others :
        \/ CheckFails(other) /\ Return("fail") /\ UNCHANGED trouble
        \/ CheckPasses(other) /\ Checked(other) /\ trouble' = trouble \cup overridden(other)
        \/ tasks' = << >> /\ UNCHANGED status /\ trouble' = trouble \cup interrupted
  BY DEF Check
<1>4. DatabaseType'
  BY <1>1 DEF StructInv, TypeOK, StateType, DatabaseType, Installed
<1>5. /\ overridden(other) \subseteq {"lines", "tree", "files", "update"}
      /\ interrupted \subseteq {"lines", "tree", "files", "update"}
  BY DEF overridden, interrupted
<1>6. StateType'
  BY <1>1, <1>3, <1>4, <1>5 DEF StructInv, TypeOK, StateType, Return, Checked
<1>7. CASE Return("fail")
  BY <1>1, <1>6, <1>7, AddPop DEF Return
<1>8. CASE tasks' = << >>
  <2>1. tasks' \in Seq(PkgTask) /\ Len(tasks') = 0 /\ ~Adding'
    BY <1>8, EmptySeq DEF Adding
  <2>2. Stack'
    BY <2>1 DEF Stack
  <2>3. TypeOK'
    BY <1>1, <1>6, <2>1 DEF StructInv, TypeOK
  <2>4. Running'
    BY <1>1, <2>1 DEF StructInv, Running, Deleting
  <2>5. ToSet(deletion'.list) = {}
    BY <1>1, ToSetEmpty DEF StructInv, Running
  <2> QED
    BY <2>2, <2>3, <2>4, <2>5 DEF StructInv, NotPreserved
<1>9. CASE Checked(other)
  <2>1. PICK t : t = [task EXCEPT
                   !.pc = IF other = NULL THEN "depends" ELSE "mkdir",
                   !.other_version = other,
                   !.install_logdir = IF replaces_itself THEN Temporary(@) ELSE @,
                   !.install_logdir_real = IF replaces_itself THEN task.pkg ELSE NULL]
    OBVIOUS
  <2>2. /\ other \in Name \cup {NULL}
        /\ other # NULL => other \in Installed /\ other.base = task.pkg.base
        /\ replaces_itself => other = task.pkg
    BY <1>1, OtherVersion
  <2>3. /\ task.other_version = NULL /\ task.install_logdir_real = NULL
        /\ task.install_logdir = task.pkg
    BY <1>1, <1>2 DEF TaskOK
  <2>4. task.pkg \in Pkg /\ Temporary(task.pkg) \in Name /\ NULL \notin Name /\ Pkg \subseteq Name
    BY <1>2, NameParts, PkgAssumption DEF PkgTask
  <2>5. /\ t.pc = IF other = NULL THEN "depends" ELSE "mkdir"
        /\ t.other_version = other
        /\ t.install_logdir = IF replaces_itself THEN Temporary(task.pkg) ELSE task.pkg
        /\ t.install_logdir_real = IF replaces_itself THEN task.pkg ELSE NULL
        /\ t.pkg = task.pkg /\ t.depends = task.depends /\ t.files = task.files
    BY <1>2, <2>1, <2>3 DEF PkgTask
  <2>6. t \in PkgTask
    BY <1>2, <2>1, <2>2, <2>3, <2>4 DEF PkgTask, Place
  <2>7. tasks' = <<t>> \o Tail(tasks)
    BY <1>9, <2>1 DEF Checked
  <2>8. TaskOK(t)
    BY <1>1, <1>2, <2>2, <2>3, <2>4, <2>5 DEF TaskOK
  <2>9. DirOK(t)'
    BY <1>1, <2>2, <2>5 DEF DirOK, Installed
  <2> QED
    BY <1>1, <1>6, <2>5, <2>6, <2>7, <2>8, <2>9, AddPut
<1> QED
  BY <1>3, <1>7, <1>8, <1>9

LEMMA FulfilledStruct ==
  ASSUME StructInv, Adding, ~Deleting, task.pc \in {"depends", "installed"}, task.depends # << >>,
         NEW best \in Installed, Fulfilled(best),
         UNCHANGED <<scenario, command, deletion>>, StateType'
  PROVE  StructInv'
<1>1. task \in PkgTask /\ TaskOK(task)
  BY TheTask DEF StructInv
<1>2. PICK d : d = (IF best \in Range(task.dependencies) THEN task.dependencies
                    ELSE Append(task.dependencies, best))
  OBVIOUS
<1>3. d \in Seq(Name)
  <2>1. best \in Name /\ task.dependencies \in Seq(Name)
    BY <1>1 DEF StructInv, TypeOK, StateType, DatabaseType, PkgTask
  <2> QED
    BY <1>2, <2>1, AppendProperties
<1>4. Tail(task.depends) \in Seq(Pattern) /\ ToSet(Tail(task.depends)) \subseteq ToSet(task.depends)
  BY <1>1, ToSetSeq DEF PkgTask
<1>5. PICK t : t = [task EXCEPT !.pc = "depends", !.depends = Tail(@), !.dependencies = d]
  OBVIOUS
<1>6. /\ t \in PkgTask /\ t.pc = "depends" /\ t.depends = Tail(task.depends)
      /\ t.pkg = task.pkg /\ t.other_version = task.other_version
      /\ t.install_logdir = task.install_logdir
      /\ t.install_logdir_real = task.install_logdir_real /\ t.files = task.files
  BY <1>1, <1>3, <1>4, <1>5 DEF PkgTask, Place
<1>7. tasks' = <<t>> \o Tail(tasks)
  BY <1>1, <1>2, <1>5 DEF Fulfilled, PkgTask
<1>8. TaskOK(t)
  BY <1>1, <1>4, <1>6 DEF TaskOK
<1>9. DirOK(t)'
  BY <1>6 DEF DirOK
<1> QED
  BY <1>6, <1>7, <1>8, <1>9, AddPut

LEMMA InstalledStruct ==
  ASSUME StructInv, Adding, ~Deleting, task.pc = "depends", task.depends # << >>,
         Goto("installed"), UNCHANGED <<scenario, command, deletion>>, StateType'
  PROVE  StructInv'
<1>1. task \in PkgTask /\ TaskOK(task)
  BY TheTask DEF StructInv
<1>2. PICK t \in PkgTask : t = [task EXCEPT !.pc = "installed"] /\ t.pc = "installed" /\ Alike(t, task)
  BY <1>1, NextPlace DEF Place
<1>3. tasks' = <<t>> \o Tail(tasks)
  BY <1>2 DEF Goto
<1>4. TaskOK(t)
  BY <1>1, <1>2 DEF TaskOK, Alike
<1>5. DirOK(t)'
  BY <1>2 DEF DirOK
<1> QED
  BY <1>2, <1>3, <1>4, <1>5, AddPut DEF Alike

LEMMA FoundIsWanted ==
  ASSUME StructInv, Adding, task.depends # << >>, NEW p \in find_archive(pattern)
  PROVE  p \in wanted(scenario, task.pkg)
<1>1. task \in PkgTask /\ TaskOK(task)
  BY TheTask DEF StructInv
<1>2. task.depends \in Seq(Pattern) /\ Plist[task.pkg].depends \in Seq(Pattern)
  BY <1>1, Plists DEF PkgTask
<1>3. pattern \in ToSet(Plist[task.pkg].depends)
  BY <1>1, <1>2, ToSetSeq DEF pattern, TaskOK
<1>4. pattern \in Range(Plist[task.pkg].depends)
  BY <1>2, <1>3, ToSetSeq
<1> QED
  BY <1>4 DEF wanted, find_archive

LEMMA CheckDependencyStruct ==
  ASSUME StructInv, CheckDependency, UNCHANGED <<scenario, command>>
  PROVE  StructInv'
<1>1. /\ Adding /\ ~Deleting /\ task.pc = "depends" /\ task.depends # << >>
      /\ UNCHANGED <<pkgdb, byfile, disk, deletion, faults, trouble>>
      /\ status' = status \/ status' = "fail"
  BY DEF CheckDependency, At, database
<1>2. StateType'
  BY <1>1 DEF StructInv, TypeOK, StateType, DatabaseType, Installed
<1>3. CASE \E best \in fulfilling : Fulfilled(best)
  BY <1>1, <1>2, <1>3, BestMatching, FulfilledStruct DEF fulfilling
<1>4. ASSUME NEW p \in find_archive(pattern),
             tasks' = <<Task(p, TRUE), [task EXCEPT !.pc = "installed"]>> \o Tail(tasks)
      PROVE  StructInv'
  <2>1. task \in PkgTask /\ TaskOK(task)
    BY <1>1, TheTask DEF StructInv
  <2>2. PICK t \in PkgTask : t = [task EXCEPT !.pc = "installed"] /\ t.pc = "installed" /\ Alike(t, task)
    BY <2>1, NextPlace DEF Place
  <2>3. tasks' = <<Task(p, TRUE), t>> \o Tail(tasks)
    BY <1>4, <2>2
  <2>4. TaskOK(t)
    BY <1>1, <2>1, <2>2 DEF TaskOK, Alike
  <2>5. p \in wanted(scenario, task.pkg)
    BY <1>1, FoundIsWanted
  <2>6. PICK d : d = p
    OBVIOUS
  <2> QED
    BY <1>1, <1>2, <2>2, <2>3, <2>4, <2>5, <2>6, AddPush DEF Alike
<1>5. CASE Goto("installed")
  BY <1>1, <1>2, <1>5, InstalledStruct
<1> QED
  BY <1>3, <1>4, <1>5 DEF CheckDependency

LEMMA DependsFailStruct ==
  ASSUME StructInv, Adding, ~Deleting, task.pc \in {"depends", "installed"}, DependsFail,
         UNCHANGED <<scenario, command, deletion>>, StateType'
  PROVE  StructInv'
<1>1. task.install_logdir_real = NULL
  BY TheTask, PkgAssumption DEF StructInv, TaskOK
<1>2. CASE task.other_version = NULL
  BY <1>2, AddPop DEF DependsFail, Return
<1>3. CASE task.other_version # NULL
  BY <1>1, <1>3, GotoStruct DEF DependsFail, Place
<1> QED
  BY <1>2, <1>3

LEMMA DependencyInstalledStruct ==
  ASSUME StructInv, DependencyInstalled, UNCHANGED <<scenario, command>>
  PROVE  StructInv'
<1>1. /\ Adding /\ ~Deleting /\ task.pc = "installed" /\ task \in PkgTask /\ TaskOK(task)
      /\ UNCHANGED <<pkgdb, byfile, disk, deletion, faults>>
  BY TheTask DEF DependencyInstalled, At, database, StructInv
<1>2. task.depends # << >>
  BY <1>1 DEF TaskOK
<1>3. /\ trouble' = trouble \/ trouble' = trouble \cup {"tree"}
      /\ status' = status \/ status' = "fail"
  BY DEF DependencyInstalled, DependsFail, Return
<1>4. StateType'
  BY <1>1, <1>3 DEF StructInv, TypeOK, StateType, DatabaseType, Installed
<1>5. CASE \E best \in fulfilling : Fulfilled(best)
  BY <1>1, <1>2, <1>4, <1>5, BestMatching, FulfilledStruct DEF fulfilling
<1>6. CASE tasks' = <<[task EXCEPT !.pc = "depends", !.depends = Tail(@)]>> \o Tail(tasks)
  <2>1. Tail(task.depends) \in Seq(Pattern) /\ ToSet(Tail(task.depends)) \subseteq ToSet(task.depends)
    BY <1>1, <1>2, ToSetSeq DEF PkgTask
  <2>2. PICK t : t = [task EXCEPT !.pc = "depends", !.depends = Tail(@)]
    OBVIOUS
  <2>3. /\ t \in PkgTask /\ t.pc = "depends" /\ t.depends = Tail(task.depends)
        /\ t.pkg = task.pkg /\ t.other_version = task.other_version
        /\ t.install_logdir = task.install_logdir
        /\ t.install_logdir_real = task.install_logdir_real /\ t.files = task.files
    BY <1>1, <2>1, <2>2 DEF PkgTask, Place
  <2>4. TaskOK(t)
    BY <1>1, <2>1, <2>3 DEF TaskOK
  <2>5. DirOK(t)'
    BY <2>3 DEF DirOK
  <2> QED
    BY <1>1, <1>4, <1>6, <2>2, <2>3, <2>4, <2>5, AddPut
<1>7. CASE DependsFail
  BY <1>1, <1>4, <1>7, DependsFailStruct
<1> QED
  BY <1>5, <1>6, <1>7 DEF DependencyInstalled

LEMMA DependenciesDoneStruct ==
  ASSUME StructInv, DependenciesDone, UNCHANGED <<scenario, command>>
  PROVE  StructInv'
<1>1. /\ Adding /\ ~Deleting /\ task.pc = "depends" /\ task \in PkgTask /\ TaskOK(task)
      /\ UNCHANGED <<pkgdb, byfile, disk, deletion, faults, trouble, status>>
  BY TheTask DEF DependenciesDone, At, database, StructInv
<1>2. StateType'
  BY <1>1 DEF StructInv, TypeOK, StateType, DatabaseType, Installed
<1>3. task.install_logdir_real = NULL
  BY <1>1 DEF TaskOK
<1>4. CASE task.other_version = NULL
  BY <1>1, <1>2, <1>3, <1>4, GotoStruct DEF DependenciesDone, Place
<1>5. CASE task.other_version # NULL
  BY <1>1, <1>2, <1>3, <1>5, GotoStruct DEF DependenciesDone, Place
<1> QED
  BY <1>4, <1>5

LEMMA EmptyDirectoryType == EmptyDirectory \in Directory
BY DEF EmptyDirectory, Directory

(* The first steps of an installation may fail: only the place changes.    *)
GivesUp ==
  /\ Adding /\ ~Deleting
  /\ task.pc \in {"mkdir", "write_meta_data", "preserve_meta_data_file"}
  /\ Fault /\ Goto("nuke_pkgdb")
  /\ UNCHANGED <<pkgdb, byfile, disk, deletion, trouble, asked, status>>

LEMMA GivesUpStruct ==
  ASSUME StructInv, GivesUp, UNCHANGED <<scenario, command>>
  PROVE  StructInv'
<1>1. StateType'
  BY FaultType DEF GivesUp, StructInv, TypeOK, StateType, DatabaseType, Installed
<1> QED
  BY <1>1, GotoStruct DEF GivesUp, Place

LEMMA MkdirStruct ==
  ASSUME StructInv, Mkdir, ~GivesUp, UNCHANGED <<scenario, command>>
  PROVE  StructInv'
<1>1. /\ Adding /\ ~Deleting /\ task.pc = "mkdir" /\ task \in PkgTask /\ TaskOK(task)
      /\ UNCHANGED <<byfile, disk, deletion, faults, trouble, status>>
      /\ Goto("write_meta_data")
      /\ pkgdb' = [n \in Installed \cup {task.install_logdir} |->
                     IF n \in Installed THEN pkgdb[n] ELSE EmptyDirectory]
  BY TheTask DEF Mkdir, GivesUp, At, StructInv
<1>2. Installed' = Installed \cup {task.install_logdir}
  BY <1>1 DEF Installed
<1>3. DatabaseType'
  <2>1. DatabaseType /\ task.install_logdir \in Name
    BY <1>1 DEF StructInv, TypeOK, StateType, PkgTask
  <2> QED
    BY <1>1, <1>2, <2>1, EmptyDirectoryType DEF DatabaseType
<1>4. StateType'
  BY <1>1, <1>3 DEF StructInv, TypeOK, StateType
<1>5. PICK t \in PkgTask : t = [task EXCEPT !.pc = "write_meta_data"]
                           /\ t.pc = "write_meta_data" /\ Alike(t, task)
  BY <1>1, NextPlace DEF Place
<1>6. tasks' = <<t>> \o Tail(tasks)
  BY <1>1, <1>5 DEF Goto
<1>7. TaskOK(t)
  BY <1>1, <1>5 DEF TaskOK, Alike
<1>8. DirOK(t)'
  <2>1. t.other_version # NULL => t.other_version \in Installed
    BY <1>1, <1>5 DEF StructInv, Running, DirOK, Alike
  <2> QED
    BY <1>2, <1>5, <2>1 DEF DirOK, Alike
<1> QED
  BY <1>1, <1>4, <1>5, <1>6, <1>7, <1>8, AddPut DEF Alike

LEMMA WriteMetaDataStruct ==
  ASSUME StructInv, WriteMetaData, ~GivesUp, UNCHANGED <<scenario, command>>
  PROVE  StructInv'
<1>1. /\ Adding /\ ~Deleting /\ task.pc = "write_meta_data" /\ task \in PkgTask /\ TaskOK(task)
      /\ UNCHANGED <<byfile, disk, deletion, faults, trouble, status>>
      /\ pkgdb' = [pkgdb EXCEPT ![task.install_logdir].contents = task.pkg,
                                ![task.install_logdir].preserve = @ \/ task.pkg \in Preserved]
  BY TheTask DEF WriteMetaData, GivesUp, At, StructInv
<1>2. DirOK(task) /\ task.install_logdir \in Installed /\ task.pkg \in Pkg
  BY <1>1 DEF StructInv, Running, DirOK, PkgTask
<1>3. Installed' = Installed
  BY <1>1 DEF Installed
<1>4. DatabaseType'
  <2>1. DatabaseType
    BY DEF StructInv, TypeOK, StateType
  <2>2. \A n \in Installed : pkgdb'[n] \in Directory
    BY <1>1, <1>2, <2>1 DEF DatabaseType, Directory
  <2>3. pkgdb' = [n \in Installed |-> pkgdb'[n]]
    BY <1>1, <2>1 DEF DatabaseType
  <2> QED
    BY <1>3, <2>1, <2>2, <2>3 DEF DatabaseType
<1>5. pkgdb'[task.install_logdir].contents = task.pkg
  BY <1>1, <1>2 DEF StructInv, TypeOK, StateType, DatabaseType, Directory
<1>6. StateType'
  BY <1>1, <1>4 DEF StructInv, TypeOK, StateType
<1>7. CASE task.other_version = NULL
  <2>1. PICK t \in PkgTask : t = [task EXCEPT !.pc = "pre_install"]
                             /\ t.pc = "pre_install" /\ Alike(t, task)
    BY <1>1, NextPlace DEF Place
  <2>2. tasks' = <<t>> \o Tail(tasks)
    BY <1>1, <1>7, <2>1 DEF WriteMetaData, GivesUp, At
  <2>3. task.install_logdir_real = NULL
    BY <1>1, <1>7, PkgAssumption DEF TaskOK, Name, PkgTask
  <2>4. TaskOK(t)
    BY <1>1, <2>1, <2>3 DEF TaskOK, Alike
  <2>5. DirOK(t)'
    BY <2>1 DEF DirOK, Alike
  <2> QED
    BY <1>1, <1>6, <2>1, <2>2, <2>4, <2>5, AddPut DEF Alike
<1>8. CASE task.other_version # NULL
  <2>1. PICK t : t = [task EXCEPT !.pc = "preserve_meta_data_file", !.preserve = start_replacing]
    OBVIOUS
  <2>2. start_replacing \in Seq({"required_by", "preserve", "automatic"})
    BY DEF start_replacing
  <2>3. /\ t \in PkgTask /\ t.pc = "preserve_meta_data_file" /\ t.depends = task.depends
        /\ t.pkg = task.pkg /\ t.other_version = task.other_version
        /\ t.install_logdir = task.install_logdir
        /\ t.install_logdir_real = task.install_logdir_real /\ t.files = task.files
    BY <1>1, <2>1, <2>2 DEF PkgTask, Place
  <2>4. tasks' = <<t>> \o Tail(tasks)
    BY <1>1, <1>8, <2>1 DEF WriteMetaData, GivesUp, At
  <2>5. TaskOK(t)
    BY <1>1, <1>8, <2>3 DEF TaskOK
  <2>6. DirOK(t)'
    BY <1>1, <1>2, <1>3, <1>5, <1>8, <2>3 DEF DirOK
  <2> QED
    BY <1>1, <1>6, <2>3, <2>4, <2>5, <2>6, AddPut
<1> QED
  BY <1>7, <1>8

LEMMA PreserveEffect ==
  ASSUME StructInv, PreserveMetaDataFile
  PROVE  /\ Adding /\ ~Deleting /\ task.pc = "preserve_meta_data_file"
         /\ task \in PkgTask /\ TaskOK(task) /\ task.preserve # << >>
         /\ task.other_version \in Installed /\ task.install_logdir \in Installed
         /\ pkgdb[task.install_logdir].contents = task.pkg
         /\ Installed' = Installed /\ DatabaseType'
         /\ \A n \in Installed : pkgdb'[n].contents = pkgdb[n].contents
         /\ \A n \in Installed \ {task.other_version, task.install_logdir} : pkgdb'[n] = pkgdb[n]
         /\ \/ pkgdb[task.other_version].automatic = FALSE
            \/ Head(task.preserve) # "automatic"
            => \A n \in Installed : pkgdb'[n].automatic = pkgdb[n].automatic
<1> DEFINE old == task.other_version
           new == task.install_logdir
<1>1. /\ Adding /\ ~Deleting /\ task.pc = "preserve_meta_data_file"
      /\ task \in PkgTask /\ TaskOK(task) /\ task.preserve # << >>
  BY TheTask DEF PreserveMetaDataFile, At, StructInv
<1>2. DirOK(task) /\ old # NULL
  BY <1>1 DEF StructInv, Running, TaskOK
<1>3. old \in Installed /\ new \in Installed /\ pkgdb[new].contents = task.pkg
  BY <1>1, <1>2 DEF DirOK
<1>4. PICK file : file = Head(task.preserve)
  OBVIOUS
<1>5. file \in {"required_by", "preserve", "automatic"}
  BY <1>1, <1>4 DEF PkgTask
<1>6. \/ pkgdb' = pkgdb
      \/ /\ new # old /\ pkgdb[old][file] # EmptyDirectory[file]
         /\ pkgdb' = [pkgdb EXCEPT ![new][file] = pkgdb[old][file],
                                   ![old][file] = EmptyDirectory[file]]
  BY <1>4 DEF PreserveMetaDataFile
<1>7. DatabaseType /\ pkgdb \in [Installed -> Directory] /\ Installed \subseteq Name
  BY DEF StructInv, TypeOK, StateType, DatabaseType
<1>8. DOMAIN pkgdb' = Installed /\ Installed' = Installed
  BY <1>6, <1>7 DEF Installed
<1>9. /\ EmptyDirectory.required_by = {} /\ EmptyDirectory.preserve = FALSE
      /\ EmptyDirectory.automatic = FALSE
  BY DEF EmptyDirectory
<1>10. \A n \in Installed :
         /\ pkgdb[n] \in Directory /\ pkgdb[n].preserve \in BOOLEAN
         /\ pkgdb[n].automatic \in BOOLEAN /\ pkgdb[n].required_by \in SUBSET Name
  BY <1>7 DEF Directory
<1>11. CASE pkgdb' = pkgdb
  <2>1. DatabaseType'
    BY <1>7, <1>8, <1>11 DEF DatabaseType
  <2> HIDE DEF old, new
  <2>2. \A n \in Installed : pkgdb'[n] = pkgdb[n]
    BY <1>11
  <2> QED
    BY <1>1, <1>3, <1>8, <2>1, <2>2 DEF old, new
<1>12. CASE pkgdb' # pkgdb
  <2>1. /\ new # old
        /\ pkgdb' = [pkgdb EXCEPT ![new][file] = pkgdb[old][file],
                                  ![old][file] = EmptyDirectory[file]]
    BY <1>6, <1>12
  <2>2. /\ pkgdb'[new] = [pkgdb[new] EXCEPT ![file] = pkgdb[old][file]]
        /\ pkgdb'[old] = [pkgdb[old] EXCEPT ![file] = EmptyDirectory[file]]
        /\ \A n \in Installed : n # new /\ n # old => pkgdb'[n] = pkgdb[n]
    BY <1>3, <1>7, <2>1
  <2>3. pkgdb[old][file] # EmptyDirectory[file]
    BY <1>6, <1>12
  <2>7. file = "automatic" => pkgdb[old].automatic # FALSE
    BY <1>3, <1>9, <1>10, <2>3
  <2>4. CASE file = "preserve"
    <3> HIDE DEF old, new
    <3>1. /\ pkgdb'[new] = [pkgdb[new] EXCEPT !.preserve = pkgdb[old].preserve]
          /\ pkgdb'[old] = [pkgdb[old] EXCEPT !.preserve = FALSE]
          /\ pkgdb[old].preserve = TRUE
      BY <1>3, <1>9, <1>10, <2>2, <2>3, <2>4
    <3>2. /\ pkgdb'[new] \in Directory /\ pkgdb'[new].contents = pkgdb[new].contents
          /\ pkgdb'[new].automatic = pkgdb[new].automatic
          /\ pkgdb'[new].preserve = TRUE
      BY <1>3, <1>10, <3>1 DEF Directory
    <3>3. /\ pkgdb'[old] \in Directory /\ pkgdb'[old].contents = pkgdb[old].contents
          /\ pkgdb'[old].automatic = pkgdb[old].automatic
          /\ pkgdb'[old].preserve = FALSE
      BY <1>3, <1>10, <3>1 DEF Directory
    <3>4. \A n \in Installed :
            pkgdb'[n] \in Directory /\ pkgdb'[n].contents = pkgdb[n].contents
      BY <1>10, <2>2, <3>2, <3>3
    <3>5. pkgdb' = [n \in Installed |-> pkgdb'[n]]
      BY <1>7, <2>1
    <3>6. DatabaseType'
      BY <1>7, <1>8, <3>4, <3>5 DEF DatabaseType
    <3> QED
      BY <1>1, <1>3, <1>4, <1>8, <2>2, <2>7, <3>1, <3>2, <3>3, <3>4, <3>6 DEF old, new
  <2>5. CASE file = "automatic"
    <3> HIDE DEF old, new
    <3>1. /\ pkgdb'[new] = [pkgdb[new] EXCEPT !.automatic = pkgdb[old].automatic]
          /\ pkgdb'[old] = [pkgdb[old] EXCEPT !.automatic = FALSE]
          /\ pkgdb[old].automatic = TRUE
      BY <1>3, <1>9, <1>10, <2>2, <2>3, <2>5
    <3>2. /\ pkgdb'[new] \in Directory /\ pkgdb'[new].contents = pkgdb[new].contents
          /\ pkgdb'[new].preserve = pkgdb[new].preserve
          /\ pkgdb'[new].automatic = TRUE
      BY <1>3, <1>10, <3>1 DEF Directory
    <3>3. /\ pkgdb'[old] \in Directory /\ pkgdb'[old].contents = pkgdb[old].contents
          /\ pkgdb'[old].preserve = pkgdb[old].preserve
          /\ pkgdb'[old].automatic = FALSE
      BY <1>3, <1>10, <3>1 DEF Directory
    <3>4. \A n \in Installed :
            pkgdb'[n] \in Directory /\ pkgdb'[n].contents = pkgdb[n].contents
      BY <1>10, <2>2, <3>2, <3>3
    <3>5. pkgdb' = [n \in Installed |-> pkgdb'[n]]
      BY <1>7, <2>1
    <3>6. DatabaseType'
      BY <1>7, <1>8, <3>4, <3>5 DEF DatabaseType
    <3> QED
      BY <1>1, <1>3, <1>4, <1>8, <2>2, <2>7, <3>1, <3>2, <3>3, <3>4, <3>6 DEF old, new
  <2>6. CASE file = "required_by"
    <3> HIDE DEF old, new
    <3>1. /\ pkgdb'[new] = [pkgdb[new] EXCEPT !.required_by = pkgdb[old].required_by]
          /\ pkgdb'[old] = [pkgdb[old] EXCEPT !.required_by = {}]
      BY <1>3, <1>9, <1>10, <2>2, <2>3, <2>6
    <3>2. /\ pkgdb'[new] \in Directory /\ pkgdb'[new].contents = pkgdb[new].contents
          /\ pkgdb'[new].preserve = pkgdb[new].preserve
          /\ pkgdb'[new].automatic = pkgdb[new].automatic
      BY <1>3, <1>10, <3>1 DEF Directory
    <3>3. /\ pkgdb'[old] \in Directory /\ pkgdb'[old].contents = pkgdb[old].contents
          /\ pkgdb'[old].preserve = pkgdb[old].preserve
          /\ pkgdb'[old].automatic = pkgdb[old].automatic
      BY <1>3, <1>10, <3>1 DEF Directory
    <3>4. \A n \in Installed :
            pkgdb'[n] \in Directory /\ pkgdb'[n].contents = pkgdb[n].contents
      BY <1>10, <2>2, <3>2, <3>3
    <3>5. pkgdb' = [n \in Installed |-> pkgdb'[n]]
      BY <1>7, <2>1
    <3>6. DatabaseType'
      BY <1>7, <1>8, <3>4, <3>5 DEF DatabaseType
    <3> QED
      BY <1>1, <1>3, <1>4, <1>8, <2>2, <2>7, <3>1, <3>2, <3>3, <3>4, <3>6 DEF old, new
  <2> QED
    BY <1>5, <2>4, <2>5, <2>6
<1> QED
  BY <1>11, <1>12

LEMMA PreserveStruct ==
  ASSUME StructInv, PreserveMetaDataFile, ~GivesUp, UNCHANGED <<scenario, command>>
  PROVE  StructInv'
<1>1. /\ Adding /\ ~Deleting /\ task.pc = "preserve_meta_data_file"
      /\ task \in PkgTask /\ TaskOK(task) /\ task.preserve # << >>
      /\ Installed' = Installed /\ DatabaseType'
      /\ task.other_version \in Installed /\ task.install_logdir \in Installed
      /\ pkgdb'[task.install_logdir].contents = task.pkg
  BY PreserveEffect
<1>2. /\ UNCHANGED <<byfile, disk, deletion, trouble, faults, status>>
      /\ tasks' = <<[task EXCEPT !.preserve = Tail(@)]>> \o Tail(tasks)
  BY <1>1 DEF PreserveMetaDataFile, GivesUp
<1>9. StateType'
  BY <1>1, <1>2 DEF StructInv, TypeOK, StateType
<1>3. Tail(task.preserve) \in Seq({"required_by", "preserve", "automatic"})
  BY <1>1 DEF PkgTask
<1>4. PICK t : t = [task EXCEPT !.preserve = Tail(@)]
  OBVIOUS
<1>5. /\ t \in PkgTask /\ t.pc = task.pc /\ t.depends = task.depends
      /\ t.pkg = task.pkg /\ t.other_version = task.other_version
      /\ t.install_logdir = task.install_logdir
      /\ t.install_logdir_real = task.install_logdir_real /\ t.files = task.files
  BY <1>1, <1>3, <1>4 DEF PkgTask
<1>6. tasks' = <<t>> \o Tail(tasks)
  BY <1>2, <1>4
<1>7. TaskOK(t)
  BY <1>1, <1>5 DEF TaskOK
<1>8. DirOK(t)'
  BY <1>1, <1>5 DEF DirOK
<1> QED
  BY <1>1, <1>2, <1>5, <1>6, <1>7, <1>8, <1>9, AddPut

LEMMA StartDeleteEffect ==
  ASSUME TypeOK, NEW pkgs \in SUBSET Name, NEW opts \in SUBSET Options, StartDelete(pkgs, opts)
  PROVE  /\ deletion' \in Deletion
         /\ \/ deletion' = NoDeletion
            \/ \E list \in Lists(pkgs, opts) :
                 /\ deletion' = [NoDeletion EXCEPT !.pc = "next", !.opts = opts, !.list = list]
                 /\ deletion'.pc = "next" /\ deletion'.opts = opts /\ deletion'.list = list
         /\ deletion'.pc \in {"none", "next"}
         /\ deletion'.pc = "none" => deletion'.list = << >>
         /\ deletion'.pc = "none" => deletion' = NoDeletion
<1>1. NoDeletion \in Deletion /\ NoDeletion.pc = "none" /\ NoDeletion.list = << >>
  BY EmptySeq DEF NoDeletion, Deletion
<1>2. CASE deletion' = NoDeletion
  BY <1>1, <1>2
<1>3. ASSUME NEW list \in Lists(pkgs, opts),
             deletion' = [NoDeletion EXCEPT !.pc = "next", !.opts = opts, !.list = list]
      PROVE  /\ deletion' \in Deletion
             /\ deletion'.pc = "next" /\ deletion'.opts = opts /\ deletion'.list = list
  <2>1. list \in Seq(Name)
    BY ListsType DEF TypeOK, StateType
  <2> QED
    BY <1>1, <1>3, <2>1 DEF Deletion
<1> QED
  BY <1>2, <1>3 DEF StartDelete

LEMMA DeleteOtherStruct ==
  ASSUME StructInv, DeleteOther, UNCHANGED <<scenario, command>>
  PROVE  StructInv'
<1>1. /\ Adding /\ ~Deleting /\ task.pc = "preserve_meta_data_file" /\ task \in PkgTask
      /\ TaskOK(task) /\ UNCHANGED <<pkgdb, byfile, disk, faults, trouble, status>>
      /\ Goto("rename") /\ StartDelete({task.other_version}, {})
  BY TheTask DEF DeleteOther, At, StructInv, database
<1>2. DirOK(task) /\ task.other_version # NULL
  BY <1>1 DEF StructInv, Running, TaskOK
<1>3. task.other_version \in Name
  BY <1>1, <1>2 DEF PkgTask
<1>4. PICK other : other = task.other_version
  OBVIOUS
<1>5. PICK opts : opts = {}
  OBVIOUS
<1>6. /\ deletion' \in Deletion
      /\ \/ deletion' = NoDeletion
         \/ \E list \in Lists({other}, opts) :
              /\ deletion' = [NoDeletion EXCEPT !.pc = "next", !.opts = opts, !.list = list]
              /\ deletion'.pc = "next" /\ deletion'.opts = opts /\ deletion'.list = list
      /\ deletion'.pc \in {"none", "next"}
      /\ deletion'.pc = "none" => deletion'.list = << >>
  <2>1. {other} \in SUBSET Name /\ opts \in SUBSET Options
    BY <1>3, <1>4, <1>5
  <2>2. StartDelete({other}, opts)
    BY <1>1, <1>4, <1>5
  <2>3. TypeOK
    BY DEF StructInv
  <2> QED
    BY <2>1, <2>2, <2>3, StartDeleteEffect
<1>7. PICK t \in PkgTask : t = [task EXCEPT !.pc = "rename"] /\ t.pc = "rename" /\ Alike(t, task)
  BY <1>1, NextPlace DEF Place
<1>8. tasks' = <<t>> \o Tail(tasks)
  BY <1>1, <1>7 DEF Goto
<1>9. TaskOK(t)
  BY <1>1, <1>7 DEF TaskOK, Alike
<1>10. DirOK(t)'
  BY <1>1, <1>2, <1>7 DEF DirOK, Alike, Installed
<1>11. tasks' \in Seq(PkgTask) /\ Adding' /\ task' = t
  BY <1>1, <1>7, <1>8, Put DEF StructInv
<1>12. StateType'
  BY <1>1 DEF StructInv, TypeOK, StateType, DatabaseType, Installed
<1>13. TypeOK'
  BY <1>6, <1>11, <1>12 DEF StructInv, TypeOK
<1>14. Stack'
  BY <1>1, <1>7, <1>8, <1>9, StackPut DEF StructInv, Alike
<1>15. /\ deletion'.pc # "none" => deletion'.opts = {}
       /\ ToSet(deletion'.list) \subseteq {other}
       /\ \A n \in ToSet(deletion'.list) \cap Installed : ~pkgdb[n].preserve
  <2>1. CASE deletion'.pc = "none"
    BY <1>6, <2>1, ToSetEmpty
  <2>2. CASE deletion'.pc # "none"
    <3>1. PICK list \in Lists({other}, opts) : deletion'.opts = opts /\ deletion'.list = list
      <4>1. NoDeletion.pc = "none"
        BY DEF NoDeletion
      <4> QED
        BY <1>6, <2>2, <4>1
    <3>2. DatabaseType /\ {other} \in SUBSET Name
      BY <1>3, <1>4 DEF StructInv, TypeOK, StateType
    <3>3. /\ "ff" \notin opts => \A n \in ToSet(list) \cap Installed : ~pkgdb[n].preserve
          /\ \A n \in ToSet(list) :
               \/ n \in {other}
               \/ "r" \in opts /\ n \in with_dependents({other})
               \/ n \in Installed /\ ("R" \notin opts => pkgdb[n].automatic)
                  /\ {"R", "A"} \cap opts # {}
      BY <3>2, ListsType
    <3> QED
      BY <1>5, <3>1, <3>3
  <2> QED
    BY <2>1, <2>2
<1>16. Running'
  <2>1. DirOK(task)'
    BY <1>10, <1>11 DEF DirOK
  <2>2. task'.pc = "rename" /\ task'.other_version = other
    BY <1>4, <1>7, <1>11 DEF Alike
  <2>3. command'.name = "pkg_add"
    BY <1>1 DEF StructInv, Running
  <2> QED
    BY <1>6, <1>11, <1>15, <2>1, <2>2, <2>3 DEF Running, Deleting
<1>17. NotPreserved'
  BY <1>1, <1>15 DEF NotPreserved, Installed
<1> QED
  BY <1>13, <1>14, <1>16, <1>17 DEF StructInv

(* What RenameDirectory does.                                              *)
LEMMA RenameEffect ==
  ASSUME StructInv, RenameDirectory
  PROVE  /\ Adding /\ ~Deleting /\ task.pc = "rename" /\ task \in PkgTask /\ TaskOK(task)
         /\ task.other_version # NULL
         /\ DatabaseType'
         /\ \/ /\ pkgdb' = pkgdb
               /\ task.install_logdir_real = NULL \/ task.install_logdir_real \in Installed
            \/ /\ task.install_logdir_real = task.pkg
               /\ task.pkg \in Installed =>
                    /\ pkgdb[task.pkg] = EmptyDirectory
                    /\ trouble' = trouble \cup {"lines", "tree", "files", "update"}
               /\ task.install_logdir \in Installed /\ task.install_logdir = Temporary(task.pkg)
               /\ task.install_logdir # task.pkg
               /\ pkgdb[task.install_logdir].contents = task.pkg
               /\ Installed' = (Installed \ {task.install_logdir}) \cup {task.pkg}
               /\ pkgdb'[task.pkg] = pkgdb[task.install_logdir]
               /\ \A n \in Installed \ {task.install_logdir, task.pkg} : pkgdb'[n] = pkgdb[n]
<1>1. /\ Adding /\ ~Deleting /\ task.pc = "rename" /\ task \in PkgTask /\ TaskOK(task)
  BY TheTask DEF RenameDirectory, At, StructInv
<1>2. DirOK(task) /\ task.other_version # NULL
  BY <1>1 DEF StructInv, Running, TaskOK
<1>3. DatabaseType
  BY DEF StructInv, TypeOK, StateType
<1> DEFINE real == task.install_logdir_real
           new == task.install_logdir
<1>4. CASE real = NULL \/ (real \in Installed /\ pkgdb[real] # EmptyDirectory)
  <2>1. pkgdb' = pkgdb
    BY <1>4 DEF RenameDirectory
  <2> QED
    BY <1>1, <1>2, <1>3, <1>4, <2>1 DEF DatabaseType, Installed
<1>5. CASE ~(real = NULL \/ (real \in Installed /\ pkgdb[real] # EmptyDirectory))
  <2>1. /\ real = task.pkg /\ new = Temporary(task.pkg) /\ new \in Installed
        /\ pkgdb[new].contents = task.pkg /\ task.pkg \in Pkg
    BY <1>1, <1>2, <1>5 DEF TaskOK, DirOK, PkgTask
  <2>2. new # task.pkg /\ task.pkg \in Name
    BY <2>1, PkgAssumption DEF Name
  <2>3. pkgdb' = [n \in (Installed \ {new}) \cup {real} |->
                    IF n = real THEN pkgdb[new] ELSE pkgdb[n]]
    BY <1>5 DEF RenameDirectory
  <2>6. task.pkg \in Installed =>
          /\ pkgdb[task.pkg] = EmptyDirectory
          /\ trouble' = trouble \cup {"lines", "tree", "files", "update"}
    <3>1. task.other_version = task.pkg
      BY <1>1, <1>5 DEF TaskOK
    <3> QED
      BY <1>5, <2>1, <2>2, <3>1 DEF RenameDirectory
  <2> HIDE DEF new, real
  <2>4. /\ Installed' = (Installed \ {new}) \cup {task.pkg}
        /\ pkgdb'[task.pkg] = pkgdb[new]
        /\ \A n \in Installed \ {new, task.pkg} : pkgdb'[n] = pkgdb[n]
    BY <1>5, <2>1, <2>3 DEF Installed
  <2>5. DatabaseType'
    BY <1>3, <2>1, <2>2, <2>3, <2>4 DEF DatabaseType
  <2> QED
    BY <1>1, <1>2, <1>5, <2>1, <2>2, <2>4, <2>5, <2>6 DEF new, real
<1> QED
  BY <1>4, <1>5

LEMMA RenamedTask ==
  ASSUME StructInv, RenameDirectory
  PROVE  \E t \in PkgTask :
           /\ tasks' = <<t>> \o Tail(tasks)
           /\ t.pc = "depends" /\ t.depends = task.depends /\ t.pkg = task.pkg
           /\ t.other_version = task.other_version /\ t.install_logdir = task.pkg
           /\ t.install_logdir_real = NULL /\ t.files = task.files
           /\ t.mark_automatic = task.mark_automatic
<1>1. task \in PkgTask /\ TaskOK(task)
  BY RenameEffect
<1>2. PICK t : t = [task EXCEPT !.pc = "depends",
                                !.install_logdir = IF task.install_logdir_real = NULL THEN @
                                                   ELSE task.install_logdir_real,
                                !.install_logdir_real = NULL]
  OBVIOUS
<1>3. tasks' = <<t>> \o Tail(tasks)
  BY <1>2 DEF RenameDirectory
<1>4. /\ task.install_logdir_real = NULL => task.install_logdir = task.pkg
      /\ task.install_logdir_real # NULL => task.install_logdir_real = task.pkg
      /\ task.pkg \in Name
  BY <1>1 DEF TaskOK, PkgTask, Name
<1>5. /\ t.pc = "depends" /\ t.depends = task.depends /\ t.pkg = task.pkg
      /\ t.other_version = task.other_version /\ t.install_logdir = task.pkg
      /\ t.install_logdir_real = NULL /\ t.files = task.files
      /\ t.mark_automatic = task.mark_automatic
  BY <1>1, <1>2, <1>4 DEF PkgTask
<1>6. t \in PkgTask
  BY <1>1, <1>2, <1>4 DEF PkgTask, Place
<1> QED
  BY <1>3, <1>5, <1>6

LEMMA RenameStruct ==
  ASSUME StructInv, RenameDirectory, UNCHANGED <<scenario, command>>
  PROVE  StructInv'
<1>1. /\ Adding /\ ~Deleting /\ task.pc = "rename" /\ task \in PkgTask /\ TaskOK(task)
      /\ task.other_version # NULL /\ DatabaseType'
      /\ UNCHANGED <<byfile, disk, deletion, faults, status>>
  BY RenameEffect DEF RenameDirectory
<1>2. StateType'
  BY <1>1 DEF RenameDirectory, StructInv, TypeOK, StateType
<1>3. PICK t \in PkgTask :
           /\ tasks' = <<t>> \o Tail(tasks)
           /\ t.pc = "depends" /\ t.depends = task.depends /\ t.pkg = task.pkg
           /\ t.other_version = task.other_version /\ t.install_logdir = task.pkg
           /\ t.install_logdir_real = NULL /\ t.files = task.files
  BY RenamedTask
<1>4. TaskOK(t)
  BY <1>1, <1>3 DEF TaskOK
<1>5. DirOK(t)'
  BY <1>3 DEF DirOK
<1> QED
  BY <1>1, <1>2, <1>3, <1>4, <1>5, AddPut

LEMMA PreInstallStruct ==
  ASSUME StructInv, PreInstall, UNCHANGED <<scenario, command>>
  PROVE  StructInv'
<1>1. /\ Adding /\ ~Deleting /\ task.pc = "pre_install" /\ task \in PkgTask /\ TaskOK(task)
      /\ UNCHANGED <<pkgdb, byfile, disk, deletion, status>>
      /\ trouble' \subseteq trouble \cup {"lines", "files", "update"}
      /\ faults' \in Nat
      /\ Goto("extract_files") \/ Goto("nuke_pkgdb")
  BY TheTask, FaultType DEF PreInstall, unrecorded, At, StructInv, database, TypeOK, StateType
<1>2. StateType'
  BY <1>1 DEF StructInv, TypeOK, StateType, DatabaseType, Installed
<1>3. task.install_logdir_real = NULL
  BY <1>1 DEF TaskOK
<1>4. UNCHANGED <<scenario, command, deletion>>
  BY <1>1
<1>5. CASE Goto("extract_files")
  BY <1>1, <1>2, <1>3, <1>4, <1>5, GotoStruct DEF Place
<1>6. CASE Goto("nuke_pkgdb")
  BY <1>1, <1>2, <1>3, <1>4, <1>6, GotoStruct DEF Place
<1> QED
  BY <1>1, <1>5, <1>6

LEMMA ExtractFileStruct ==
  ASSUME StructInv, ExtractFile, UNCHANGED <<scenario, command>>
  PROVE  StructInv'
<1>1. /\ Adding /\ ~Deleting /\ task.pc = "extract_files" /\ task \in PkgTask /\ TaskOK(task)
      /\ task.files # << >>
      /\ UNCHANGED <<pkgdb, deletion, trouble, status>>
      /\ faults' \in Nat
  BY TheTask, FaultType DEF ExtractFile, At, StructInv, TypeOK, StateType
<1>2. task.pkg \in Pkg /\ Head(task.files) \in File
  BY <1>1 DEF PkgTask
<1>3. byfile' \in [File -> Pkg \cup {NULL}] /\ disk' \in [File -> Pkg \cup {NULL}]
  BY <1>2 DEF ExtractFile, pkgdb_store, StructInv, TypeOK, StateType
<1>4. StateType'
  BY <1>1, <1>3 DEF StructInv, TypeOK, StateType, DatabaseType, Installed
<1>5. CASE tasks' = <<[task EXCEPT !.files = Tail(@)]>> \o Tail(tasks)
  <2>1. Tail(task.files) \in Seq(File) /\ ToSet(Tail(task.files)) \subseteq ToSet(task.files)
    BY <1>1, ToSetSeq DEF PkgTask
  <2>2. PICK t : t = [task EXCEPT !.files = Tail(@)]
    OBVIOUS
  <2>3. /\ t \in PkgTask /\ t.pc = task.pc /\ t.depends = task.depends
        /\ t.pkg = task.pkg /\ t.other_version = task.other_version
        /\ t.install_logdir = task.install_logdir
        /\ t.install_logdir_real = task.install_logdir_real /\ t.files = Tail(task.files)
    BY <1>1, <2>1, <2>2 DEF PkgTask
  <2>4. TaskOK(t)
    BY <1>1, <2>1, <2>3 DEF TaskOK
  <2>5. DirOK(t)'
    BY <1>1, <2>3 DEF DirOK
  <2> QED
    BY <1>1, <1>4, <1>5, <2>2, <2>3, <2>4, <2>5, AddPut
<1>6. CASE tasks' = <<[task EXCEPT !.pc = "nuke_pkg", !.files = Plist[task.pkg].files]>>
                    \o Tail(tasks)
  <2>1. Plist[task.pkg].files \in Seq(File)
    BY <1>2, Plists
  <2>2. PICK t : t = [task EXCEPT !.pc = "nuke_pkg", !.files = Plist[task.pkg].files]
    OBVIOUS
  <2>3. /\ t \in PkgTask /\ t.pc = "nuke_pkg" /\ t.depends = task.depends
        /\ t.pkg = task.pkg /\ t.other_version = task.other_version
        /\ t.install_logdir = task.install_logdir
        /\ t.install_logdir_real = task.install_logdir_real /\ t.files = Plist[task.pkg].files
    BY <1>1, <2>1, <2>2 DEF PkgTask, Place
  <2>4. TaskOK(t)
    BY <1>1, <2>1, <2>3 DEF TaskOK
  <2>5. DirOK(t)'
    BY <1>1, <2>3 DEF DirOK
  <2> QED
    BY <1>1, <1>4, <1>6, <2>2, <2>3, <2>4, <2>5, AddPut
<1> QED
  BY <1>5, <1>6 DEF ExtractFile

LEMMA PostInstallStruct ==
  ASSUME StructInv, PostInstall, UNCHANGED <<scenario, command>>
  PROVE  StructInv'
<1>1. /\ Adding /\ ~Deleting /\ task.pc = "extract_files" /\ task \in PkgTask /\ TaskOK(task)
      /\ UNCHANGED <<pkgdb, byfile, disk, deletion, status>>
      /\ faults' \in Nat
      /\ Goto("mark_automatic") \/ Goto("nuke_pkgdb")
      /\ trouble' \subseteq {"lines", "tree", "files", "update"}
  BY TheTask, FaultType DEF PostInstall, At, StructInv, database, TypeOK, StateType
<1>2. StateType'
  BY <1>1 DEF StructInv, TypeOK, StateType, DatabaseType, Installed
<1>3. task.install_logdir_real = NULL
  BY <1>1 DEF TaskOK
<1>4. UNCHANGED <<scenario, command, deletion>>
  BY <1>1
<1>5. CASE Goto("mark_automatic")
  BY <1>1, <1>2, <1>3, <1>4, <1>5, GotoStruct DEF Place
<1>6. CASE Goto("nuke_pkgdb")
  BY <1>1, <1>2, <1>3, <1>4, <1>6, GotoStruct DEF Place
<1> QED
  BY <1>1, <1>5, <1>6

LEMMA MarkAutomaticStruct ==
  ASSUME StructInv, MarkAutomatic, UNCHANGED <<scenario, command>>
  PROVE  StructInv'
<1>1. /\ Adding /\ ~Deleting /\ task.pc = "mark_automatic" /\ task \in PkgTask /\ TaskOK(task)
      /\ UNCHANGED <<byfile, disk, deletion, trouble, faults, status>>
      /\ Goto("pkg_register_depends")
  BY TheTask DEF MarkAutomatic, At, StructInv
<1>2. DatabaseType'
  <2>1. DatabaseType
    BY DEF StructInv, TypeOK, StateType
  <2>2. CASE pkgdb' = pkgdb
    BY <2>1, <2>2 DEF DatabaseType, Installed
  <2>3. CASE pkgdb' = [pkgdb EXCEPT ![task.pkg].automatic = TRUE]
    BY <2>1, <2>3 DEF DatabaseType, Installed, Directory
  <2> QED
    BY <2>2, <2>3 DEF MarkAutomatic
<1>3. StateType'
  BY <1>1, <1>2 DEF StructInv, TypeOK, StateType
<1>4. task.install_logdir_real = NULL
  BY <1>1 DEF TaskOK
<1> QED
  BY <1>1, <1>3, <1>4, GotoStruct DEF Place

LEMMA RegisterDependStruct ==
  ASSUME StructInv, RegisterDepend, UNCHANGED <<scenario, command>>
  PROVE  StructInv'
<1>1. /\ Adding /\ ~Deleting /\ task.pc = "pkg_register_depends" /\ task \in PkgTask
      /\ TaskOK(task) /\ task.dependencies # << >>
      /\ UNCHANGED <<byfile, disk, deletion, trouble, faults, status>>
  BY TheTask DEF RegisterDepend, At, StructInv
<1>2. PICK n : n = Head(task.dependencies)
  OBVIOUS
<1>3. DatabaseType'
  <2>1. DatabaseType /\ task.pkg \in Name
    BY <1>1 DEF StructInv, TypeOK, StateType, PkgTask, Name
  <2>2. CASE pkgdb' = pkgdb
    BY <2>1, <2>2 DEF DatabaseType, Installed
  <2>3. CASE n \in Installed /\ pkgdb' = [pkgdb EXCEPT ![n].required_by = @ \cup {task.pkg}]
    BY <2>1, <2>3 DEF DatabaseType, Installed, Directory
  <2> QED
    BY <1>2, <2>2, <2>3 DEF RegisterDepend
<1>4. StateType'
  BY <1>1, <1>3 DEF StructInv, TypeOK, StateType
<1>5. Tail(task.dependencies) \in Seq(Name)
  BY <1>1 DEF PkgTask
<1>6. PICK t : t = [task EXCEPT !.dependencies = Tail(@)]
  OBVIOUS
<1>7. /\ t \in PkgTask /\ t.pc = task.pc /\ t.depends = task.depends
      /\ t.pkg = task.pkg /\ t.other_version = task.other_version
      /\ t.install_logdir = task.install_logdir
      /\ t.install_logdir_real = task.install_logdir_real /\ t.files = task.files
  BY <1>1, <1>5, <1>6 DEF PkgTask
<1>8. tasks' = <<t>> \o Tail(tasks)
  BY <1>6 DEF RegisterDepend
<1>9. TaskOK(t)
  BY <1>1, <1>7 DEF TaskOK
<1>10. DirOK(t)'
  BY <1>1, <1>7 DEF DirOK
<1> QED
  BY <1>1, <1>4, <1>7, <1>8, <1>9, <1>10, AddPut

LEMMA RegisteredStruct ==
  ASSUME StructInv, Registered, UNCHANGED <<scenario, command>>
  PROVE  StructInv'
<1>1. /\ Adding /\ ~Deleting /\ tasks' = Tail(tasks) /\ status' = "ok"
      /\ UNCHANGED <<pkgdb, byfile, disk, deletion, trouble, faults>>
  BY DEF Registered, At, Return, database
<1>2. StateType'
  BY <1>1 DEF StructInv, TypeOK, StateType, DatabaseType, Installed
<1> QED
  BY <1>1, <1>2, AddPop

LEMMA NukePkgStruct ==
  ASSUME StructInv, NukePkg, UNCHANGED <<scenario, command>>
  PROVE  StructInv'
<1>1. /\ Adding /\ ~Deleting /\ task.pc = "nuke_pkg" /\ task \in PkgTask /\ TaskOK(task)
      /\ task.files # << >>
      /\ UNCHANGED <<pkgdb, deletion, trouble, faults, status>>
  BY TheTask DEF NukePkg, At, StructInv
<1>2. byfile' \in [File -> Pkg \cup {NULL}] /\ disk' \in [File -> Pkg \cup {NULL}]
  BY DEF NukePkg, delete_file, StructInv, TypeOK, StateType
<1>3. StateType'
  BY <1>1, <1>2 DEF StructInv, TypeOK, StateType, DatabaseType, Installed
<1>4. Tail(task.files) \in Seq(File) /\ ToSet(Tail(task.files)) \subseteq ToSet(task.files)
  BY <1>1, ToSetSeq DEF PkgTask
<1>5. PICK t : t = [task EXCEPT !.files = Tail(@)]
  OBVIOUS
<1>6. /\ t \in PkgTask /\ t.pc = task.pc /\ t.depends = task.depends
      /\ t.pkg = task.pkg /\ t.other_version = task.other_version
      /\ t.install_logdir = task.install_logdir
      /\ t.install_logdir_real = task.install_logdir_real /\ t.files = Tail(task.files)
  BY <1>1, <1>4, <1>5 DEF PkgTask
<1>7. tasks' = <<t>> \o Tail(tasks)
  BY <1>5 DEF NukePkg
<1>8. TaskOK(t)
  BY <1>1, <1>4, <1>6 DEF TaskOK
<1>9. DirOK(t)'
  BY <1>1, <1>6 DEF DirOK
<1> QED
  BY <1>1, <1>3, <1>6, <1>7, <1>8, <1>9, AddPut

LEMMA RemoveDirectoryType ==
  ASSUME DatabaseType, NEW n, pkgdb' = remove_directory(n)
  PROVE  /\ DatabaseType' /\ Installed' = Installed \ {n}
         /\ \A m \in Installed \ {n} : pkgdb'[m] = pkgdb[m]
BY DEF DatabaseType, remove_directory, Installed

LEMMA NukePkgdbStruct ==
  ASSUME StructInv, NukePkgdb, UNCHANGED <<scenario, command>>
  PROVE  StructInv'
<1>1. /\ Adding /\ ~Deleting /\ tasks' = Tail(tasks) /\ status' = "fail"
      /\ UNCHANGED <<byfile, disk, deletion, faults>>
      /\ pkgdb' = remove_directory(task.install_logdir)
      /\ trouble' \in {trouble, trouble \cup {"tree", "update"}}
  BY DEF NukePkgdb, At, Return
<1>2. DatabaseType'
  <2>1. PICK n : n = task.install_logdir
    OBVIOUS
  <2> QED
    BY <1>1, <2>1, RemoveDirectoryType DEF StructInv, TypeOK, StateType
<1>3. StateType'
  BY <1>1, <1>2 DEF StructInv, TypeOK, StateType
<1> QED
  BY <1>1, <1>3, AddPop

LEMMA AddStepStruct ==
  ASSUME StructInv, AddStep, UNCHANGED <<scenario, command>>
  PROVE  StructInv'
BY CheckAlreadyInstalledStruct, CheckStruct, CheckDependencyStruct, DependencyInstalledStruct,
   DependenciesDoneStruct, GivesUpStruct, MkdirStruct, WriteMetaDataStruct, PreserveStruct, DeleteOtherStruct,
   RenameStruct, PreInstallStruct, ExtractFileStruct, PostInstallStruct, MarkAutomaticStruct,
   RegisterDependStruct, RegisteredStruct, NukePkgStruct, NukePkgdbStruct DEF AddStep

(* Steps of pkg_delete, by itself or as a child.                           *)
LEMMA Deletes ==
  ASSUME StructInv, Deleting, UNCHANGED <<scenario, command, tasks>>, StateType',
         deletion' \in Deletion,
         Adding /\ task.install_logdir_real # NULL =>
           task.install_logdir \in Installed' /\ pkgdb'[task.install_logdir].contents = task.pkg,
         deletion'.pc # "none" => deletion'.opts = deletion.opts,
         ToSet(deletion'.list) \subseteq ToSet(deletion.list),
         deletion'.pc = "none" => deletion'.list = << >>,
         deletion'.pc \in {"remove", "rmdir"} => deletion'.list # << >> /\ this' \in Installed',
         deletion'.pc = "remove" => /\ pkgdb'[this'].contents # NULL
                                    /\ ToSet(deletion'.files) \subseteq ToSet(plist(this)'.files),
         deletion'.pc = "rmdir" => pkgdb'[this'].contents = NULL,
         Installed' \subseteq Installed,
         \A n \in Installed' : pkgdb'[n].preserve => pkgdb[n].preserve
  PROVE  StructInv'
<1>1. TypeOK'
  BY DEF StructInv, TypeOK
<1>2. Stack'
  BY DEF StructInv, Stack, TaskOK
<1>3. Adding => task.pc = "rename" /\ deletion.opts = {}
                /\ ToSet(deletion.list) \subseteq {task.other_version} /\ command.name = "pkg_add"
  BY DEF StructInv, Running
<1>4. Adding' = Adding /\ task' = task
  BY DEF Adding, task
<1>5. Adding => DirOK(task)'
  BY <1>3, <1>4 DEF DirOK
<1>6. ~Adding => command.name = "pkg_delete" /\ deletion.opts = command.opts
  BY DEF StructInv, Running
<1>7. Running'
  BY <1>3, <1>4, <1>5, <1>6 DEF Running, Deleting, DirOK
<1>8. NotPreserved'
  <2>1. CASE deletion'.pc = "none"
    BY <2>1, ToSetEmpty DEF NotPreserved
  <2>2. CASE deletion'.pc # "none"
    BY <2>2 DEF NotPreserved, StructInv
  <2> QED
    BY <2>1, <2>2
<1> QED
  BY <1>1, <1>2, <1>7, <1>8 DEF StructInv

(* What is removed is never the directory that is being filled.            *)
LEMMA NotTheNewOne ==
  ASSUME StructInv, Deleting, deletion.list # << >>
  PROVE  /\ deletion.list \in Seq(Name) /\ this \in ToSet(deletion.list) /\ this \in Name
         /\ Tail(deletion.list) \in Seq(Name)
         /\ ToSet(deletion.list) = {this} \cup ToSet(Tail(deletion.list))
         /\ \A failed \in BOOLEAN : /\ remaining(failed) \in Seq(Name)
                                    /\ ToSet(remaining(failed)) \subseteq ToSet(deletion.list)
         /\ Adding /\ task.install_logdir_real # NULL =>
              /\ task.install_logdir \in Installed /\ task.install_logdir # this
              /\ pkgdb[task.install_logdir].contents = task.pkg
<1>1. deletion.list \in Seq(Name)
  BY DEF StructInv, TypeOK, Deletion
<1>2. /\ this \in ToSet(deletion.list) /\ this \in Name
      /\ Tail(deletion.list) \in Seq(Name)
      /\ ToSet(deletion.list) = {this} \cup ToSet(Tail(deletion.list))
  BY <1>1, ToSetSeq DEF this
<1>3. \A failed \in BOOLEAN : /\ remaining(failed) \in Seq(Name)
                              /\ ToSet(remaining(failed)) \subseteq ToSet(deletion.list)
  BY <1>2, ToSetEmpty, EmptySeq DEF remaining
<1>4. ASSUME Adding, task.install_logdir_real # NULL
      PROVE  /\ task.install_logdir \in Installed /\ task.install_logdir # this
             /\ pkgdb[task.install_logdir].contents = task.pkg
  <2>1. task.pc = "rename" /\ this = task.other_version /\ DirOK(task) /\ TaskOK(task)
        /\ task \in PkgTask
    BY <1>2, <1>4, TheTask DEF StructInv, Running
  <2>2. task.pkg \in Pkg /\ Temporary(task.pkg) \notin Pkg
    BY <2>1, PkgAssumption DEF PkgTask
  <2> QED
    BY <1>4, <2>1, <2>2 DEF TaskOK, DirOK
<1> QED
  BY <1>1, <1>2, <1>3, <1>4

LEMMA DeinstallStruct ==
  ASSUME StructInv, Deinstall, UNCHANGED <<scenario, command, tasks, status>>
  PROVE  StructInv'
<1>1. /\ Deleting /\ deletion.pc = "next" /\ deletion.list # << >> /\ deletion \in Deletion
      /\ UNCHANGED <<pkgdb, byfile, disk, trouble>> /\ faults' \in Nat
  BY FaultType DEF Deinstall, Deleting, database, StructInv, TypeOK, StateType
<1>2. StateType' /\ Installed' = Installed
  BY <1>1 DEF StructInv, TypeOK, StateType, DatabaseType, Installed
<1>3. CASE this \in Complete /\ deletion' = [deletion EXCEPT !.pc = "remove",
                                        !.files = plist(this).files,
                                        !.depends = plist(this).depends]
  <2>1. pkgdb[this].contents \in Pkg /\ this \in Installed
    BY <1>3 DEF Complete, StructInv, TypeOK, StateType, DatabaseType, Directory
  <2>2. PICK files \in Seq(File) : files = plist(this).files
    BY <2>1, Plists DEF plist
  <2>3. PICK depends \in Seq(Pattern) : depends = plist(this).depends
    BY <2>1, Plists DEF plist
  <2>4. deletion' = [deletion EXCEPT !.pc = "remove", !.files = files, !.depends = depends]
    BY <1>3, <2>2, <2>3
  <2>5. /\ deletion' \in Deletion /\ deletion'.pc = "remove" /\ deletion'.opts = deletion.opts
        /\ deletion'.list = deletion.list /\ deletion'.files = files
    BY <1>1, <2>2, <2>3, <2>4 DEF Deletion
  <2>6. this' = this /\ plist(this)' = plist(this)
    BY <1>1, <2>5 DEF this, plist
  <2>7. pkgdb[this].contents # NULL
    BY <1>3 DEF Complete
  <2> QED
    BY <1>1, <1>2, <2>1, <2>2, <2>5, <2>6, <2>7, NotTheNewOne, Deletes
<1>4. CASE deletion' = [deletion EXCEPT !.list = remaining(TRUE)]
  <2>1. PICK list \in Seq(Name) : list = remaining(TRUE) /\ ToSet(list) \subseteq ToSet(deletion.list)
    BY <1>1, NotTheNewOne
  <2>2. deletion' = [deletion EXCEPT !.list = list]
    BY <1>4, <2>1
  <2>3. /\ deletion' \in Deletion /\ deletion'.pc = "next" /\ deletion'.opts = deletion.opts
        /\ deletion'.list = list
    BY <1>1, <2>1, <2>2 DEF Deletion
  <2> QED
    BY <1>1, <1>2, <2>1, <2>3, NotTheNewOne, Deletes
<1> QED
  BY <1>3, <1>4 DEF Deinstall

LEMMA DeleteFileStruct ==
  ASSUME StructInv, DeleteFile, UNCHANGED <<scenario, command, tasks, status>>
  PROVE  StructInv'
<1>1. /\ Deleting /\ deletion.pc = "remove" /\ deletion.files # << >> /\ deletion \in Deletion
      /\ UNCHANGED <<pkgdb, trouble, faults>>
      /\ deletion.list # << >> /\ this \in Installed /\ pkgdb[this].contents # NULL
      /\ ToSet(deletion.files) \subseteq ToSet(plist(this).files)
  BY DEF DeleteFile, Deleting, StructInv, TypeOK, Running
<1>2. byfile' \in [File -> Pkg \cup {NULL}] /\ disk' \in [File -> Pkg \cup {NULL}]
  BY DEF DeleteFile, delete_file, StructInv, TypeOK, StateType
<1>3. StateType' /\ Installed' = Installed
  BY <1>1, <1>2 DEF StructInv, TypeOK, StateType, DatabaseType, Installed
<1>4. PICK files \in Seq(File) : files = Tail(deletion.files)
                                 /\ ToSet(files) \subseteq ToSet(deletion.files)
  <2>1. deletion.files \in Seq(File)
    BY <1>1 DEF Deletion
  <2> QED
    BY <1>1, <2>1, ToSetSeq
<1>5. deletion' = [deletion EXCEPT !.files = files]
  BY <1>4 DEF DeleteFile
<1>6. /\ deletion' \in Deletion /\ deletion'.pc = "remove" /\ deletion'.opts = deletion.opts
      /\ deletion'.list = deletion.list /\ deletion'.files = files
  BY <1>1, <1>4, <1>5 DEF Deletion
<1>7. this' = this /\ plist(this)' = plist(this)
  BY <1>1, <1>6 DEF this, plist
<1> QED
  BY <1>1, <1>3, <1>4, <1>6, <1>7, NotTheNewOne, Deletes

(* remove_depend touches +REQUIRED_BY only.                                *)
LEMMA WithoutLine ==
  ASSUME DatabaseType, NEW q, NEW n, pkgdb' = without_line(q, n)
  PROVE  /\ DatabaseType' /\ Installed' = Installed
         /\ \A m \in Installed : /\ pkgdb'[m].contents = pkgdb[m].contents
                                 /\ pkgdb'[m].preserve = pkgdb[m].preserve
                                 /\ pkgdb'[m].automatic = pkgdb[m].automatic
                                 /\ lines(m)' \subseteq lines(m)
                                 /\ lines(m) \ lines(m)' \subseteq {n}
<1>1. Installed' = Installed
  BY DEF without_line, Installed
<1>2. ASSUME NEW m \in Installed
      PROVE  /\ pkgdb'[m] \in Directory
             /\ pkgdb'[m].contents = pkgdb[m].contents
             /\ pkgdb'[m].preserve = pkgdb[m].preserve
             /\ pkgdb'[m].automatic = pkgdb[m].automatic
             /\ lines(m)' \subseteq lines(m)
             /\ lines(m) \ lines(m)' \subseteq {n}
  <2>1. pkgdb[m] \in Directory
    BY DEF DatabaseType
  <2>2. \/ pkgdb'[m] = [pkgdb[m] EXCEPT !.required_by = @ \ {n}]
        \/ pkgdb'[m] = pkgdb[m]
    BY DEF without_line
  <2>3. CASE pkgdb'[m] = pkgdb[m]
    BY <2>1, <2>3 DEF lines
  <2>4. CASE pkgdb'[m] = [pkgdb[m] EXCEPT !.required_by = @ \ {n}]
    BY <2>1, <2>4 DEF lines, Directory
  <2> QED
    BY <2>2, <2>3, <2>4
<1>3. pkgdb' = [m \in Installed |-> pkgdb'[m]]
  BY DEF without_line
<1>4. DatabaseType'
  BY <1>1, <1>2, <1>3 DEF DatabaseType
<1> QED
  BY <1>1, <1>2, <1>4

LEMMA RemoveDependStruct ==
  ASSUME StructInv, RemoveDepend, UNCHANGED <<scenario, command, tasks, status>>
  PROVE  StructInv'
<1>1. /\ Deleting /\ deletion.pc = "remove" /\ deletion.depends # << >> /\ deletion \in Deletion
      /\ UNCHANGED <<byfile, disk, trouble, faults>>
      /\ deletion.list # << >> /\ this \in Installed /\ pkgdb[this].contents # NULL
      /\ ToSet(deletion.files) \subseteq ToSet(plist(this).files)
  BY DEF RemoveDepend, Deleting, StructInv, TypeOK, Running
<1>2. PICK q, n : q = Head(deletion.depends) /\ n = this
  OBVIOUS
<1>3. /\ DatabaseType' /\ Installed' = Installed
      /\ \A m \in Installed : /\ pkgdb'[m].contents = pkgdb[m].contents
                              /\ pkgdb'[m].preserve = pkgdb[m].preserve
  <2>1. pkgdb' = without_line(q, n) /\ DatabaseType
    BY <1>2 DEF RemoveDepend, StructInv, TypeOK, StateType
  <2> QED
    BY <2>1, WithoutLine
<1>4. StateType'
  BY <1>1, <1>3 DEF StructInv, TypeOK, StateType
<1>5. PICK depends \in Seq(Pattern) : depends = Tail(deletion.depends)
  <2>1. deletion.depends \in Seq(Pattern)
    BY <1>1 DEF Deletion
  <2> QED
    BY <1>1, <2>1, ToSetSeq
<1>6. deletion' = [deletion EXCEPT !.depends = depends]
  BY <1>5 DEF RemoveDepend
<1>7. /\ deletion' \in Deletion /\ deletion'.pc = "remove" /\ deletion'.opts = deletion.opts
      /\ deletion'.list = deletion.list /\ deletion'.files = deletion.files
  BY <1>1, <1>5, <1>6 DEF Deletion
<1>8. this' = this /\ plist(this)' = plist(this)
  BY <1>1, <1>3, <1>7 DEF this, plist
<1> QED
  BY <1>1, <1>3, <1>4, <1>7, <1>8, NotTheNewOne, Deletes

LEMMA RemoveMetaDataEffect ==
  ASSUME StructInv, RemoveMetaData
  PROVE  /\ Deleting /\ deletion.pc = "remove" /\ deletion.list # << >> /\ this \in Installed
         /\ deletion.files = << >> /\ pkgdb[this].contents # NULL
         /\ DatabaseType' /\ Installed' = Installed
         /\ pkgdb'[this] = EmptyDirectory
         /\ \A n \in Installed \ {this} : pkgdb'[n] = pkgdb[n]
         /\ deletion' \in Deletion /\ deletion'.pc = "rmdir" /\ deletion'.opts = deletion.opts
         /\ deletion'.list = deletion.list /\ this' = this
<1>1. /\ Deleting /\ deletion.pc = "remove" /\ deletion.list # << >> /\ this \in Installed
      /\ deletion.files = << >> /\ pkgdb[this].contents # NULL
      /\ deletion \in Deletion /\ DatabaseType
  BY DEF RemoveMetaData, Deleting, StructInv, TypeOK, Running, StateType
<1>2. PICK late \in BOOLEAN : late = (faults' # faults)
  OBVIOUS
<1>3. deletion' = [deletion EXCEPT !.pc = "rmdir", !.late_error = late]
  BY <1>2 DEF RemoveMetaData
<1>4. /\ deletion' \in Deletion /\ deletion'.pc = "rmdir" /\ deletion'.opts = deletion.opts
      /\ deletion'.list = deletion.list
  BY <1>1, <1>3 DEF Deletion
<1>5. /\ Installed' = Installed /\ pkgdb'[this] = EmptyDirectory
      /\ \A n \in Installed \ {this} : pkgdb'[n] = pkgdb[n]
  BY <1>1 DEF RemoveMetaData, Installed
<1>6. DatabaseType'
  BY <1>1, <1>5, EmptyDirectoryType DEF RemoveMetaData, DatabaseType
<1> QED
  BY <1>1, <1>4, <1>5, <1>6 DEF this

LEMMA RemoveMetaDataStruct ==
  ASSUME StructInv, RemoveMetaData, UNCHANGED <<scenario, command, tasks, status>>
  PROVE  StructInv'
<1>1. /\ Deleting /\ deletion.list # << >> /\ this \in Installed
      /\ DatabaseType' /\ Installed' = Installed
      /\ pkgdb'[this] = EmptyDirectory
      /\ \A n \in Installed \ {this} : pkgdb'[n] = pkgdb[n]
      /\ deletion' \in Deletion /\ deletion'.pc = "rmdir" /\ deletion'.opts = deletion.opts
      /\ deletion'.list = deletion.list /\ this' = this
  BY RemoveMetaDataEffect
<1>2. StateType'
  BY <1>1, FaultType DEF RemoveMetaData, StructInv, TypeOK, StateType
<1>3. pkgdb'[this].contents = NULL /\ pkgdb'[this].preserve = FALSE
  BY <1>1 DEF EmptyDirectory
<1> QED
  BY <1>1, <1>2, <1>3, NotTheNewOne, Deletes

LEMMA RmdirEffect ==
  ASSUME StructInv, Rmdir
  PROVE  /\ Deleting /\ deletion.pc = "rmdir" /\ deletion.list # << >> /\ this \in Installed
         /\ pkgdb[this].contents = NULL
         /\ DatabaseType' /\ Installed' = Installed \ {this}
         /\ \A n \in Installed \ {this} : pkgdb'[n] = pkgdb[n]
         /\ deletion' \in Deletion /\ deletion'.pc = "next" /\ deletion'.opts = deletion.opts
         /\ ToSet(deletion'.list) \subseteq ToSet(deletion.list)
<1>1. /\ Deleting /\ deletion.pc = "rmdir" /\ deletion.list # << >> /\ this \in Installed
      /\ pkgdb[this].contents = NULL
      /\ deletion \in Deletion /\ DatabaseType
  BY DEF Rmdir, Deleting, StructInv, TypeOK, Running, StateType
<1>2. PICK list \in Seq(Name) : list = remaining(deletion.late_error)
                                /\ ToSet(list) \subseteq ToSet(deletion.list)
  BY <1>1, NotTheNewOne DEF Deletion
<1>3. deletion' = [deletion EXCEPT !.pc = "next", !.late_error = FALSE, !.list = list]
  BY <1>2 DEF Rmdir
<1>4. /\ deletion' \in Deletion /\ deletion'.pc = "next" /\ deletion'.opts = deletion.opts
      /\ deletion'.list = list
  BY <1>1, <1>2, <1>3 DEF Deletion
<1>5. PICK n : n = this
  OBVIOUS
<1>6. pkgdb' = remove_directory(n)
  BY <1>5 DEF Rmdir
<1> QED
  BY <1>1, <1>2, <1>4, <1>5, <1>6, RemoveDirectoryType

LEMMA RmdirStruct ==
  ASSUME StructInv, Rmdir, UNCHANGED <<scenario, command, tasks, status>>
  PROVE  StructInv'
<1>1. /\ Deleting /\ deletion.list # << >> /\ this \in Installed
      /\ DatabaseType' /\ Installed' = Installed \ {this}
      /\ \A n \in Installed \ {this} : pkgdb'[n] = pkgdb[n]
      /\ deletion' \in Deletion /\ deletion'.pc = "next" /\ deletion'.opts = deletion.opts
      /\ ToSet(deletion'.list) \subseteq ToSet(deletion.list)
  BY RmdirEffect
<1>2. StateType'
  BY <1>1 DEF Rmdir, StructInv, TypeOK, StateType
<1> QED
  BY <1>1, <1>2, NotTheNewOne, Deletes

LEMMA EndDeleteStruct ==
  ASSUME StructInv, EndDelete, UNCHANGED <<scenario, command, tasks, status>>
  PROVE  StructInv'
<1>1. /\ Deleting /\ deletion.pc = "next" /\ UNCHANGED <<pkgdb, byfile, disk, trouble, faults>>
      /\ deletion' = NoDeletion
  BY DEF EndDelete, Deleting, database
<1>2. StateType' /\ Installed' = Installed
  BY <1>1 DEF StructInv, TypeOK, StateType, DatabaseType, Installed
<1>3. NoDeletion \in Deletion /\ NoDeletion.pc = "none" /\ NoDeletion.list = << >>
  BY EmptySeq DEF NoDeletion, Deletion
<1>4. ToSet(deletion'.list) \subseteq ToSet(deletion.list)
  BY <1>1, <1>3, ToSetEmpty
<1>5. Adding /\ task.install_logdir_real # NULL =>
        /\ task.install_logdir \in Installed
        /\ pkgdb[task.install_logdir].contents = task.pkg
  BY <1>1 DEF StructInv, Running, DirOK
<1> QED
  BY <1>1, <1>2, <1>3, <1>4, <1>5, Deletes

LEMMA DeleteStepStruct ==
  ASSUME StructInv, DeleteStep, UNCHANGED <<scenario, command, tasks, status, asked>>
  PROVE  StructInv'
BY DeinstallStruct, DeleteFileStruct, RemoveDependStruct, RemoveMetaDataStruct, RmdirStruct,
   EndDeleteStruct DEF DeleteStep

LEMMA NoDeletionType ==
  /\ NoDeletion \in Deletion /\ NoDeletion.pc = "none" /\ NoDeletion.list = << >>
  /\ NoDeletion.opts = {}
BY EmptySeq DEF NoDeletion, Deletion

(* Between the commands nothing runs.                                      *)
LEMMA NothingRuns ==
  ASSUME StructInv, command.name \in {"none", "rebuild_tree", "rebuild"}
  PROVE  ~Adding /\ ~Deleting /\ tasks = << >> /\ deletion.pc = "none" /\ deletion.list = << >>
BY DEF StructInv, Running, Adding, Deleting

(* Nothing runs, and nothing but the database changes.                     *)
LEMMA StructWhenIdle ==
  ASSUME TypeOK, tasks = << >>, deletion.pc = "none", deletion.list = << >>
  PROVE  StructInv
<1>1. Stack /\ ~Adding /\ ~Deleting
  BY DEF Stack, Adding, Deleting
<1>2. ToSet(deletion.list) = {}
  BY ToSetEmpty
<1> QED
  BY <1>1, <1>2 DEF StructInv, Running, NotPreserved

LEMMA GivenType ==
  ASSUME TypeOK, NEW opts, Given(opts)
  PROVE  faults' \in Nat
BY FaultType DEF Given, TypeOK, StateType

LEMMA PkgAddCommandStruct ==
  ASSUME StructInv, PkgAddCommand
  PROVE  StructInv'
<1>1. tasks = << >> /\ deletion.pc = "none" /\ deletion.list = << >> /\ TypeOK
      /\ UNCHANGED <<scenario, pkgdb, byfile, disk, deletion, status>>
  BY NothingRuns DEF PkgAddCommand, Idle, StructInv, database
<1>2. PICK p \in scenario.packages, opts \in scenario.add_options :
        /\ command' = [name |-> "pkg_add", opts |-> opts, pkg |-> p]
        /\ tasks' = <<Task(p, "A" \in opts)>>
        /\ trouble' = trouble \cup relied_on_lines(opts)
        /\ Given(opts)
  BY DEF PkgAddCommand
<1>3. PICK t \in PkgTask : t = Task(p, "A" \in opts) /\ TaskOK(t) /\ t.pc = "check"
                           /\ t.other_version = NULL /\ t.install_logdir_real = NULL
  <2>1. ("A" \in opts) \in BOOLEAN
    OBVIOUS
  <2>2. Task(p, "A" \in opts) \in PkgTask /\ TaskOK(Task(p, "A" \in opts))
    BY <1>1, <2>1, NewTask
  <2> QED
    BY <2>2 DEF Task
<1>4. tasks' = <<t>> /\ tasks' \in Seq(PkgTask) /\ Len(tasks') = 1 /\ tasks'[1] = t
      /\ Adding' /\ task' = t
  BY <1>2, <1>3 DEF Adding, task
<1>5. opts \subseteq Options /\ p \in Name
  BY <1>1, ScenariosAssumption DEF TypeOK, Options, Name
<1>6. StateType'
  <2>1. faults' \in Nat
    BY <1>1, <1>2, GivenType
  <2> QED
    BY <1>1, <1>2, <2>1 DEF TypeOK, StateType, DatabaseType, Installed, relied_on_lines
<1>7. TypeOK'
  BY <1>1, <1>2, <1>4, <1>5, <1>6 DEF TypeOK, Command
<1>8. Stack'
  <2>1. TaskOK(t)'
    BY <1>1, <1>3 DEF TaskOK
  <2>2. \A k \in 1 .. Len(tasks') : k = 1
    BY <1>4
  <2>3. \A k \in 1 .. Len(tasks') : TaskOK(tasks[k])'
    BY <1>4, <2>1, <2>2 DEF TaskOK
  <2> QED
    BY <1>4, <2>2, <2>3 DEF Stack
<1>9. DirOK(task)'
  BY <1>3, <1>4 DEF DirOK
<1>10. command'.name = "pkg_add"
  BY <1>2
<1>11. Running'
  BY <1>1, <1>4, <1>9, <1>10 DEF Running, Deleting
<1>12. NotPreserved'
  BY <1>1, ToSetEmpty DEF NotPreserved
<1> QED
  BY <1>7, <1>8, <1>11, <1>12 DEF StructInv

LEMMA PkgDeleteCommandStruct ==
  ASSUME StructInv, PkgDeleteCommand
  PROVE  StructInv'
<1>1. tasks = << >> /\ deletion.pc = "none" /\ deletion.list = << >> /\ TypeOK
      /\ UNCHANGED <<scenario, pkgdb, byfile, disk, tasks, status>>
  BY NothingRuns DEF PkgDeleteCommand, Idle, StructInv, database
<1>2. PICK n \in Complete, opts \in scenario.delete_options :
        /\ command' = [name |-> "pkg_delete", opts |-> opts, pkg |-> n]
        /\ StartDelete({n}, opts)
        /\ Given(opts)
  BY DEF PkgDeleteCommand
<1>3. n \in Name /\ opts \in SUBSET Options /\ {n} \in SUBSET Name /\ DatabaseType
  BY <1>1, ScenariosAssumption DEF TypeOK, Options, Complete, StateType, DatabaseType
<1>4. /\ deletion' \in Deletion
      /\ \/ deletion' = NoDeletion
         \/ \E list \in Lists({n}, opts) :
              /\ deletion' = [NoDeletion EXCEPT !.pc = "next", !.opts = opts, !.list = list]
              /\ deletion'.pc = "next" /\ deletion'.opts = opts /\ deletion'.list = list
      /\ deletion'.pc \in {"none", "next"}
      /\ deletion'.pc = "none" => deletion'.list = << >>
  BY <1>1, <1>2, <1>3, StartDeleteEffect
<1>5. /\ trouble' \in {trouble, trouble \cup {"tree"}} /\ faults' \in Nat
  BY <1>1, <1>2, GivenType DEF PkgDeleteCommand
<1>6. TypeOK'
  <2>1. StateType'
    BY <1>1, <1>5 DEF TypeOK, StateType, DatabaseType, Installed
  <2> QED
    BY <1>1, <1>2, <1>3, <1>4, <2>1 DEF TypeOK, Command
<1>7. Stack' /\ ~Adding'
  BY <1>1 DEF Stack, Adding
<1>8. CASE deletion' = NoDeletion
  BY <1>1, <1>6, <1>8, NoDeletionType, StructWhenIdle DEF Running, Stack, Adding, Deleting, StructInv,
     NotPreserved, ToSet
<1>9. CASE \E list \in Lists({n}, opts) :
              deletion'.pc = "next" /\ deletion'.opts = opts /\ deletion'.list = list
  <2>1. PICK list \in Lists({n}, opts) :
              deletion'.pc = "next" /\ deletion'.opts = opts /\ deletion'.list = list
    BY <1>9
  <2>2. Running'
    BY <1>2, <1>7, <2>1 DEF Running, Deleting
  <2>3. "ff" \notin opts => \A m \in ToSet(list) \cap Installed : ~pkgdb[m].preserve
    BY <1>3, ListsType
  <2>4. NotPreserved'
    BY <1>1, <2>1, <2>3 DEF NotPreserved, Installed
  <2> QED
    BY <1>6, <1>7, <2>2, <2>4 DEF StructInv
<1> QED
  BY <1>4, <1>8, <1>9

(* The commands of pkg_admin write one file of each directory.             *)
LEMMA PkgAdminCommandStruct ==
  ASSUME StructInv, PkgAdminCommand
  PROVE  /\ StructInv' /\ Installed' = Installed
         /\ \A n \in Installed : /\ pkgdb'[n].contents = pkgdb[n].contents
                                 /\ pkgdb'[n].preserve = pkgdb[n].preserve
                                 /\ pkgdb'[n].automatic = pkgdb[n].automatic
<1>1. tasks = << >> /\ deletion.pc = "none" /\ deletion.list = << >> /\ TypeOK
      /\ UNCHANGED <<scenario, disk, deletion, tasks, status, faults>>
  BY NothingRuns DEF PkgAdminCommand, Idle, StructInv, volatile
<1>2. CASE /\ command' = [NoCommand EXCEPT !.name = "rebuild_tree"]
           /\ pkgdb' = [n \in Installed |-> [pkgdb[n] EXCEPT !.required_by = {}]]
           /\ trouble' = trouble \cup {"lines"}
           /\ UNCHANGED byfile
  <2>1. /\ DatabaseType' /\ Installed' = Installed
        /\ \A n \in Installed : /\ pkgdb'[n].contents = pkgdb[n].contents
                                /\ pkgdb'[n].preserve = pkgdb[n].preserve
                                /\ pkgdb'[n].automatic = pkgdb[n].automatic
    BY <1>1, <1>2 DEF TypeOK, StateType, DatabaseType, Installed, Directory
  <2>2. command' \in Command
    BY <1>2 DEF NoCommand, Command
  <2>3. TypeOK'
    BY <1>1, <1>2, <2>1, <2>2 DEF TypeOK, StateType
  <2> QED
    BY <1>1, <2>1, <2>3, StructWhenIdle DEF StructInv, Stack, Running, NotPreserved, Adding,
       Deleting, ToSet
<1>3. CASE /\ command' = [NoCommand EXCEPT !.name = "rebuild"]
           /\ byfile' = [f \in File |-> NULL]
           /\ trouble' = trouble \cup {"files"}
           /\ UNCHANGED pkgdb
  <2>1. DatabaseType' /\ Installed' = Installed
    BY <1>1, <1>3 DEF TypeOK, StateType, DatabaseType, Installed
  <2>2. command' \in Command
    BY <1>3 DEF NoCommand, Command
  <2>3. TypeOK'
    BY <1>1, <1>3, <2>1, <2>2 DEF TypeOK, StateType
  <2> QED
    BY <1>1, <1>3, <2>1, <2>3, StructWhenIdle DEF StructInv, Stack, Running, NotPreserved, Adding,
       Deleting, ToSet
<1> QED
  BY <1>2, <1>3 DEF PkgAdminCommand

LEMMA RebuildTreeStruct ==
  ASSUME StructInv, RebuildTree
  PROVE  /\ StructInv' /\ Installed' = Installed
         /\ \A n \in Installed : /\ pkgdb'[n].contents = pkgdb[n].contents
                                 /\ pkgdb'[n].preserve = pkgdb[n].preserve
                                 /\ pkgdb'[n].automatic = pkgdb[n].automatic
<1>1. tasks = << >> /\ deletion.pc = "none" /\ deletion.list = << >> /\ TypeOK
      /\ UNCHANGED <<scenario, byfile, disk, deletion, tasks, status, faults>>
  BY NothingRuns DEF RebuildTree, StructInv, volatile
<1>2. PICK visited \in Visited :
        pkgdb' = [n \in Installed |->
                   [pkgdb[n] EXCEPT !.required_by = {m \in visited : DependsOn(m, n)}]]
  BY DEF RebuildTree
<1>3. visited \subseteq Name
  BY <1>1 DEF Visited, Complete, TypeOK, StateType, DatabaseType
<1>4. \A n : {m \in visited : DependsOn(m, n)} \in SUBSET Name
  BY <1>3
<1>5. /\ DatabaseType' /\ Installed' = Installed
      /\ \A n \in Installed : /\ pkgdb'[n].contents = pkgdb[n].contents
                              /\ pkgdb'[n].preserve = pkgdb[n].preserve
                              /\ pkgdb'[n].automatic = pkgdb[n].automatic
  <2>1. DatabaseType
    BY <1>1 DEF TypeOK, StateType
  <2>2. Installed' = Installed
    BY <1>2 DEF Installed
  <2>3. ASSUME NEW n \in Installed
        PROVE  /\ pkgdb'[n] \in Directory /\ pkgdb'[n].contents = pkgdb[n].contents
               /\ pkgdb'[n].preserve = pkgdb[n].preserve
               /\ pkgdb'[n].automatic = pkgdb[n].automatic
    <3>1. PICK ls \in SUBSET Name : ls = {m \in visited : DependsOn(m, n)}
      BY <1>4
    <3>2. pkgdb'[n] = [pkgdb[n] EXCEPT !.required_by = ls] /\ pkgdb[n] \in Directory
      BY <1>2, <2>1, <3>1 DEF DatabaseType
    <3> QED
      BY <3>1, <3>2 DEF Directory
  <2>4. pkgdb' = [n \in Installed |-> pkgdb'[n]]
    BY <1>2
  <2> QED
    BY <2>1, <2>2, <2>3, <2>4 DEF DatabaseType
<1>6. trouble' \subseteq {"lines", "tree", "files", "update"} /\ command' \in Command
  BY <1>1, EmptySeq DEF RebuildTree, TypeOK, StateType, NoCommand, Command
<1>7. TypeOK'
  BY <1>1, <1>5, <1>6 DEF TypeOK, StateType
<1> QED
  BY <1>1, <1>5, <1>7, StructWhenIdle DEF StructInv, Stack, Running, NotPreserved, Adding,
     Deleting, ToSet

LEMMA RebuildStruct ==
  ASSUME StructInv, Rebuild
  PROVE  StructInv' /\ pkgdb' = pkgdb
<1>1. tasks = << >> /\ deletion.pc = "none" /\ deletion.list = << >> /\ TypeOK
      /\ UNCHANGED <<scenario, pkgdb, disk, deletion, tasks, status, faults>>
  BY NothingRuns DEF Rebuild, StructInv, volatile
<1>2. byfile' \in [File -> Pkg \cup {NULL}]
  BY DEF Rebuild
<1>3. trouble' \subseteq {"lines", "tree", "files", "update"} /\ command' \in Command
  BY <1>1 DEF Rebuild, TypeOK, StateType, NoCommand, Command
<1>4. TypeOK'
  BY <1>1, <1>2, <1>3 DEF TypeOK, StateType, DatabaseType, Installed
<1> QED
  BY <1>1, <1>4, StructWhenIdle DEF StructInv, Stack, Running, NotPreserved, Adding,
     Deleting, ToSet

LEMMA AddOrDeleteEndsStruct ==
  ASSUME StructInv, AddOrDeleteEnds
  PROVE  StructInv' /\ pkgdb' = pkgdb
<1>1. tasks = << >> /\ deletion.pc = "none" /\ deletion.list = << >> /\ TypeOK
      /\ UNCHANGED <<scenario, pkgdb, byfile, disk, deletion, tasks, trouble, faults>>
      /\ command' = NoCommand /\ status' = "ok"
  BY DEF AddOrDeleteEnds, StructInv, database, Adding, Deleting, Running
<1>2. command' \in Command
  BY <1>1 DEF NoCommand, Command
<1>3. TypeOK'
  BY <1>1, <1>2 DEF TypeOK, StateType, DatabaseType, Installed
<1> QED
  BY <1>1, <1>3, StructWhenIdle DEF StructInv, Stack, Running, NotPreserved, Adding,
     Deleting, ToSet

LEMMA KillStruct ==
  ASSUME StructInv, Kill
  PROVE  StructInv' /\ pkgdb' = pkgdb
<1>1. /\ TypeOK /\ UNCHANGED <<scenario, pkgdb, byfile, disk>> /\ faults' \in Nat
      /\ deletion' = NoDeletion
  BY FaultType DEF Kill, StructInv, database
<1>2. deletion' \in Deletion /\ deletion'.pc = "none" /\ deletion'.list = << >> /\ ~Deleting'
  BY <1>1, NoDeletionType DEF Deleting
<1>3. CASE /\ tasks' = << >> /\ status' = "ok" /\ command' = NoCommand
           /\ trouble' = trouble \cup interrupted
  <2>1. command' \in Command /\ trouble' \subseteq {"lines", "tree", "files", "update"}
    BY <1>1, <1>3 DEF NoCommand, Command, interrupted, TypeOK, StateType
  <2>2. TypeOK'
    BY <1>1, <1>2, <1>3, <2>1, EmptySeq DEF TypeOK, StateType, DatabaseType, Installed
  <2> QED
    BY <1>1, <1>2, <1>3, <2>2, StructWhenIdle DEF StructInv, Stack, Running, NotPreserved, Adding,
       Deleting, ToSet
<1>4. CASE Deleting /\ Adding /\ UNCHANGED <<tasks, status, command, trouble>>
  <2>1. TypeOK'
    BY <1>1, <1>2, <1>4 DEF TypeOK, StateType, DatabaseType, Installed
  <2>2. Stack'
    BY <1>1, <1>4 DEF StructInv, Stack, TaskOK
  <2>3. Adding' /\ task' = task
    BY <1>4 DEF Adding, task
  <2>4. DirOK(task)'
    BY <1>1, <1>4, <2>3 DEF StructInv, Running, DirOK, Installed
  <2>5. command'.name = "pkg_add"
    BY <1>4 DEF StructInv, Running
  <2>6. Running'
    BY <1>2, <2>3, <2>4, <2>5 DEF Running
  <2>7. NotPreserved'
    BY <1>2, ToSetEmpty DEF NotPreserved
  <2> QED
    BY <1>1, <2>1, <2>2, <2>6, <2>7 DEF StructInv
<1> QED
  BY <1>1, <1>3, <1>4 DEF Kill

LEMMA InitStruct ==
  ASSUME InitAll
  PROVE  StructInv
<1>1. DatabaseType
  BY DEF InitAll, Init, DatabaseType, Installed
<1>2. NoCommand \in Command
  BY DEF NoCommand, Command
<1>3. TypeOK
  BY <1>1, <1>2, NoDeletionType, EmptySeq DEF InitAll, Init, TypeOK, StateType
<1> QED
  BY <1>3, NoDeletionType, StructWhenIdle DEF InitAll

LEMMA StutterStruct ==
  ASSUME StructInv, UNCHANGED vars
  PROVE  StructInv' /\ pkgdb' = pkgdb
BY DEF vars, database, StructInv, TypeOK, StateType, DatabaseType, Stack, TaskOK, Running, DirOK,
   NotPreserved, Adding, Deleting, Installed, task, this, plist

LEMMA StepStruct ==
  ASSUME StructInv, [Next]_vars
  PROVE  StructInv'
BY PkgAddCommandStruct, PkgDeleteCommandStruct, PkgAdminCommandStruct, AddStepStruct,
   DeleteStepStruct, RebuildTreeStruct, RebuildStruct, AddOrDeleteEndsStruct, KillStruct,
   StutterStruct DEF Next, Step

(* pkg_add, pkg_delete and pkg_admin keep the database, the list of        *)
(* packages to delete and the stack of calls of pkg_do in the shape the    *)
(* code relies on: for every repository, every scenario and any number of  *)
(* kills.                                                                  *)
THEOREM ToolsTypeCorrect == Spec => []TypeOK
<1>1. InitAll => StructInv
  BY InitStruct
<1>2. StructInv /\ [Next]_vars => StructInv'
  BY StepStruct
<1>3. StructInv => TypeOK
  BY DEF StructInv
<1> QED
  BY <1>1, <1>2, <1>3, PTL DEF Spec

-----------------------------------------------------------------------------
(* Packages that are marked as not for deletion *)

Stays(n) ==
  \/ n \in Complete'
  \/ "ff" \in command.opts
  \/ \E m \in Complete' : m.base = n.base /\ pkgdb'[m].preserve
  \/ \E t \in Range(tasks) : n \in {t.pkg, t.install_logdir}

LEMMA ContentsKept ==
  ASSUME NEW n \in Complete, n \in Installed', pkgdb'[n].contents # NULL
  PROVE  Stays(n)
BY DEF Stays, Complete

LEMMA PkgAddStepPreserved ==
  ASSUME StructInv, AddStep, NEW n \in Complete, pkgdb[n].preserve
  PROVE  Stays(n)
<1>1. n \in Installed /\ pkgdb[n].contents # NULL /\ DatabaseType /\ n \in Name
  BY DEF Complete, StructInv, TypeOK, StateType, DatabaseType
<1>2. CASE UNCHANGED pkgdb
  BY <1>1, <1>2, ContentsKept DEF Installed
<1>3. CASE CheckAlreadyInstalled
  <2>1. n \in Installed' /\ pkgdb'[n].contents = pkgdb[n].contents
    BY <1>1, <1>3 DEF CheckAlreadyInstalled, Installed, DatabaseType, Directory
  <2> QED
    BY <1>1, <2>1, ContentsKept
<1>4. CASE Mkdir
  <2>1. n \in Installed' /\ pkgdb'[n] = pkgdb[n]
    BY <1>1, <1>4 DEF Mkdir, Installed
  <2> QED
    BY <1>1, <2>1, ContentsKept
<1>5. CASE WriteMetaData
  <2>1. task \in PkgTask /\ task.pkg # NULL
    BY <1>5, TheTask, PkgAssumption DEF StructInv, WriteMetaData, At, PkgTask, Name
  <2>2. n \in Installed' /\ pkgdb'[n].contents \in {pkgdb[n].contents, task.pkg}
    BY <1>1, <1>5 DEF WriteMetaData, Installed, DatabaseType, Directory
  <2> QED
    BY <1>1, <2>1, <2>2, ContentsKept
<1>6. CASE PreserveMetaDataFile
  <2>1. n \in Installed' /\ pkgdb'[n].contents = pkgdb[n].contents
    BY <1>1, <1>6, PreserveEffect
  <2> QED
    BY <1>1, <2>1, ContentsKept
<1>7. CASE RenameDirectory
  <2>1. \/ pkgdb' = pkgdb
        \/ /\ task.install_logdir \in Installed /\ task.install_logdir = Temporary(task.pkg)
           /\ pkgdb[task.install_logdir].contents = task.pkg /\ task.pkg \in Pkg
           /\ Installed' = (Installed \ {task.install_logdir}) \cup {task.pkg}
           /\ pkgdb'[task.pkg] = pkgdb[task.install_logdir]
           /\ \A m \in Installed \ {task.install_logdir, task.pkg} : pkgdb'[m] = pkgdb[m]
           /\ n # task.pkg
    BY <1>1, <1>7, RenameEffect DEF PkgTask, EmptyDirectory
  <2>2. CASE n # task.install_logdir \/ pkgdb' = pkgdb
    <3>1. n \in Installed' /\ pkgdb'[n] = pkgdb[n]
      BY <1>1, <2>1, <2>2 DEF Installed
    <3> QED
      BY <1>1, <3>1, ContentsKept
  <2>3. CASE n = task.install_logdir /\ pkgdb' # pkgdb
    <3>1. task.pkg.base = n.base
      BY <2>1, <2>3, NameParts
    <3>2. task.pkg \in Complete' /\ pkgdb'[task.pkg].preserve
      BY <1>1, <2>1, <2>3, PkgAssumption DEF Complete
    <3> QED
      BY <3>1, <3>2 DEF Stays
  <2> QED
    BY <2>2, <2>3
<1>8. CASE MarkAutomatic
  <2>1. n \in Installed' /\ pkgdb'[n].contents = pkgdb[n].contents
    BY <1>1, <1>8 DEF MarkAutomatic, Installed, DatabaseType, Directory
  <2> QED
    BY <1>1, <2>1, ContentsKept
<1>9. CASE RegisterDepend
  <2>1. n \in Installed' /\ pkgdb'[n].contents = pkgdb[n].contents
    BY <1>1, <1>9 DEF RegisterDepend, Installed, DatabaseType, Directory
  <2> QED
    BY <1>1, <2>1, ContentsKept
<1>10. CASE NukePkgdb
  <2>1. Adding /\ task.pc \in {"nuke_pkgdb", "nuke_pkg"} /\ task \in PkgTask /\ TaskOK(task)
        /\ task = tasks[1] /\ 1 \in 1 .. Len(tasks) /\ tasks \in Seq(PkgTask)
    BY <1>10, TheTask DEF NukePkgdb, At, StructInv, TypeOK
  <2>3. task \in Range(tasks)
    BY <2>1 DEF Range
  <2>4. CASE n = task.install_logdir
    BY <2>3, <2>4 DEF Stays
  <2>5. CASE n # task.install_logdir
    <3>1. n \in Installed' /\ pkgdb'[n] = pkgdb[n]
      BY <1>1, <1>10, <2>5 DEF NukePkgdb, remove_directory, Installed
    <3> QED
      BY <1>1, <3>1, ContentsKept
  <2> QED
    BY <2>4, <2>5
<1>11. CASE ~(CheckAlreadyInstalled \/ Mkdir \/ WriteMetaData \/ PreserveMetaDataFile
              \/ RenameDirectory \/ MarkAutomatic \/ RegisterDepend \/ NukePkgdb)
  <2>1. UNCHANGED pkgdb
    BY <1>11 DEF AddStep, Check, CheckDependency, DependencyInstalled, DependenciesDone,
       DeleteOther, PreInstall, ExtractFile, PostInstall, Registered, NukePkg, database
  <2> QED
    BY <1>2, <2>1
<1> QED
  BY <1>3, <1>4, <1>5, <1>6, <1>7, <1>8, <1>9, <1>10, <1>11

LEMMA PkgDeleteStepPreserved ==
  ASSUME StructInv, DeleteStep, NEW n \in Complete, pkgdb[n].preserve
  PROVE  Stays(n)
<1>1. n \in Installed /\ pkgdb[n].contents # NULL /\ DatabaseType
  BY DEF Complete, StructInv, TypeOK, StateType
<1>2. CASE UNCHANGED pkgdb
  BY <1>1, <1>2, ContentsKept DEF Installed
<1>3. CASE RemoveDepend
  <2>1. PICK q, m : pkgdb' = without_line(q, m)
    BY <1>3 DEF RemoveDepend
  <2>2. n \in Installed' /\ pkgdb'[n].contents = pkgdb[n].contents
    BY <1>1, <2>1, WithoutLine
  <2> QED
    BY <1>1, <2>2, ContentsKept
<1>4. CASE RemoveMetaData
  <2>1. /\ Deleting /\ deletion.list # << >> /\ Installed' = Installed
        /\ \A m \in Installed \ {this} : pkgdb'[m] = pkgdb[m]
    BY <1>4, RemoveMetaDataEffect
  <2>2. CASE n # this
    BY <1>1, <2>1, <2>2, ContentsKept
  <2>3. CASE n = this
    <3>1. this \in ToSet(deletion.list)
      BY <2>1, NotTheNewOne
    <3>2. "ff" \in deletion.opts
      BY <1>1, <2>3, <3>1 DEF StructInv, NotPreserved
    <3>3. "ff" \in command.opts
      BY <2>1, <3>2 DEF StructInv, Running
    <3> QED
      BY <3>3 DEF Stays
  <2> QED
    BY <2>2, <2>3
<1>5. CASE Rmdir
  <2>1. /\ pkgdb[this].contents = NULL /\ Installed' = Installed \ {this}
        /\ \A m \in Installed \ {this} : pkgdb'[m] = pkgdb[m]
    BY <1>5, RmdirEffect
  <2> QED
    BY <1>1, <2>1, ContentsKept
<1>6. CASE Deinstall \/ DeleteFile \/ EndDelete
  BY <1>2, <1>6 DEF Deinstall, DeleteFile, EndDelete, database
<1> QED
  BY <1>3, <1>4, <1>5, <1>6 DEF DeleteStep

LEMMA StepPreserved ==
  ASSUME StructInv, [Next]_vars, NEW n \in Complete, pkgdb[n].preserve
  PROVE  Stays(n)
<1>1. n \in Installed /\ pkgdb[n].contents # NULL
  BY DEF Complete
<1>2. CASE UNCHANGED pkgdb
  BY <1>1, <1>2, ContentsKept DEF Installed
<1>3. CASE PkgAdminCommand \/ RebuildTree
  BY <1>1, <1>3, PkgAdminCommandStruct, RebuildTreeStruct, ContentsKept
<1>4. CASE Rebuild \/ AddOrDeleteEnds \/ Kill \/ UNCHANGED vars
  BY <1>2, <1>4 DEF Rebuild, AddOrDeleteEnds, Kill, vars, database
<1>5. CASE PkgAddCommand \/ PkgDeleteCommand
  BY <1>2, <1>5 DEF PkgAddCommand, PkgDeleteCommand, database
<1>6. CASE AddStep
  BY <1>6, PkgAddStepPreserved
<1>7. CASE DeleteStep
  BY <1>7, PkgDeleteStepPreserved
<1> QED
  BY <1>3, <1>4, <1>5, <1>6, <1>7 DEF Next, Step

(* Whatever the commands, their options and the kills, a package that is   *)
(* marked as not for deletion goes only as PreservedKept allows.           *)
THEOREM PreservedPackagesKept == Spec => PreservedKept
<1> DEFINE A == \A n \in Complete :
                  pkgdb[n].preserve /\ n \notin Complete' =>
                    \/ "ff" \in command.opts
                    \/ \E m \in Complete' : m.base = n.base /\ pkgdb'[m].preserve
                    \/ \E t \in Range(tasks) : n \in {t.pkg, t.install_logdir}
<1>1. InitAll => StructInv
  BY InitStruct
<1>2. StructInv /\ [Next]_vars => StructInv'
  BY StepStruct
<1>3. StructInv /\ [Next]_vars => [A]_vars
  BY StepPreserved DEF Stays
<1>4. Spec => [][A]_vars
  <2> HIDE DEF A
  <2> QED
    BY <1>1, <1>2, <1>3, PTL DEF Spec
<1> QED
  BY <1>4 DEF PreservedKept

(* The calls of pkg_do.                                                    *)
Calls == {tasks[k] : k \in 1 .. Len(tasks)}

LEMMA TheCalls ==
  ASSUME TypeOK
  PROVE  /\ Adding => Calls = {task} \cup Waiting
         /\ ~Adding => Calls = {}
         /\ Calls \subseteq PkgTask
         /\ Range(tasks) = Calls
<1>1. tasks \in Seq(PkgTask)
  BY DEF TypeOK
<1>2. CASE Adding
  <2>1. task = tasks[1] /\ 1 \in 1 .. Len(tasks) /\ Len(tasks) \in Nat
    BY <1>1, <1>2 DEF Adding, task
  <2>2. \A k \in 1 .. Len(tasks) : k = 1 \/ k \in 2 .. Len(tasks)
    BY <2>1
  <2>3. \A k \in 2 .. Len(tasks) : k \in 1 .. Len(tasks)
    BY <2>1
  <2> QED
    BY <1>1, <1>2, <2>1, <2>2, <2>3 DEF Calls, Waiting, Range
<1>3. CASE ~Adding
  BY <1>1, <1>3 DEF Calls, Adding, Range
<1> QED
  BY <1>2, <1>3

LEMMA CallsPut ==
  ASSUME TypeOK, Adding, NEW t \in PkgTask, tasks' = <<t>> \o Tail(tasks)
  PROVE  Calls = {task} \cup Waiting /\ Calls' = {t} \cup Waiting /\ task' = t /\ Adding'
<1>1. Adding' /\ task' = t /\ Waiting' = Waiting /\ tasks' \in Seq(PkgTask)
  BY Put
<1>2. Adding' => Calls' = {task'} \cup Waiting'
  <2>1. tasks' \in Seq(PkgTask) /\ tasks' # << >>
    BY <1>1 DEF Adding
  <2>2. task' = tasks'[1] /\ 1 \in 1 .. Len(tasks') /\ Len(tasks') \in Nat
    BY <2>1 DEF task
  <2>3. \A k \in 1 .. Len(tasks') : k = 1 \/ k \in 2 .. Len(tasks')
    BY <2>2
  <2>4. \A k \in 2 .. Len(tasks') : k \in 1 .. Len(tasks')
    BY <2>2
  <2> QED
    BY <2>2, <2>3, <2>4 DEF Calls, Waiting
<1> QED
  BY <1>1, <1>2, TheCalls

LEMMA CallsPop ==
  ASSUME TypeOK, Adding, tasks' = Tail(tasks)
  PROVE  Calls' = Waiting /\ Waiting \subseteq Calls
<1>1. /\ tasks' \in Seq(PkgTask) /\ Len(tasks) \in Nat /\ Len(tasks') = Len(tasks) - 1
      /\ \A k \in 1 .. Len(tasks') : tasks'[k] = tasks[k + 1] /\ k + 1 \in 2 .. Len(tasks)
  BY Pop
<1>2. \A k \in 2 .. Len(tasks) : k - 1 \in 1 .. Len(tasks') /\ (k - 1) + 1 = k
  BY <1>1
<1>3. \A k \in 2 .. Len(tasks) : tasks[k] = tasks'[k - 1]
  BY <1>1, <1>2
<1>4. Calls' = Waiting
  <2>1. \A k \in 1 .. Len(tasks') : tasks'[k] \in Waiting
    BY <1>1 DEF Waiting
  <2>2. \A k \in 2 .. Len(tasks) : tasks[k] \in Calls'
    BY <1>2, <1>3 DEF Calls
  <2> QED
    BY <2>1, <2>2 DEF Calls, Waiting
<1> QED
  BY <1>4, TheCalls

LEMMA CallsPush ==
  ASSUME TypeOK, Adding, NEW t \in PkgTask, NEW u \in PkgTask,
         tasks' = <<u, t>> \o Tail(tasks)
  PROVE  Calls = {task} \cup Waiting /\ Calls' = {u, t} \cup Waiting /\ task' = u /\ Adding'
<1>1. /\ Adding' /\ task' = u /\ Len(tasks') = Len(tasks) + 1 /\ tasks'[1] = u /\ tasks'[2] = t
      /\ Len(tasks) \in Nat /\ Waiting' = {t} \cup Waiting
  BY Push
<1>2. \A k \in 1 .. Len(tasks') : k = 1 \/ k \in 2 .. Len(tasks')
  BY <1>1
<1>3. 1 \in 1 .. Len(tasks') /\ \A k \in 2 .. Len(tasks') : k \in 1 .. Len(tasks')
  BY <1>1
<1>4. Calls' = {u} \cup Waiting'
  BY <1>1, <1>2, <1>3 DEF Calls, Waiting
<1> QED
  BY <1>1, <1>4, TheCalls

(* Those who wait brought along the package that is being installed.       *)
LEMMA CallsOK ==
  ASSUME TypeOK, Stack
  PROVE  /\ \A t \in Calls : t \in PkgTask /\ TaskOK(t)
         /\ Adding => \A t \in Waiting : t \in Calls /\ t.pc = "installed"
                                         /\ task.pkg \in brings(scenario, t.pkg)
<1>1. CASE Adding
  BY <1>1, TheCalls, TheTask
<1>2. CASE ~Adding
  BY <1>2, TheCalls
<1> QED
  BY <1>1, <1>2

(* The invariant of updates: nothing forgets that one went wrong.          *)
LEMMA UpdateStays ==
  ASSUME [Next]_vars, "update" \notin trouble'
  PROVE  "update" \notin trouble
<1>1. CASE AddStep
  BY <1>1 DEF AddStep, CheckAlreadyInstalled, Check, CheckDependency, DependencyInstalled,
     DependenciesDone, Mkdir, WriteMetaData, PreserveMetaDataFile, DeleteOther, RenameDirectory,
     PreInstall, ExtractFile, PostInstall, MarkAutomatic, RegisterDepend, Registered, NukePkg,
     NukePkgdb
<1>2. CASE DeleteStep
  BY <1>2 DEF DeleteStep, Deinstall, DeleteFile, RemoveDepend, RemoveMetaData, Rmdir, EndDelete
<1>3. CASE RebuildTree \/ Rebuild \/ AddOrDeleteEnds
  BY <1>3 DEF RebuildTree, Rebuild, AddOrDeleteEnds
<1>4. CASE PkgAddCommand \/ PkgDeleteCommand \/ PkgAdminCommand
  BY <1>4 DEF PkgAddCommand, PkgDeleteCommand, PkgAdminCommand
<1>5. CASE Kill \/ UNCHANGED vars
  BY <1>5 DEF Kill, vars
<1> QED
  BY <1>1, <1>2, <1>3, <1>4, <1>5 DEF Next, Step

-----------------------------------------------------------------------------
(* No two versions and no conflicts *)

(* What a directory is called.                                             *)
ContentsOK ==
  \A n \in Complete : pkgdb[n].contents = n \/ Temporary(pkgdb[n].contents) = n

Filled == {"write_meta_data", "preserve_meta_data_file", "rename", "nuke_pkgdb"}

(* The directory that is filled while the other version's is still there.  *)
Beside(n) == Adding /\ task.pc \in Filled /\ n = task.install_logdir

TwoOf(m, n) ==
  \/ Beside(m) /\ n = task.other_version
  \/ Beside(n) /\ m = task.other_version

Apart ==
  \A m, n \in Installed :
    \/ m = n
    \/ TwoOf(m, n)
    \/ /\ m.base # n.base
       /\ m \in Complete /\ n \in Complete => Peaceful(scenario, pkgdb[m].contents, pkgdb[n].contents)

TemporaryOK == \A n \in Installed \ Pkg : Beside(n)

(* A package that has been checked and whose +CONTENTS is still to come.   *)
ToCome(t) ==
  \/ t.pc \in {"mkdir", "write_meta_data"}
  \/ t.pc \in {"depends", "installed"} /\ t.other_version = NULL

Own(t) == {t.other_version} \cup (IF t.pc = "write_meta_data" THEN {t.install_logdir} ELSE {})

(* What pkg_add found when it checked the package is still so.             *)
Welcome(t) ==
  /\ \A n \in Installed \ Own(t) : n.base # t.pkg.base
  /\ \A n \in Complete \ Own(t) :
       Peaceful(scenario, t.pkg, pkgdb[n].contents) /\ Peaceful(scenario, pkgdb[n].contents, t.pkg)

Clean == "update" \notin trouble

ConflictInv ==
  /\ ContentsOK
  /\ Clean => Apart /\ TemporaryOK /\ \A t \in Calls : ToCome(t) => Welcome(t)

(* Steps that install nothing.                                             *)
LEMMA NothingNew ==
  ASSUME ConflictInv, scenario' = scenario, Installed' \subseteq Installed,
         \A n \in Installed' : pkgdb'[n].contents \in {pkgdb[n].contents, NULL},
         Clean' => /\ Clean
                   /\ \A m, n \in Installed' : TwoOf(m, n) => TwoOf(m, n)'
                   /\ \A n \in Installed' \ Pkg : Beside(n) => Beside(n)'
                   /\ \A t \in Calls' : ToCome(t) =>
                        \E u \in Calls : ToCome(u) /\ u.pkg = t.pkg /\ Own(u) \subseteq Own(t)
  PROVE  ConflictInv'
<1>1. Complete' \subseteq Complete
      /\ \A n \in Complete' : pkgdb'[n].contents = pkgdb[n].contents
  BY DEF Complete
<1>2. ContentsOK'
  BY <1>1 DEF ConflictInv, ContentsOK
<1>3. ASSUME Clean' PROVE Apart' /\ TemporaryOK'
  <2>1. Apart /\ TemporaryOK
    BY <1>3 DEF ConflictInv
  <2>2. ASSUME NEW m \in Installed', NEW n \in Installed', m # n, ~TwoOf(m, n)'
        PROVE  /\ m.base # n.base
               /\ m \in Complete' /\ n \in Complete' =>
                    Peaceful(scenario, pkgdb'[m].contents, pkgdb'[n].contents)
    <3>1. m \in Installed /\ n \in Installed /\ ~TwoOf(m, n)
      BY <1>3, <2>2
    <3> QED
      BY <1>1, <2>1, <2>2, <3>1 DEF Apart
  <2>3. Apart'
    BY <2>2 DEF Apart, Peaceful
  <2>4. TemporaryOK'
    BY <1>3, <2>1 DEF TemporaryOK
  <2> QED
    BY <2>3, <2>4
<1>4. ASSUME Clean', NEW t \in Calls', ToCome(t)
      PROVE  Welcome(t)'
  <2>1. PICK u \in Calls : ToCome(u) /\ u.pkg = t.pkg /\ Own(u) \subseteq Own(t)
    BY <1>4
  <2>2. Welcome(u)
    BY <1>4, <2>1 DEF ConflictInv
  <2>3. \A n \in Installed' \ Own(t) : n.base # t.pkg.base
    BY <2>1, <2>2 DEF Welcome
  <2>4. \A n \in Complete' \ Own(t) :
          Peaceful(scenario, t.pkg, pkgdb'[n].contents) /\ Peaceful(scenario, pkgdb'[n].contents, t.pkg)
    BY <1>1, <2>1, <2>2 DEF Welcome
  <2> QED
    BY <2>3, <2>4 DEF Welcome, Peaceful, Own
<1> QED
  BY <1>2, <1>3, <1>4 DEF ConflictInv, ToCome

(* Steps of pkg_add that install or remove no directory and write no       *)
(* +CONTENTS.                                                              *)
LEMMA SameContents ==
  ASSUME StructInv, AddStep,
         GivesUp \/ ~(Mkdir \/ WriteMetaData \/ RenameDirectory \/ NukePkgdb)
  PROVE  Installed' = Installed /\ \A n \in Installed : pkgdb'[n].contents = pkgdb[n].contents
<1>1. DatabaseType
  BY DEF StructInv, TypeOK, StateType
<1>2. CASE CheckAlreadyInstalled
  BY <1>1, <1>2 DEF CheckAlreadyInstalled, Installed, DatabaseType, Directory
<1>3. CASE PreserveMetaDataFile
  BY <1>3, PreserveEffect
<1>4. CASE MarkAutomatic
  BY <1>1, <1>4 DEF MarkAutomatic, Installed, DatabaseType, Directory
<1>5. CASE RegisterDepend
  BY <1>1, <1>5 DEF RegisterDepend, Installed, DatabaseType, Directory
<1>7. CASE GivesUp
  BY <1>7 DEF GivesUp, Installed
<1>6. CASE ~(Mkdir \/ WriteMetaData \/ RenameDirectory \/ NukePkgdb) /\ ~(CheckAlreadyInstalled \/ PreserveMetaDataFile \/ MarkAutomatic \/ RegisterDepend)
  <2>1. UNCHANGED pkgdb
    BY <1>6 DEF AddStep, Check, CheckDependency, DependencyInstalled, DependenciesDone,
       DeleteOther, PreInstall, ExtractFile, PostInstall, Registered, NukePkg, database
  <2> QED
    BY <2>1 DEF Installed
<1> QED
  BY <1>2, <1>3, <1>4, <1>5, <1>6, <1>7

(* The same call goes on.                                                  *)
Like(t) ==
  /\ t.pkg = task.pkg /\ t.mark_automatic = task.mark_automatic
  /\ t.other_version = task.other_version /\ t.install_logdir = task.install_logdir
  /\ t.install_logdir_real = task.install_logdir_real

LEMMA GoesOn ==
  ASSUME TypeOK, Stack, Adding, NEW pc \in Place, Goto(pc)
  PROVE  \E t \in PkgTask : /\ tasks' = <<t>> \o Tail(tasks) /\ t.pc = pc /\ Like(t)
                            /\ t.files = task.files /\ t.depends = task.depends
                            /\ t.mark_automatic = task.mark_automatic
                            /\ t.preserve = task.preserve
<1>1. task \in PkgTask
  BY TheTask
<1>2. PICK t : t = [task EXCEPT !.pc = pc]
  OBVIOUS
<1>3. /\ t \in PkgTask /\ t.pc = pc /\ Like(t) /\ t.files = task.files
      /\ t.depends = task.depends
      /\ t.mark_automatic = task.mark_automatic
      /\ t.preserve = task.preserve
  BY <1>1, <1>2 DEF PkgTask, Like
<1>4. tasks' = <<t>> \o Tail(tasks)
  BY <1>2 DEF Goto
<1> QED
  BY <1>3, <1>4

LEMMA FulfilledGoesOn ==
  ASSUME StructInv, Adding, task.depends # << >>, NEW best \in Installed, Fulfilled(best)
  PROVE  \E t \in PkgTask : /\ tasks' = <<t>> \o Tail(tasks) /\ t.pc = "depends" /\ Like(t)
                            /\ t.files = task.files /\ t.mark_automatic = task.mark_automatic
<1>1. task \in PkgTask
  BY TheTask DEF StructInv
<1>2. PICK d : d = (IF best \in Range(task.dependencies) THEN task.dependencies
                    ELSE Append(task.dependencies, best))
  OBVIOUS
<1>3. d \in Seq(Name)
  <2>1. best \in Name /\ task.dependencies \in Seq(Name)
    BY <1>1 DEF StructInv, TypeOK, StateType, DatabaseType, PkgTask
  <2> QED
    BY <1>2, <2>1, AppendProperties
<1>4. PICK q \in Seq(Pattern) : q = Tail(task.depends)
  <2>1. task.depends \in Seq(Pattern)
    BY <1>1 DEF PkgTask
  <2> QED
    BY <2>1, HeadTailProperties
<1>5. PICK t : t = [task EXCEPT !.pc = "depends", !.depends = q, !.dependencies = d]
  OBVIOUS
<1>6. t \in PkgTask /\ t.pc = "depends" /\ Like(t) /\ t.files = task.files
      /\ t.mark_automatic = task.mark_automatic
  BY <1>1, <1>3, <1>4, <1>5 DEF PkgTask, Place, Like
<1>7. tasks' = <<t>> \o Tail(tasks)
  BY <1>2, <1>4, <1>5 DEF Fulfilled
<1> QED
  BY <1>6, <1>7

(* One file more is extracted, or the call gives up and deletes them.      *)
LEMMA ExtractGoesOn ==
  ASSUME StructInv, ExtractFile
  PROVE  /\ Adding /\ task.pc = "extract_files" /\ task.files # << >> /\ task.files \in Seq(File)
         /\ \E t \in PkgTask :
              /\ tasks' = <<t>> \o Tail(tasks) /\ Like(t)
              /\ \/ /\ t.pc = "extract_files" /\ t.files = Tail(task.files)
                    /\ disk' = [disk EXCEPT ![Head(task.files)] = task.pkg]
                 \/ /\ t.pc = "nuke_pkg" /\ t.files = Plist[task.pkg].files
                    /\ UNCHANGED disk
<1>1. task.pc = "extract_files" /\ task.files # << >> /\ Adding /\ task \in PkgTask
  BY TheTask DEF ExtractFile, At, StructInv
<1>2. PICK f \in Seq(File) : f = Tail(task.files)
  <2>1. task.files \in Seq(File)
    BY <1>1 DEF PkgTask
  <2> QED
    BY <1>1, <2>1, HeadTailProperties
<1>3. PICK t : t = [task EXCEPT !.files = f]
  OBVIOUS
<1>4. t \in PkgTask /\ t.pc = task.pc /\ Like(t) /\ t.files = f
  BY <1>1, <1>2, <1>3 DEF PkgTask, Like
<1>5. PICK g \in Seq(File) : g = Plist[task.pkg].files
  BY <1>1, Plists DEF PkgTask
<1>6. PICK u : u = [task EXCEPT !.pc = "nuke_pkg", !.files = g]
  OBVIOUS
<1>7. u \in PkgTask /\ u.pc = "nuke_pkg" /\ Like(u) /\ u.files = g
  BY <1>1, <1>5, <1>6 DEF PkgTask, Place, Like
<1>8. \/ tasks' = <<t>> \o Tail(tasks) /\ disk' = [disk EXCEPT ![Head(task.files)] = task.pkg]
      \/ tasks' = <<u>> \o Tail(tasks) /\ UNCHANGED disk
  BY <1>2, <1>3, <1>5, <1>6 DEF ExtractFile
<1>9. task.files \in Seq(File)
  BY <1>1 DEF PkgTask
<1> QED
  BY <1>1, <1>2, <1>4, <1>5, <1>7, <1>8, <1>9

LEMMA RegisterGoesOn ==
  ASSUME StructInv, RegisterDepend
  PROVE  /\ Adding /\ task.pc = "pkg_register_depends"
         /\ \E t \in PkgTask : /\ tasks' = <<t>> \o Tail(tasks) /\ Like(t)
                               /\ t.pc = "pkg_register_depends" /\ t.files = task.files
<1>1. task.pc = "pkg_register_depends" /\ task.dependencies # << >> /\ Adding /\ task \in PkgTask
  BY TheTask DEF RegisterDepend, At, StructInv
<1>2. PICK q \in Seq(Name) : q = Tail(task.dependencies)
  <2>1. task.dependencies \in Seq(Name)
    BY <1>1 DEF PkgTask
  <2> QED
    BY <1>1, <2>1, HeadTailProperties
<1>3. PICK t : t = [task EXCEPT !.dependencies = q]
  OBVIOUS
<1>4. t \in PkgTask /\ t.pc = task.pc /\ Like(t) /\ t.files = task.files
  BY <1>1, <1>2, <1>3 DEF PkgTask, Like
<1> QED
  BY <1>1, <1>2, <1>3, <1>4 DEF RegisterDepend

LEMMA NukeGoesOn ==
  ASSUME StructInv, NukePkg
  PROVE  /\ Adding /\ task.pc = "nuke_pkg" /\ task.files # << >> /\ task.files \in Seq(File)
         /\ \E t \in PkgTask : /\ tasks' = <<t>> \o Tail(tasks) /\ Like(t)
                               /\ t.pc = "nuke_pkg" /\ t.files = Tail(task.files)
<1>1. task.pc = "nuke_pkg" /\ task.files # << >> /\ Adding /\ task \in PkgTask
  BY TheTask DEF NukePkg, At, StructInv
<1>2. task.files \in Seq(File)
  BY <1>1 DEF PkgTask
<1>3. PICK f \in Seq(File) : f = Tail(task.files)
  BY <1>1, <1>2, HeadTailProperties
<1>4. PICK t : t = [task EXCEPT !.files = f]
  OBVIOUS
<1>5. t \in PkgTask /\ t.pc = task.pc /\ Like(t) /\ t.files = f
  BY <1>1, <1>3, <1>4 DEF PkgTask, Like
<1>6. tasks' = <<t>> \o Tail(tasks)
  BY <1>3, <1>4 DEF NukePkg
<1> QED
  BY <1>1, <1>2, <1>3, <1>5, <1>6

(* What a step that touches only the innermost call does to it.            *)
Continues(P, Q) ==
  \E t \in PkgTask : tasks' = <<t>> \o Tail(tasks) /\ task.pc \in P /\ t.pc \in Q /\ Like(t)

LEMMA WhereItGoes ==
  ASSUME StructInv, AddStep,
         GivesUp \/ ~(Check \/ Mkdir \/ WriteMetaData \/ RenameDirectory \/ NukePkgdb)
  PROVE  \/ /\ tasks' = Tail(tasks)
            /\ task.pc \in {"check", "depends", "installed", "pkg_register_depends"}
            /\ task.pc \in {"depends", "installed"} => task.other_version = NULL
         \/ Continues({"depends", "installed"}, {"depends", "installed"})
         \/ Continues({"depends"}, {"mkdir"}) /\ task.other_version = NULL
         \/ Continues({"depends"}, {"pre_install"}) /\ task.other_version # NULL
         \/ Continues({"depends", "installed"}, {"nuke_pkgdb"}) /\ task.other_version # NULL
         \/ Continues({"preserve_meta_data_file"}, {"preserve_meta_data_file", "rename"})
         \/ Continues({"mkdir", "write_meta_data", "preserve_meta_data_file"}, {"nuke_pkgdb"})
         \/ Continues({"pre_install", "extract_files", "mark_automatic", "pkg_register_depends",
                       "nuke_pkg"},
                      {"extract_files", "mark_automatic", "pkg_register_depends",
                       "nuke_pkg", "nuke_pkgdb"})
         \/ /\ task.pc = "depends"
            /\ \E p \in wanted(scenario, task.pkg), t \in PkgTask :
                 /\ tasks' = <<Task(p, TRUE), t>> \o Tail(tasks)
                 /\ t.pc = "installed" /\ Like(t) /\ t.files = task.files
                 /\ UNCHANGED <<database, trouble>>
<1>1. TypeOK /\ Stack /\ Adding /\ task \in PkgTask
  <2>1. Adding
    BY DEF AddStep, CheckAlreadyInstalled, Check, CheckDependency, DependencyInstalled,
     DependenciesDone, Mkdir, WriteMetaData, PreserveMetaDataFile, DeleteOther, RenameDirectory,
     PreInstall, ExtractFile, PostInstall, MarkAutomatic, RegisterDepend, Registered, NukePkg,
     NukePkgdb, At
  <2> QED
    BY <2>1, TheTask DEF StructInv
<1>2. CASE CheckAlreadyInstalled
  BY <1>2 DEF CheckAlreadyInstalled, At, Return
<1>3. CASE CheckDependency
  <2>1. task.pc = "depends" /\ task.depends # << >>
    BY <1>3 DEF CheckDependency, At
  <2>2. CASE \E best \in fulfilling : Fulfilled(best)
    BY <1>1, <2>1, <2>2, BestMatching, FulfilledGoesOn DEF fulfilling, Continues
  <2>3. CASE Goto("installed")
    BY <1>1, <2>1, <2>3, GoesOn DEF Place, Continues
  <2>4. ASSUME NEW p \in find_archive(pattern),
               tasks' = <<Task(p, TRUE), [task EXCEPT !.pc = "installed"]>> \o Tail(tasks)
        PROVE  \E d \in wanted(scenario, task.pkg), t \in PkgTask :
                 /\ tasks' = <<Task(d, TRUE), t>> \o Tail(tasks)
                 /\ t.pc = "installed" /\ Like(t) /\ t.files = task.files
    <3>1. PICK t : t = [task EXCEPT !.pc = "installed"]
      OBVIOUS
    <3>2. t \in PkgTask /\ t.pc = "installed" /\ Like(t) /\ t.files = task.files
      BY <1>1, <3>1 DEF PkgTask, Place, Like
    <3>3. p \in wanted(scenario, task.pkg)
      BY <1>1, <2>1, FoundIsWanted
    <3> QED
      BY <2>4, <3>1, <3>2, <3>3
  <2> QED
    BY <1>3, <2>1, <2>2, <2>3, <2>4 DEF CheckDependency
<1>4. CASE DependencyInstalled
  <2>1. task.pc = "installed" /\ task.depends # << >>
    BY <1>1, <1>4, TheTask DEF DependencyInstalled, At, TaskOK
  <2>2. CASE \E best \in fulfilling : Fulfilled(best)
    BY <1>1, <2>1, <2>2, BestMatching, FulfilledGoesOn DEF fulfilling, Continues
  <2>3. CASE tasks' = <<[task EXCEPT !.pc = "depends", !.depends = Tail(@)]>> \o Tail(tasks)
    <3>1. PICK q \in Seq(Pattern) : q = Tail(task.depends)
      <4>1. task.depends \in Seq(Pattern)
        BY <1>1 DEF PkgTask
      <4> QED
        BY <2>1, <4>1, HeadTailProperties
    <3>2. PICK t : t = [task EXCEPT !.pc = "depends", !.depends = q]
      OBVIOUS
    <3>3. t \in PkgTask /\ t.pc = "depends" /\ Like(t)
      BY <1>1, <3>1, <3>2 DEF PkgTask, Place, Like
    <3> QED
      BY <2>1, <2>3, <3>1, <3>2, <3>3 DEF Continues
  <2>4. CASE DependsFail
    BY <1>1, <2>1, <2>4, GoesOn DEF DependsFail, Return, Place, Continues
  <2> QED
    BY <1>4, <2>2, <2>3, <2>4 DEF DependencyInstalled
<1>5. CASE DependenciesDone
  BY <1>1, <1>5, GoesOn DEF DependenciesDone, At, Place, Continues
<1>13. CASE GivesUp
  BY <1>1, <1>13, GoesOn DEF GivesUp, Place, Continues
<1>6. CASE PreserveMetaDataFile /\ ~GivesUp
  <2>1. task.pc = "preserve_meta_data_file" /\ task.preserve # << >>
    BY <1>6 DEF PreserveMetaDataFile, At
  <2>2. PICK q \in Seq({"required_by", "preserve", "automatic"}) : q = Tail(task.preserve)
    <3>1. task.preserve \in Seq({"required_by", "preserve", "automatic"})
      BY <1>1 DEF PkgTask
    <3> QED
      BY <2>1, <3>1, HeadTailProperties
  <2>3. PICK t : t = [task EXCEPT !.preserve = q]
    OBVIOUS
  <2>4. t \in PkgTask /\ t.pc = task.pc /\ Like(t)
    BY <1>1, <2>2, <2>3 DEF PkgTask, Like
  <2>5. tasks' = <<[task EXCEPT !.preserve = Tail(@)]>> \o Tail(tasks)
    BY <1>6, <2>1 DEF PreserveMetaDataFile, GivesUp, At
  <2> QED
    BY <2>1, <2>2, <2>3, <2>4, <2>5 DEF Continues
<1>7. CASE DeleteOther
  BY <1>1, <1>7, GoesOn DEF DeleteOther, At, Place, Continues
<1>8. CASE PreInstall \/ PostInstall \/ MarkAutomatic
  BY <1>1, <1>8, GoesOn DEF PreInstall, PostInstall, MarkAutomatic, At, Place, Continues
<1>9. CASE ExtractFile
  BY <1>9, ExtractGoesOn DEF Continues
<1>10. CASE RegisterDepend
  BY <1>10, RegisterGoesOn DEF Continues
<1>11. CASE Registered
  BY <1>11 DEF Registered, At, Return
<1>12. CASE NukePkg
  BY <1>12, NukeGoesOn DEF Continues
<1> QED
  BY <1>2, <1>3, <1>4, <1>5, <1>6, <1>7, <1>8, <1>9, <1>10, <1>11, <1>12, <1>13 DEF AddStep

LEMMA SameScenario ==
  ASSUME [Next]_vars
  PROVE  scenario' = scenario
BY DEF Next, vars, PkgAddCommand, PkgDeleteCommand, PkgAdminCommand, Step, RebuildTree, Rebuild,
   AddOrDeleteEnds, Kill

LEMMA CleanOnce ==
  ASSUME [Next]_vars, Clean'
  PROVE  Clean
BY UpdateStays DEF Clean

(* A package that waits for what it brings along is at odds with none of   *)
(* it.                                                                     *)
LEMMA Brought ==
  ASSUME TypeOK, Stack, Adding, NEW t \in Waiting
  PROVE  /\ task.pkg.base # t.pkg.base
         /\ Peaceful(scenario, task.pkg, t.pkg) /\ Peaceful(scenario, t.pkg, task.pkg)
         /\ Range(Plist[task.pkg].files) \cap Range(Plist[t.pkg].files) = {}
<1>1. t.pkg \in scenario.packages /\ scenario \in Scenarios
      /\ task.pkg \in brings(scenario, t.pkg)
  BY CallsOK DEF TypeOK, TaskOK
<1> QED
  BY <1>1, RepositoryAssumption, SameScenario DEF Peaceful, Noticed

LEMMA QuietConflict ==
  ASSUME StructInv, ConflictInv, [Next]_vars, AddStep,
         GivesUp \/ ~(Check \/ Mkdir \/ WriteMetaData \/ RenameDirectory \/ NukePkgdb)
  PROVE  ConflictInv'
<1>1. Installed' = Installed /\ \A n \in Installed : pkgdb'[n].contents = pkgdb[n].contents
  BY SameContents
<1>2. Clean' => Clean
  BY CleanOnce
<1>3. TypeOK /\ Stack /\ Adding /\ task \in PkgTask /\ TaskOK(task)
  <2>1. Adding
    BY DEF AddStep, CheckAlreadyInstalled, Check, CheckDependency, DependencyInstalled,
     DependenciesDone, Mkdir, WriteMetaData, PreserveMetaDataFile, DeleteOther, RenameDirectory,
     PreInstall, ExtractFile, PostInstall, MarkAutomatic, RegisterDepend, Registered, NukePkg,
     NukePkgdb, At
  <2> QED
    BY <2>1, TheTask DEF StructInv
<1>4. CASE /\ tasks' = Tail(tasks)
           /\ task.pc \in {"check", "depends", "installed", "pkg_register_depends"}
  <2>1. \A t \in Calls' : t \in Calls
    BY <1>3, <1>4, CallsPop
  <2>2. \A n : ~Beside(n)
    BY <1>4 DEF Beside, Filled
  <2> QED
    BY <1>1, <1>2, <2>1, <2>2, NothingNew, SameScenario DEF TwoOf
<1>5. ASSUME NEW P, NEW Q, Continues(P, Q), task.pc \in Filled => Q \subseteq Filled,
             Q \cap {"mkdir", "write_meta_data"} # {} => task.other_version = NULL,
             Q \cap {"depends", "installed", "mkdir", "write_meta_data"} # {} =>
               P \subseteq {"depends", "installed"}
      PROVE  ConflictInv'
  <2>1. PICK t \in PkgTask : tasks' = <<t>> \o Tail(tasks) /\ task.pc \in P /\ t.pc \in Q /\ Like(t)
    BY <1>5 DEF Continues
  <2>2. Calls = {task} \cup Waiting /\ Calls' = {t} \cup Waiting /\ task' = t /\ Adding'
    BY <1>3, <2>1, CallsPut
  <2>3. \A n : Beside(n) => Beside(n)'
    BY <1>5, <2>1, <2>2 DEF Beside, Like
  <2>4. \A m, n : TwoOf(m, n) => TwoOf(m, n)'
    BY <2>1, <2>2, <2>3 DEF TwoOf, Like
  <2>5. ToCome(t) => ToCome(task) /\ task.pkg = t.pkg /\ Own(task) \subseteq Own(t)
    BY <1>5, <2>1 DEF ToCome, Own, Like
  <2>6. \A u \in Calls' : ToCome(u) =>
          \E v \in Calls : ToCome(v) /\ v.pkg = u.pkg /\ Own(v) \subseteq Own(u)
    BY <2>2, <2>5
  <2> QED
    BY <1>1, <1>2, <2>3, <2>4, <2>6, NothingNew, SameScenario
<1>6. CASE /\ task.pc = "depends"
           /\ \E p \in wanted(scenario, task.pkg), t \in PkgTask :
                 /\ tasks' = <<Task(p, TRUE), t>> \o Tail(tasks)
                 /\ t.pc = "installed" /\ Like(t)
  <2>1. PICK p \in wanted(scenario, task.pkg), t \in PkgTask :
                 /\ tasks' = <<Task(p, TRUE), t>> \o Tail(tasks)
                 /\ t.pc = "installed" /\ Like(t)
    BY <1>6
  <2>2. p \in scenario.packages
    BY BestMatching DEF wanted
  <2>3. PICK u \in PkgTask : u = Task(p, TRUE) /\ u.pc = "check"
    BY <1>3, <2>2, NewTask DEF Task
  <2>4. Calls = {task} \cup Waiting /\ Calls' = {u, t} \cup Waiting /\ task' = u /\ Adding'
    BY <1>3, <2>1, <2>3, CallsPush
  <2>5. \A n : ~Beside(n)
    BY <1>6 DEF Beside, Filled
  <2>6. ToCome(t) => ToCome(task) /\ task.pkg = t.pkg /\ Own(task) \subseteq Own(t)
    BY <1>6, <2>1 DEF ToCome, Own, Like
  <2>7. ~ToCome(u)
    BY <2>3 DEF ToCome
  <2>8. \A v \in Calls' : ToCome(v) =>
          \E w \in Calls : ToCome(w) /\ w.pkg = v.pkg /\ Own(w) \subseteq Own(v)
    BY <2>4, <2>6, <2>7
  <2> QED
    BY <1>1, <1>2, <2>5, <2>8, NothingNew, SameScenario DEF TwoOf
<1>7. CASE Continues({"depends", "installed"}, {"depends", "installed"})
  <2>1. task.pc \notin Filled
    BY <1>7 DEF Continues, Filled
  <2> QED
    BY <1>5, <1>7, <2>1
<1>8. CASE Continues({"depends"}, {"mkdir"}) /\ task.other_version = NULL
  <2>1. task.pc \notin Filled
    BY <1>8 DEF Continues, Filled
  <2> QED
    BY <1>5, <1>8, <2>1
<1>9. CASE Continues({"depends"}, {"pre_install"})
  <2>1. task.pc \notin Filled
    BY <1>9 DEF Continues, Filled
  <2> QED
    BY <1>5, <1>9, <2>1
<1>10. CASE Continues({"depends", "installed"}, {"nuke_pkgdb"})
  <2>1. task.pc \notin Filled
    BY <1>10 DEF Continues, Filled
  <2> QED
    BY <1>5, <1>10, <2>1
<1>11. CASE Continues({"preserve_meta_data_file"}, {"preserve_meta_data_file", "rename"})
  BY <1>5, <1>11 DEF Filled
<1>13. CASE Continues({"mkdir", "write_meta_data", "preserve_meta_data_file"}, {"nuke_pkgdb"})
  BY <1>5, <1>13 DEF Filled
<1>12. CASE Continues({"pre_install", "extract_files", "mark_automatic", "pkg_register_depends",
                       "nuke_pkg"},
                      {"extract_files", "mark_automatic", "pkg_register_depends",
                       "nuke_pkg", "nuke_pkgdb"})
  <2>1. task.pc \notin Filled
    BY <1>12 DEF Continues, Filled
  <2> QED
    BY <1>5, <1>12, <2>1
<1> QED
  BY <1>4, <1>6, <1>7, <1>8, <1>9, <1>10, <1>11, <1>12, <1>13, WhereItGoes

(* A package that passes the checks is at odds with nothing installed.     *)
LEMMA CheckConflict ==
  ASSUME StructInv, ConflictInv, [Next]_vars, Check
  PROVE  ConflictInv'
<1>1. /\ Adding /\ task.pc = "check" /\ UNCHANGED pkgdb /\ TypeOK /\ Stack
      /\ task \in PkgTask /\ TaskOK(task) /\ task.pkg \in Pkg
  BY TheTask DEF Check, At, database, StructInv, PkgTask
<1>2. Installed' = Installed /\ \A n \in Installed : pkgdb'[n].contents = pkgdb[n].contents
  BY <1>1 DEF Installed
<1>3. Clean' => Clean
  BY CleanOnce
<1>4. \A n : ~Beside(n)
  BY <1>1 DEF Beside, Filled
<1>5. CASE tasks' = Tail(tasks)
  <2>1. \A t \in Calls' : t \in Calls
    BY <1>1, <1>5, CallsPop
  <2> QED
    BY <1>2, <1>3, <1>4, <2>1, NothingNew, SameScenario DEF TwoOf
<1>6. CASE tasks' = << >>
  <2>1. Calls' = {}
    BY <1>6 DEF Calls
  <2> QED
    BY <1>2, <1>3, <1>4, <2>1, NothingNew, SameScenario DEF TwoOf
<1>7. ASSUME NEW other \in others, CheckPasses(other), Checked(other)
      PROVE  ConflictInv'
  <2>1. PICK t : t = [task EXCEPT
                   !.pc = IF other = NULL THEN "depends" ELSE "mkdir",
                   !.other_version = other,
                   !.install_logdir = IF replaces_itself THEN Temporary(@) ELSE @,
                   !.install_logdir_real = IF replaces_itself THEN task.pkg ELSE NULL]
    OBVIOUS
  <2>2. /\ other \in Name \cup {NULL}
        /\ other # NULL => other \in Installed /\ other.base = task.pkg.base
        /\ replaces_itself => other = task.pkg
    BY <1>1, <1>7, OtherVersion
  <2>3. /\ t.pkg = task.pkg /\ t.other_version = other /\ t.pc \in {"depends", "mkdir"}
        /\ tasks' = <<t>> \o Tail(tasks)
    BY <1>1, <1>7, <2>1 DEF Checked, PkgTask
  <2>4. t \in PkgTask
    <3>1. (Temporary(task.pkg) \in Name /\ task.install_logdir = task.pkg) \/ ~replaces_itself
      BY <1>1, NameParts DEF TaskOK
    <3> QED
      BY <1>1, <2>1, <2>2, <3>1 DEF PkgTask, Place
  <2>5. Calls = {task} \cup Waiting /\ Calls' = {t} \cup Waiting /\ task' = t /\ Adding'
    BY <1>1, <2>3, <2>4, CallsPut
  <2>6. Own(t) = {other}
    BY <2>3 DEF Own
  <2>7. ASSUME Clean
        PROVE  Welcome(t)
    <3>1. Apart /\ TemporaryOK /\ ContentsOK
      BY <2>7 DEF ConflictInv
    <3>2. Installed \subseteq Pkg /\ \A n \in Complete : pkgdb[n].contents = n
      <4>1. Installed \subseteq Pkg
        BY <1>4, <3>1 DEF TemporaryOK
      <4>2. \A n \in Complete : pkgdb[n].contents \in Pkg /\ n \in Installed
        BY DEF Complete, StructInv, TypeOK, StateType, DatabaseType, Directory
      <4> QED
        BY <3>1, <4>1, <4>2, PkgAssumption DEF ContentsOK
    <3>3. ASSUME NEW n \in Installed \ {other}
          PROVE  n.base # task.pkg.base
      <4>1. CASE other # NULL
        BY <1>4, <2>2, <3>1, <3>3, <4>1 DEF Apart, TwoOf
      <4>2. CASE other = NULL
        <5>1. ~replaces_itself
          BY <1>1, <2>2, <4>2, PkgAssumption DEF Name
        <5>2. other_versions = {}
          <6>1. NULL \notin Installed
            BY PkgAssumption DEF StructInv, TypeOK, StateType, DatabaseType
          <6>2. other_versions \subseteq Installed
            BY <5>1, BestMatching DEF other_versions
          <6> QED
            BY <1>7, <4>2, <6>1, <6>2 DEF others
        <5>3. best_matching(BasePattern(task.pkg), Installed) = {}
          BY <5>1, <5>2 DEF other_versions
        <5>4. Installed \in SUBSET Name
          BY DEF StructInv, TypeOK, StateType, DatabaseType
        <5> QED
          BY <1>1, <3>3, <5>3, <5>4, NoneInstalled
      <4> QED
        BY <4>1, <4>2
    <3>4. ASSUME NEW n \in Complete \ {other}
          PROVE  /\ Peaceful(scenario, task.pkg, pkgdb[n].contents)
                 /\ Peaceful(scenario, pkgdb[n].contents, task.pkg)
      <4>1. n \in Installed \ {other} /\ pkgdb[n].contents = n
        BY <3>2 DEF Complete
      <4>2. ~own_conflict(other) /\ ~installed_conflict(other)
        BY <1>7 DEF CheckPasses, CheckFails
      <4>3. Compatible(task.pkg, n)
        BY <4>1, <4>2 DEF own_conflict, Compatible
      <4>4. Compatible(pkgdb[n].contents, task.pkg)
        BY <4>1, <4>2 DEF installed_conflict, Compatible, plist
      <4> QED
        BY <4>1, <4>3, <4>4, SameScenario DEF Peaceful
    <3> QED
      BY <2>3, <2>6, <3>3, <3>4 DEF Welcome
  <2>8. \A u \in Waiting : ToCome(u)' = ToCome(u) /\ Welcome(u)' = Welcome(u)
    BY <1>1, SameScenario DEF ToCome, Welcome, Own, Peaceful, Noticed, Installed, Complete
  <2>9. Welcome(t)' = Welcome(t)
    BY <1>1, SameScenario DEF Welcome, Own, Peaceful, Noticed, Installed, Complete
  <2>10. Clean' => \A u \in Calls' : ToCome(u) => Welcome(u)'
    BY <1>3, <2>5, <2>7, <2>8, <2>9 DEF ConflictInv
  <2>11. ContentsOK'
    BY <1>1 DEF ConflictInv, ContentsOK, Complete, Installed
  <2>12. Clean' => Apart' /\ TemporaryOK'
    BY <1>1, <1>3, <1>4, SameScenario DEF ConflictInv, Apart, TwoOf, TemporaryOK, Complete, Installed, Peaceful, Noticed
  <2> QED
    BY <2>10, <2>11, <2>12 DEF ConflictInv, ToCome
<1> QED
  BY <1>5, <1>6, <1>7 DEF Check, Return

(* The new directory of a call is named after its package.                 *)
LEMMA NewDirectory ==
  ASSUME NEW t \in PkgTask, TaskOK(t)
  PROVE  /\ t.install_logdir.base = t.pkg.base /\ t.pkg \in Pkg /\ t.install_logdir \in Name
         /\ t.other_version = NULL => t.install_logdir = t.pkg
         /\ t.install_logdir \notin Pkg => t.install_logdir_real # NULL
         /\ t.install_logdir_real # NULL => /\ t.install_logdir # t.other_version
                                            /\ t.install_logdir \notin Pkg
BY NameParts, PkgAssumption DEF TaskOK, PkgTask, Name

LEMMA MkdirEffect ==
  ASSUME StructInv, Mkdir, ~GivesUp
  PROVE  /\ Adding /\ ~Deleting /\ task.pc = "mkdir" /\ task \in PkgTask
         /\ pkgdb' = [n \in Installed \cup {task.install_logdir} |->
                        IF n \in Installed THEN pkgdb[n] ELSE EmptyDirectory]
         /\ Goto("write_meta_data")
BY TheTask DEF Mkdir, GivesUp, At, StructInv

LEMMA MkdirConflict ==
  ASSUME StructInv, ConflictInv, [Next]_vars, Mkdir, ~GivesUp
  PROVE  ConflictInv'
<1>1. /\ Adding /\ task.pc = "mkdir" /\ TypeOK /\ Stack /\ Goto("write_meta_data")
      /\ task \in PkgTask /\ TaskOK(task) /\ task.pkg \in Pkg
  BY TheTask, MkdirEffect DEF StructInv, PkgTask
<1>2. PICK dir \in Name : dir = task.install_logdir /\ dir.base = task.pkg.base
                          /\ (task.other_version = NULL => dir \in Pkg)
  BY <1>1, NewDirectory
<1>3. PICK t \in PkgTask : tasks' = <<t>> \o Tail(tasks) /\ t.pc = "write_meta_data" /\ Like(t)
  BY <1>1, GoesOn DEF Place
<1>4. Calls = {task} \cup Waiting /\ Calls' = {t} \cup Waiting /\ task' = t /\ Adding'
  BY <1>1, <1>3, CallsPut
<1>5. /\ Installed' = Installed \cup {dir}
      /\ \A n \in Installed : pkgdb'[n] = pkgdb[n]
      /\ dir \notin Installed => pkgdb'[dir] = EmptyDirectory
  BY <1>2, MkdirEffect DEF Installed
<1>6. Complete' = Complete /\ \A n \in Complete : pkgdb'[n] = pkgdb[n]
  BY <1>5 DEF Complete, EmptyDirectory
<1>7. Clean' => Clean
  BY CleanOnce
<1>8. \A n : ~Beside(n)
  BY <1>1 DEF Beside, Filled
<1>9. Beside(dir)' /\ task'.other_version = task.other_version
  BY <1>2, <1>3, <1>4 DEF Beside, Filled, Like
<1>10. ContentsOK'
  BY <1>6 DEF ConflictInv, ContentsOK
<1>11. ASSUME Clean'
       PROVE  Apart' /\ TemporaryOK' /\ \A u \in Calls' : ToCome(u) => Welcome(u)'
  <2>1. Apart /\ TemporaryOK /\ \A u \in Calls : ToCome(u) => Welcome(u)
    BY <1>7, <1>11 DEF ConflictInv
  <2>2. Own(task) = {task.other_version} /\ Own(t) = {task.other_version, dir}
    BY <1>1, <1>2, <1>3 DEF Own, Like
  <2>3. Welcome(task)
    BY <1>1, <1>4, <2>1 DEF ToCome
  <2>4. \A m, n \in Installed : ~TwoOf(m, n)
    BY <1>8 DEF TwoOf
  <2>5. ASSUME NEW n \in Installed, n # dir, n # task.other_version
        PROVE  n.base # dir.base
    BY <1>2, <2>2, <2>3, <2>5 DEF Welcome
  <2>6. ASSUME NEW m \in Installed', NEW n \in Installed', m # n, ~TwoOf(m, n)'
        PROVE  /\ m.base # n.base
               /\ m \in Complete' /\ n \in Complete' =>
                    Peaceful(scenario, pkgdb'[m].contents, pkgdb'[n].contents)
    <3>1. CASE m \in Installed /\ n \in Installed
      BY <1>6, <2>1, <2>4, <2>6, <3>1 DEF Apart
    <3>2. CASE m \notin Installed
      <4>1. m = dir /\ n \in Installed /\ m \notin Complete'
        BY <1>5, <1>6, <2>6, <3>2 DEF Complete
      <4>2. n # task.other_version
        BY <1>9, <2>6, <4>1 DEF TwoOf
      <4> QED
        BY <2>5, <2>6, <4>1, <4>2
    <3>3. CASE n \notin Installed
      <4>1. n = dir /\ m \in Installed /\ n \notin Complete'
        BY <1>5, <1>6, <2>6, <3>3 DEF Complete
      <4>2. m # task.other_version
        BY <1>9, <2>6, <4>1 DEF TwoOf
      <4> QED
        BY <2>5, <2>6, <4>1, <4>2
    <3> QED
      BY <3>1, <3>2, <3>3
  <2>7. Apart'
    BY <2>6, SameScenario DEF Apart, Peaceful
  <2>8. TemporaryOK'
    BY <1>5, <1>8, <1>9, <2>1 DEF TemporaryOK
  <2>9. Welcome(t)'
    <3>1. Own(t)' = {task.other_version, dir} /\ t.pkg = task.pkg
      BY <2>2, <1>3 DEF Own, Like
    <3>2. \A n \in Installed' \ Own(t)' : n.base # t.pkg.base
      BY <1>2, <1>5, <2>5, <3>1
    <3>3. \A n \in Complete' \ Own(t)' :
            Peaceful(scenario, t.pkg, pkgdb'[n].contents) /\ Peaceful(scenario, pkgdb'[n].contents, t.pkg)
      BY <1>6, <2>2, <2>3, <3>1 DEF Welcome
    <3> QED
      BY <3>2, <3>3, SameScenario DEF Welcome, Peaceful
  <2>10. ASSUME NEW u \in Waiting, ToCome(u)
         PROVE  Welcome(u)'
    <3>1. Welcome(u)
      BY <1>4, <2>1, <2>10
    <3>2. dir.base # u.pkg.base
      BY <1>1, <1>2, Brought
    <3>3. Own(u)' = Own(u)
      BY DEF Own
    <3>4. \A n \in Installed' \ Own(u) : n.base # u.pkg.base
      BY <1>5, <3>1, <3>2 DEF Welcome
    <3>5. \A n \in Complete' \ Own(u) :
            Peaceful(scenario, u.pkg, pkgdb'[n].contents) /\ Peaceful(scenario, pkgdb'[n].contents, u.pkg)
      BY <1>6, <3>1 DEF Welcome
    <3> QED
      BY <3>3, <3>4, <3>5, SameScenario DEF Welcome, Peaceful
  <2> QED
    BY <1>4, <2>7, <2>8, <2>9, <2>10
<1> QED
  BY <1>10, <1>11 DEF ConflictInv, ToCome

(* write_meta_data                                                         *)
LEMMA WriteMetaDataEffect ==
  ASSUME StructInv, WriteMetaData, ~GivesUp
  PROVE  /\ Adding /\ ~Deleting /\ task.pc = "write_meta_data" /\ task \in PkgTask /\ TaskOK(task)
         /\ task.pkg \in Pkg /\ task.pkg # NULL
         /\ task.install_logdir \in Installed
         /\ task.other_version # NULL => task.other_version \in Installed
         /\ Installed' = Installed /\ Complete' = Complete \cup {task.install_logdir}
         /\ pkgdb'[task.install_logdir].contents = task.pkg
         /\ pkgdb'[task.install_logdir].automatic = pkgdb[task.install_logdir].automatic
         /\ \A n \in Installed \ {task.install_logdir} : pkgdb'[n] = pkgdb[n]
         /\ \E t \in PkgTask : /\ tasks' = <<t>> \o Tail(tasks) /\ Like(t)
                               /\ t.files = task.files /\ t.mark_automatic = task.mark_automatic
                               /\ t.pc = IF task.other_version = NULL THEN "pre_install"
                                         ELSE "preserve_meta_data_file"
                               /\ task.other_version # NULL => t.preserve = start_replacing
<1>1. /\ Adding /\ ~Deleting /\ task.pc = "write_meta_data" /\ task \in PkgTask /\ TaskOK(task)
      /\ task.pkg \in Pkg /\ task.pkg # NULL /\ DatabaseType
      /\ task.install_logdir \in Installed
      /\ task.other_version # NULL => task.other_version \in Installed
  BY TheTask, PkgAssumption DEF WriteMetaData, At, StructInv, PkgTask, Running, DirOK, Name,
     TypeOK, StateType
<1>2. PICK dir \in Installed : dir = task.install_logdir
  BY <1>1
<1>7. pkgdb' = [pkgdb EXCEPT ![dir].contents = task.pkg,
                             ![dir].preserve = @ \/ task.pkg \in Preserved]
  BY <1>1, <1>2 DEF WriteMetaData, GivesUp, At
<1>3. /\ Installed' = Installed
      /\ pkgdb'[dir].contents = task.pkg
      /\ pkgdb'[dir].automatic = pkgdb[dir].automatic
      /\ \A n \in Installed \ {dir} : pkgdb'[n] = pkgdb[n]
  BY <1>1, <1>2, <1>7 DEF Installed, DatabaseType, Directory
<1>4. Complete' = Complete \cup {dir}
  BY <1>1, <1>3 DEF Complete
<1>5. CASE task.other_version = NULL
  <2>1. Goto("pre_install")
    BY <1>1, <1>5 DEF WriteMetaData, GivesUp, At, Goto
  <2> QED
    BY <1>1, <1>2, <1>3, <1>4, <1>5, <2>1, GoesOn DEF StructInv, Place
<1>6. CASE task.other_version # NULL
  <2>1. PICK t : t = [task EXCEPT !.pc = "preserve_meta_data_file", !.preserve = start_replacing]
    OBVIOUS
  <2>2. start_replacing \in Seq({"required_by", "preserve", "automatic"})
    BY DEF start_replacing
  <2>3. /\ t \in PkgTask /\ t.pc = "preserve_meta_data_file" /\ Like(t)
        /\ t.preserve = start_replacing
        /\ t.files = task.files /\ t.mark_automatic = task.mark_automatic
    BY <1>1, <2>1, <2>2 DEF PkgTask, Place, Like
  <2>4. tasks' = <<t>> \o Tail(tasks)
    BY <1>1, <1>6, <2>1 DEF WriteMetaData, GivesUp, At
  <2> QED
    BY <1>1, <1>2, <1>3, <1>4, <1>6, <2>3, <2>4
<1> QED
  BY <1>5, <1>6

LEMMA WriteMetaDataConflict ==
  ASSUME StructInv, ConflictInv, [Next]_vars, WriteMetaData, ~GivesUp
  PROVE  ConflictInv'
<1>1. /\ TypeOK /\ Stack /\ DatabaseType
      /\ Adding /\ task.pc = "write_meta_data" /\ task \in PkgTask /\ TaskOK(task)
      /\ task.pkg \in Pkg /\ task.pkg # NULL /\ Installed' = Installed
  BY WriteMetaDataEffect DEF StructInv, TypeOK, StateType
<1>2. PICK dir \in Installed : dir = task.install_logdir
  BY WriteMetaDataEffect
<1>3. /\ Complete' = Complete \cup {dir} /\ pkgdb'[dir].contents = task.pkg
      /\ \A n \in Installed \ {dir} : pkgdb'[n] = pkgdb[n]
  BY <1>2, WriteMetaDataEffect
<1>4. PICK t \in PkgTask : /\ tasks' = <<t>> \o Tail(tasks) /\ Like(t)
                           /\ t.pc = IF task.other_version = NULL THEN "pre_install"
                                     ELSE "preserve_meta_data_file"
  BY WriteMetaDataEffect
<1>5. Calls = {task} \cup Waiting /\ Calls' = {t} \cup Waiting /\ task' = t /\ Adding'
  BY <1>1, <1>4, CallsPut
<1>6. /\ dir.base = task.pkg.base
      /\ dir = task.pkg \/ dir = Temporary(task.pkg)
      /\ task.other_version = NULL => dir \in Pkg
  BY <1>1, <1>2, NewDirectory DEF TaskOK
<1>7. ContentsOK'
  BY <1>3, <1>6 DEF ConflictInv, ContentsOK, Complete
<1>8. Clean' => Clean
  BY CleanOnce
<1>9. \A n : Beside(n) <=> n = dir
  BY <1>1, <1>2 DEF Beside, Filled
<1>10. task.other_version # NULL => Beside(dir)' /\ task'.other_version = task.other_version
  BY <1>2, <1>4, <1>5 DEF Beside, Filled, Like
<1>11. ASSUME Clean'
       PROVE  Apart' /\ TemporaryOK' /\ \A u \in Calls' : ToCome(u) => Welcome(u)'
  <2>1. Apart /\ TemporaryOK /\ \A u \in Calls : ToCome(u) => Welcome(u)
    BY <1>8, <1>11 DEF ConflictInv
  <2>2. Own(task) = {task.other_version, dir}
    BY <1>1, <1>2 DEF Own
  <2>3. Welcome(task)
    BY <1>1, <1>5, <2>1 DEF ToCome
  <2>4. ASSUME NEW n \in Installed, n # dir, n # task.other_version
        PROVE  /\ n.base # dir.base /\ pkgdb'[n] = pkgdb[n]
               /\ n \in Complete' => /\ Peaceful(scenario, pkgdb'[n].contents, pkgdb'[dir].contents)
                                     /\ Peaceful(scenario, pkgdb'[dir].contents, pkgdb'[n].contents)
    BY <1>1, <1>3, <1>6, <2>2, <2>3, <2>4 DEF Welcome
  <2>5. ASSUME NEW m \in Installed', NEW n \in Installed', m # n, ~TwoOf(m, n)'
        PROVE  /\ m.base # n.base
               /\ m \in Complete' /\ n \in Complete' =>
                    Peaceful(scenario, pkgdb'[m].contents, pkgdb'[n].contents)
    <3>1. CASE m = dir
      <4>1. n # task.other_version
        BY <1>1, <1>10, <2>5, <3>1, PkgAssumption DEF TwoOf, TypeOK, StateType, DatabaseType
      <4> QED
        BY <1>1, <2>4, <2>5, <3>1, <4>1
    <3>2. CASE n = dir
      <4>1. m # task.other_version
        BY <1>1, <1>10, <2>5, <3>2, PkgAssumption DEF TwoOf, TypeOK, StateType, DatabaseType
      <4> QED
        BY <1>1, <2>4, <2>5, <3>2, <4>1
    <3>3. CASE m # dir /\ n # dir
      <4>1. ~TwoOf(m, n)
        BY <1>9, <3>3 DEF TwoOf
      <4> QED
        BY <1>1, <1>3, <2>1, <2>5, <3>3, <4>1 DEF Apart
    <3> QED
      BY <3>1, <3>2, <3>3
  <2>6. Apart'
    BY <2>5, SameScenario DEF Apart, Peaceful
  <2>7. TemporaryOK'
    BY <1>1, <1>6, <1>9, <1>10, <2>1 DEF TemporaryOK
  <2>8. ~ToCome(t)
    BY <1>4 DEF ToCome, Like
  <2>9. ASSUME NEW u \in Waiting, ToCome(u)
        PROVE  Welcome(u)'
    <3>1. Welcome(u)
      BY <1>5, <2>1, <2>9
    <3>2. Peaceful(scenario, task.pkg, u.pkg) /\ Peaceful(scenario, u.pkg, task.pkg)
      BY <1>1, Brought
    <3>3. Own(u)' = Own(u)
      BY DEF Own
    <3>4. \A n \in Installed' \ Own(u) : n.base # u.pkg.base
      BY <1>1, <3>1 DEF Welcome
    <3>5. ASSUME NEW n \in Complete' \ Own(u)
          PROVE  Peaceful(scenario, u.pkg, pkgdb'[n].contents) /\ Peaceful(scenario, pkgdb'[n].contents, u.pkg)
      <4>1. CASE n = dir
        BY <1>3, <3>2, <4>1
      <4>2. CASE n # dir
        <5>1. n \in Complete \ Own(u) /\ pkgdb'[n] = pkgdb[n]
          BY <1>3, <4>2 DEF Complete
        <5> QED
          BY <3>1, <5>1 DEF Welcome
      <4> QED
        BY <4>1, <4>2
    <3> QED
      BY <3>3, <3>4, <3>5, SameScenario DEF Welcome, Peaceful
  <2> QED
    BY <1>5, <2>6, <2>7, <2>8, <2>9
<1> QED
  BY <1>7, <1>11 DEF ConflictInv, ToCome

(* The child has ended: the old version is gone, or trouble has it.        *)
LEMMA RenameConflict ==
  ASSUME StructInv, ConflictInv, [Next]_vars, RenameDirectory
  PROVE  ConflictInv'
<1>1. /\ TypeOK /\ Stack
      /\ Adding /\ task.pc = "rename" /\ task \in PkgTask /\ TaskOK(task)
      /\ task.other_version # NULL
  BY RenameEffect DEF StructInv
<1>2. PICK p \in Pkg, dir \in Name : p = task.pkg /\ dir = task.install_logdir /\ dir.base = p.base
  BY <1>1, NewDirectory
<1>3. \/ /\ pkgdb' = pkgdb
         /\ task.install_logdir_real = NULL \/ task.install_logdir_real \in Installed
      \/ /\ task.install_logdir_real = p /\ (Clean' => p \notin Installed)
         /\ dir \in Installed /\ dir = Temporary(p) /\ dir # p
         /\ pkgdb[dir].contents = p
         /\ Installed' = (Installed \ {dir}) \cup {p}
         /\ pkgdb'[p] = pkgdb[dir]
         /\ \A n \in Installed \ {dir, p} : pkgdb'[n] = pkgdb[n]
  BY <1>2, RenameEffect DEF Clean
<1>4. PICK t \in PkgTask :
        /\ tasks' = <<t>> \o Tail(tasks)
        /\ t.pc = "depends" /\ t.pkg = p
        /\ t.other_version = task.other_version
  BY <1>2, RenamedTask
<1>5. Calls = {task} \cup Waiting /\ Calls' = {t} \cup Waiting /\ task' = t /\ Adding'
  BY <1>1, <1>4, CallsPut
<1>6. ~ToCome(t) /\ \A n : Beside(n) <=> n = dir
  BY <1>1, <1>2, <1>4 DEF ToCome, Beside, Filled
<1>7. Clean' => Clean /\ (task.other_version \in Installed => task.other_version = dir)
  BY <1>2, CleanOnce DEF RenameDirectory, Clean
<1>8. CASE pkgdb' = pkgdb /\ (task.install_logdir_real = NULL \/ task.install_logdir_real \in Installed)
  <2>1. Installed' = Installed
    BY <1>8 DEF Installed
  <2>2. ASSUME Clean'
        PROVE  dir \in Pkg /\ \A m, n \in Installed : m # n => ~TwoOf(m, n)
    <3>1. CASE task.install_logdir_real = NULL
      BY <1>1, <1>2, <1>6, <1>7, <2>2, <3>1, NewDirectory DEF TwoOf
    <3>2. CASE task.install_logdir_real # NULL
      <4>1. task.other_version = p /\ p \in Installed /\ dir # p
        BY <1>1, <1>2, <1>8, <3>2, NewDirectory DEF TaskOK
      <4> QED
        BY <1>7, <2>2, <4>1
    <3> QED
      BY <3>1, <3>2
  <2>3. Clean' => Apart'
    BY <1>7, <1>8, <2>1, <2>2, SameScenario DEF ConflictInv, Apart, Complete, Peaceful
  <2>4. Clean' => TemporaryOK'
    BY <1>6, <1>7, <2>1, <2>2 DEF ConflictInv, TemporaryOK
  <2>5. Clean' => \A u \in Waiting : ToCome(u) => Welcome(u)'
    BY <1>5, <1>7, <1>8, <2>1, SameScenario DEF ConflictInv, Welcome, Own, Complete, Peaceful
  <2>6. ContentsOK'
    BY <1>8, <2>1 DEF ConflictInv, ContentsOK, Complete
  <2> QED
    BY <1>5, <1>6, <2>3, <2>4, <2>5, <2>6 DEF ConflictInv, ToCome
<1>9. CASE /\ task.install_logdir_real = p /\ (Clean' => p \notin Installed)
           /\ dir \in Installed /\ dir = Temporary(p) /\ dir # p
           /\ pkgdb[dir].contents = p
           /\ Installed' = (Installed \ {dir}) \cup {p}
           /\ pkgdb'[p] = pkgdb[dir]
           /\ \A n \in Installed \ {dir, p} : pkgdb'[n] = pkgdb[n]
  <2>1. task.other_version = p /\ p # NULL
    BY <1>1, <1>2, <1>9, PkgAssumption DEF TaskOK, Name
  <2>2. Complete' = (Complete \ {dir}) \cup {p}
    BY <1>9, <2>1 DEF Complete
  <2>3. Clean' => \A m, n \in Installed : m # n => ~TwoOf(m, n)
    BY <1>6, <1>9, <2>1 DEF TwoOf
  <2>4. Clean' => Apart'
    <3> SUFFICES ASSUME Clean', NEW m \in Installed', NEW n \in Installed', m # n
                 PROVE  /\ m.base # n.base
                        /\ m \in Complete' /\ n \in Complete' =>
                             Peaceful(scenario, pkgdb'[m].contents, pkgdb'[n].contents)
      BY SameScenario DEF Apart, Peaceful
    <3>1. Apart /\ p \notin Installed
      BY <1>7, <1>9 DEF ConflictInv
    <3>2. CASE m = p
      <4>1. n \in Installed \ {dir} /\ pkgdb'[n] = pkgdb[n] /\ (n \in Complete' => n \in Complete)
        BY <1>9, <2>2, <3>2
      <4>2. dir.base # n.base /\ (n \in Complete => Peaceful(scenario, pkgdb[dir].contents, pkgdb[n].contents))
        BY <1>9, <2>1, <2>3, <3>1, <4>1 DEF Apart, Complete
      <4> QED
        BY <1>2, <1>9, <3>2, <4>1, <4>2
    <3>3. CASE n = p
      <4>1. m \in Installed \ {dir} /\ pkgdb'[m] = pkgdb[m] /\ (m \in Complete' => m \in Complete)
        BY <1>9, <2>2, <3>3
      <4>2. dir.base # m.base /\ (m \in Complete => Peaceful(scenario, pkgdb[m].contents, pkgdb[dir].contents))
        BY <1>9, <2>1, <2>3, <3>1, <4>1 DEF Apart, Complete
      <4> QED
        BY <1>2, <1>9, <3>3, <4>1, <4>2
    <3>4. CASE m # p /\ n # p
      BY <1>9, <2>2, <2>3, <3>1, <3>4 DEF Apart
    <3> QED
      BY <3>2, <3>3, <3>4
  <2>5. Clean' => TemporaryOK'
    BY <1>6, <1>7, <1>9 DEF ConflictInv, TemporaryOK
  <2>6. ASSUME Clean', NEW u \in Waiting, ToCome(u)
        PROVE  Welcome(u)'
    <3>1. Welcome(u) /\ p \notin Installed
      BY <1>9, <1>5, <1>7, <2>6 DEF ConflictInv
    <3>2. Own(u)' = Own(u) /\ Own(u) = {NULL}
      BY <1>1, <2>6, CallsOK DEF Own, ToCome
    <3>3. dir \in Complete /\ dir \notin Own(u)
      BY <1>2, <1>9, <2>1, <3>2, PkgAssumption DEF Complete
    <3>4. \A n \in Installed' \ Own(u) : n.base # u.pkg.base
      BY <1>2, <1>9, <3>1, <3>3 DEF Welcome
    <3>5. ASSUME NEW n \in Complete' \ Own(u)
          PROVE  Peaceful(scenario, u.pkg, pkgdb'[n].contents) /\ Peaceful(scenario, pkgdb'[n].contents, u.pkg)
      <4>1. CASE n = p
        BY <1>9, <3>1, <3>3, <4>1 DEF Welcome
      <4>2. CASE n # p
        <5>1. n \in Complete \ Own(u) /\ pkgdb'[n] = pkgdb[n]
          BY <1>9, <2>2, <4>2 DEF Complete
        <5> QED
          BY <3>1, <5>1 DEF Welcome
      <4> QED
        BY <4>1, <4>2
    <3> QED
      BY <3>2, <3>4, <3>5, SameScenario DEF Welcome, Peaceful
  <2>7. ContentsOK'
    BY <1>9, <2>2 DEF ConflictInv, ContentsOK, Complete
  <2> QED
    BY <1>5, <1>6, <2>4, <2>5, <2>6, <2>7 DEF ConflictInv, ToCome
<1> QED
  BY <1>3, <1>8, <1>9

LEMMA NukePkgdbEffect ==
  ASSUME StructInv, NukePkgdb
  PROVE  /\ Adding /\ ~Deleting /\ task \in PkgTask /\ TaskOK(task)
         /\ task.pc \in {"nuke_pkgdb", "nuke_pkg"} /\ (task.pc = "nuke_pkg" => task.files = << >>)
         /\ tasks' = Tail(tasks) /\ Installed' = Installed \ {task.install_logdir}
         /\ \A n \in Installed \ {task.install_logdir} : pkgdb'[n] = pkgdb[n]
         /\ task.other_version # NULL => {"tree", "update"} \subseteq trouble'
         /\ task.other_version = NULL => task.install_logdir = task.pkg
<1>1. /\ Adding /\ ~Deleting /\ task.pc \in {"nuke_pkgdb", "nuke_pkg"} /\ task \in PkgTask
      /\ TaskOK(task) /\ (task.pc = "nuke_pkg" => task.files = << >>)
  BY TheTask DEF NukePkgdb, At, StructInv
<1>2. PICK p : p = task.install_logdir /\ (task.other_version = NULL => p = task.pkg)
  BY <1>1, PkgAssumption DEF TaskOK, PkgTask, Name
<1>3. pkgdb' = remove_directory(p)
  BY <1>2 DEF NukePkgdb
<1>4. Installed' = Installed \ {p} /\ \A n \in Installed \ {p} : pkgdb'[n] = pkgdb[n]
  BY <1>3, RemoveDirectoryType DEF StructInv, TypeOK, StateType
<1> QED
  BY <1>1, <1>2, <1>4 DEF NukePkgdb, Return

LEMMA NukePkgdbConflict ==
  ASSUME StructInv, ConflictInv, [Next]_vars, NukePkgdb
  PROVE  ConflictInv'
<1>1. /\ Adding /\ tasks' = Tail(tasks) /\ task.pc \in {"nuke_pkgdb", "nuke_pkg"}
      /\ Installed' = Installed \ {task.install_logdir}
      /\ \A n \in Installed \ {task.install_logdir} : pkgdb'[n] = pkgdb[n]
  BY NukePkgdbEffect
<1>2. \A t \in Calls' : t \in Calls
  BY <1>1, CallsPop DEF StructInv
<1>3. ASSUME Clean'
      PROVE  /\ \A m, n \in Installed : ~TwoOf(m, n)
             /\ \A n \in Installed \ Pkg : ~Beside(n)
  <2>1. task \in PkgTask /\ TaskOK(task) /\ task.other_version = NULL
    BY <1>3, NukePkgdbEffect DEF Clean
  <2> QED
    BY <2>1, NewDirectory, PkgAssumption DEF TwoOf, Beside, StructInv, TypeOK, StateType,
       DatabaseType
<1> QED
  BY <1>1, <1>2, <1>3, CleanOnce, NothingNew, SameScenario

LEMMA AddStepConflict ==
  ASSUME StructInv, ConflictInv, [Next]_vars, AddStep
  PROVE  ConflictInv'
BY QuietConflict, CheckConflict, MkdirConflict, WriteMetaDataConflict, RenameConflict,
   NukePkgdbConflict

(* A step that leaves the calls alone and installs nothing.                *)
LEMMA SameCalls ==
  ASSUME ConflictInv, [Next]_vars, tasks' = tasks, Installed' \subseteq Installed,
         \A n \in Installed' : pkgdb'[n].contents \in {pkgdb[n].contents, NULL}
  PROVE  ConflictInv'
<1>1. Calls' = Calls /\ Adding' = Adding /\ task' = task
  BY DEF Calls, Adding, task
<1>2. \A n : Beside(n)' = Beside(n)
  BY <1>1 DEF Beside
<1>3. \A m, n : TwoOf(m, n)' = TwoOf(m, n)
  BY <1>1, <1>2 DEF TwoOf
<1> QED
  BY <1>1, <1>2, <1>3, CleanOnce, NothingNew, SameScenario

LEMMA DeleteStepContents ==
  ASSUME StructInv, DeleteStep
  PROVE  /\ Installed' \subseteq Installed
         /\ \A n \in Installed' : pkgdb'[n].contents \in {pkgdb[n].contents, NULL}
<1>1. CASE Deinstall \/ DeleteFile \/ EndDelete
  BY <1>1 DEF Deinstall, DeleteFile, EndDelete, database, Installed
<1>2. CASE RemoveDepend
  <2>1. PICK q, m : pkgdb' = without_line(q, m)
    BY <1>2 DEF RemoveDepend
  <2> QED
    BY <2>1, WithoutLine DEF StructInv, TypeOK, StateType
<1>3. CASE RemoveMetaData
  <2>1. EmptyDirectory.contents = NULL
    BY DEF EmptyDirectory
  <2> QED
    BY <1>3, <2>1, RemoveMetaDataEffect
<1>4. CASE Rmdir
  BY <1>4, RmdirEffect
<1> QED
  BY <1>1, <1>2, <1>3, <1>4 DEF DeleteStep

LEMMA NewCommandConflict ==
  ASSUME StructInv, ConflictInv, [Next]_vars, PkgAddCommand
  PROVE  ConflictInv'
<1>1. tasks = << >> /\ UNCHANGED pkgdb /\ TypeOK
  BY NothingRuns DEF PkgAddCommand, Idle, StructInv, database
<1>2. PICK p \in scenario.packages, opts \in scenario.add_options : tasks' = <<Task(p, "A" \in opts)>>
  BY DEF PkgAddCommand
<1>3. \A n : ~Beside(n)
  BY <1>1 DEF Beside, Adding
<1>4. \A t \in Calls' : ~ToCome(t)
  <2>1. PICK t : t = Task(p, "A" \in opts) /\ t.pc = "check"
    <3>1. \A a : Task(p, a).pc = "check"
      BY DEF Task
    <3> QED
      BY <3>1, Zenon
  <2>2. Calls' = {t}
    BY <1>2, <2>1 DEF Calls
  <2> QED
    BY <2>1, <2>2 DEF ToCome
<1> QED
  BY <1>1, <1>3, <1>4, CleanOnce, NothingNew, SameScenario DEF TwoOf, Installed

LEMMA KillConflict ==
  ASSUME StructInv, ConflictInv, [Next]_vars, Kill
  PROVE  ConflictInv'
<1>1. pkgdb' = pkgdb /\ Installed' = Installed
  BY DEF Kill, database, Installed
<1>2. CASE tasks' = tasks
  BY <1>1, <1>2, SameCalls
<1>3. CASE tasks' = << >> /\ trouble' = trouble \cup interrupted
  <2>1. Calls' = {}
    BY <1>3 DEF Calls
  <2>2. ASSUME Clean', Adding
        PROVE  task.other_version = NULL /\ task \in PkgTask /\ TaskOK(task)
    <3>1. ~Updating
      BY <1>3, <2>2 DEF Clean, interrupted
    <3> QED
      BY <2>2, <3>1, TheTask DEF StructInv, Updating
  <2>3. ASSUME Clean', NEW n \in Installed, Beside(n)
        PROVE  n \in Pkg
    BY <2>2, <2>3, NewDirectory DEF Beside
  <2>4. ASSUME Clean', NEW m \in Installed, NEW n \in Installed
        PROVE  ~TwoOf(m, n)
    BY <2>2, <2>4, PkgAssumption DEF TwoOf, Beside, StructInv, TypeOK, StateType, DatabaseType
  <2> QED
    BY <1>1, <2>1, <2>3, <2>4, CleanOnce, NothingNew, SameScenario
<1> QED
  BY <1>2, <1>3 DEF Kill

LEMMA StepConflict ==
  ASSUME StructInv, ConflictInv, [Next]_vars
  PROVE  ConflictInv'
<1>1. CASE AddStep
  BY <1>1, AddStepConflict
<1>2. CASE DeleteStep /\ tasks' = tasks
  BY <1>2, DeleteStepContents, SameCalls
<1>3. CASE PkgAddCommand
  BY <1>3, NewCommandConflict
<1>4. CASE PkgDeleteCommand \/ Rebuild \/ AddOrDeleteEnds \/ UNCHANGED vars
  BY <1>4, SameCalls DEF PkgDeleteCommand, Rebuild, AddOrDeleteEnds, vars, database, volatile,
     Installed
<1>5. CASE PkgAdminCommand \/ RebuildTree
  <2>1. tasks' = tasks
    BY <1>5 DEF PkgAdminCommand, RebuildTree, volatile
  <2> QED
    BY <1>5, <2>1, PkgAdminCommandStruct, RebuildTreeStruct, SameCalls
<1>6. CASE Kill
  BY <1>6, KillConflict
<1> QED
  BY <1>1, <1>2, <1>3, <1>4, <1>5, <1>6 DEF Next, Step

LEMMA InitConflict ==
  ASSUME InitAll
  PROVE  ConflictInv
BY DEF InitAll, Init, ConflictInv, ContentsOK, Apart, TemporaryOK, Calls, Complete, Installed

(* As long as no update has gone wrong, no two versions of a package are   *)
(* installed, and no packages that are at odds unless one brings the other *)
(* along, whatever is installed, updated and deleted, and wherever a       *)
(* command is killed or fails.                                             *)
THEOREM NoConflictsHolds == Spec => []NoConflicts
<1>1. InitAll => StructInv /\ ConflictInv
  BY InitStruct, InitConflict
<1>2. StructInv /\ ConflictInv /\ [Next]_vars => (StructInv /\ ConflictInv)'
  BY StepStruct, StepConflict
<1>3. ASSUME StructInv, ConflictInv
      PROVE  NoConflicts
  <2> SUFFICES ASSUME Idle, Clean, NEW m \in Complete, NEW n \in Complete, m # n
               PROVE  m.base # n.base /\ Peaceful(scenario, m, n)
    BY DEF NoConflicts, Clean
  <2>1. ~Adding
    BY <1>3, NothingRuns DEF Idle
  <2>2. Apart /\ TemporaryOK /\ ContentsOK
    BY <1>3 DEF ConflictInv
  <2>3. /\ m \in Pkg /\ pkgdb[m].contents \in Pkg /\ m \in Installed
        /\ n \in Pkg /\ pkgdb[n].contents \in Pkg /\ n \in Installed
    BY <1>3, <2>1, <2>2 DEF TemporaryOK, Beside, Complete, StructInv, TypeOK, StateType,
       DatabaseType, Directory
  <2>4. pkgdb[m].contents = m /\ pkgdb[n].contents = n
    BY <2>2, <2>3, PkgAssumption DEF ContentsOK
  <2> QED
    BY <2>1, <2>2, <2>3, <2>4 DEF Apart, TwoOf, Beside
<1> QED
  BY <1>1, <1>2, <1>3, PTL DEF Spec

-----------------------------------------------------------------------------
(* What the user asked for *)

(* A package that -U or -f replaces by itself and whose directory went     *)
(* with the old one: the call will fail, or trouble will have it.          *)
Spoiled(t) ==
  /\ t.pc \in {"rename", "depends", "installed", "pre_install", "nuke_pkgdb"}
  /\ t.other_version = t.pkg /\ t.install_logdir_real = NULL /\ t.pkg \notin Complete

Manual(n) == n \in Installed /\ ~pkgdb[n].automatic

(* A package that is about to be deleted.                                  *)
Going(n) ==
  \/ ~Adding /\ n \in ToSet(deletion.list)
  \/ Adding /\ task.pc = "rename" /\ n = task.other_version /\ n # task.install_logdir

Kept(b) ==
  \/ \E t \in Calls : Spoiled(t) /\ t.pkg.base = b
  \/ \E n \in Installed : Manual(n) /\ n.base = b /\ ~Going(n)

(* A package that is new was not asked for before.                         *)
Fresh == \A t \in Calls : t.other_version = NULL /\ t.pc # "check" => t.pkg.base \notin asked

(* A package that is new and asked for has no mark until it is entered.    *)
NewManual ==
  /\ Adding /\ task.other_version = NULL /\ ~task.mark_automatic
  /\ task.pc \in {"write_meta_data", "pre_install", "extract_files", "mark_automatic",
                  "pkg_register_depends"}
  => Manual(task.pkg)

(* While the meta data moves from the old version to the new one neither   *)
(* is marked as automatic.                                                 *)
BothManual ==
  Adding /\ task.other_version # NULL /\ task.pkg.base \in asked =>
    /\ task.pc \in {"mkdir", "write_meta_data", "preserve_meta_data_file"}
         => Manual(task.other_version)
    /\ task.pc \in {"write_meta_data", "preserve_meta_data_file"}
         => Manual(task.install_logdir)

ManualInv ==
  Clean => /\ \A b \in asked : Kept(b)
           /\ Fresh /\ NewManual /\ BothManual

(* Outside pkg_delete and the renaming of a directory nothing is about to  *)
(* be deleted.                                                             *)
LEMMA NothingGoes ==
  ASSUME StructInv', ~Deleting', Adding' => task'.pc # "rename"
  PROVE  \A n : ~Going(n)'
<1>1. deletion'.list = << >>
  BY DEF StructInv, Running
<1> QED
  BY <1>1, ToSetEmpty DEF Going

(* The steps of pkg_add that leave the marks alone.                        *)
LEMMA SameMarks ==
  ASSUME StructInv, AddStep,
         ~(Mkdir \/ WriteMetaData \/ PreserveMetaDataFile \/ RenameDirectory \/ NukePkgdb
           \/ CheckAlreadyInstalled \/ MarkAutomatic)
  PROVE  \A n \in Installed : pkgdb'[n].automatic = pkgdb[n].automatic
<1>1. DatabaseType
  BY DEF StructInv, TypeOK, StateType
<1>2. CASE RegisterDepend
  BY <1>1, <1>2 DEF RegisterDepend, Installed, DatabaseType, Directory
<1>3. CASE ~RegisterDepend
  BY <1>3 DEF AddStep, Check, CheckDependency, DependencyInstalled, DependenciesDone,
     DeleteOther, PreInstall, ExtractFile, PostInstall, Registered, NukePkg, database
<1> QED
  BY <1>2, <1>3

LEMMA AddStepFacts ==
  ASSUME StructInv, AddStep
  PROVE  Adding /\ ~Deleting /\ TypeOK /\ Stack /\ task \in PkgTask /\ TaskOK(task)
<1>1. Adding /\ ~Deleting
  BY DEF AddStep, CheckAlreadyInstalled, Check, CheckDependency, DependencyInstalled,
   DependenciesDone, Mkdir, WriteMetaData, PreserveMetaDataFile, DeleteOther, RenameDirectory,
   PreInstall, ExtractFile, PostInstall, MarkAutomatic, RegisterDepend, Registered, NukePkg,
   NukePkgdb, At
<1> QED
  BY <1>1, TheTask DEF StructInv

(* What keeps the invariant while nothing is about to be deleted.          *)
LEMMA ManualStays ==
  ASSUME StructInv', ManualInv, Clean, ~Deleting', Adding' => task'.pc # "rename",
         \A b \in asked' \ asked : \E n : Manual(n)' /\ n.base = b,
         \A n \in Installed : Manual(n) /\ n.base \in asked' => Manual(n)',
         \A t \in Calls : Spoiled(t) => \E u \in Calls' : u.pkg = t.pkg /\ Spoiled(u)',
         Fresh', NewManual', BothManual'
  PROVE  ManualInv'
<1>1. \A n : ~Going(n)'
  BY NothingGoes
<1>2. ASSUME NEW b \in asked'
      PROVE  Kept(b)'
  <2>1. CASE b \notin asked
    BY <1>1, <1>2, <2>1 DEF Kept, Manual
  <2>2. CASE b \in asked
    <3>1. Kept(b)
      BY <2>2 DEF ManualInv
    <3>2. CASE \E t \in Calls : Spoiled(t) /\ t.pkg.base = b
      BY <3>2 DEF Kept
    <3>3. CASE \E n \in Installed : Manual(n) /\ n.base = b
      BY <1>1, <1>2, <3>3 DEF Kept, Manual
    <3> QED
      BY <3>1, <3>2, <3>3 DEF Kept
  <2> QED
    BY <2>1, <2>2
<1> QED
  BY <1>2 DEF ManualInv

(* The innermost call goes on and no +CONTENTS comes or goes.              *)
LEMMA ContinuesManual ==
  ASSUME StructInv, StructInv', ManualInv, Clean, Adding, ~Deleting',
         NEW t \in PkgTask, tasks' = <<t>> \o Tail(tasks), Like(t),
         t.pc # "rename", task.pc # "check", asked' \subseteq asked, Complete' = Complete,
         \A n \in Installed : Manual(n) /\ n.base \in asked' => Manual(n)',
         Spoiled(task) => t.pc \in {"depends", "installed", "pre_install", "nuke_pkgdb"},
         NewManual', BothManual'
  PROVE  ManualInv'
<1>1. Calls = {task} \cup Waiting /\ Calls' = {t} \cup Waiting /\ task' = t /\ Adding'
  BY CallsPut DEF StructInv
<1>2. Fresh'
  BY <1>1 DEF ManualInv, Fresh, Like
<1>3. \A u \in Waiting : Spoiled(u) => Spoiled(u)'
  BY DEF Spoiled
<1>4. Spoiled(task) => Spoiled(t)' /\ t.pkg = task.pkg
  BY DEF Spoiled, Like
<1>5. \A u \in Calls : Spoiled(u) => \E v \in Calls' : v.pkg = u.pkg /\ Spoiled(v)'
  BY <1>1, <1>3, <1>4
<1> QED
  BY <1>1, <1>2, <1>5, ManualStays

(* The innermost call ends; it has not deleted another version.            *)
LEMMA PopManual ==
  ASSUME StructInv, StructInv', ManualInv, Clean, Adding, ~Deleting', tasks' = Tail(tasks),
         \A b \in asked' \ asked : b = task.pkg.base /\ \E n : Manual(n)' /\ n.base = b,
         \A n \in Installed : Manual(n) /\ n.base \in asked' => Manual(n)',
         Complete' \subseteq Complete, ~Spoiled(task)
  PROVE  ManualInv'
<1>1. TypeOK /\ Stack
  BY DEF StructInv
<1>2. Calls = {task} \cup Waiting /\ Calls' = Waiting
  BY <1>1, CallsPop, TheCalls
<1>3. Adding' => task' \in Waiting /\ task'.pc = "installed"
  BY <1>1, Pop, TheTask
<1>4. NewManual' /\ BothManual'
  BY <1>3 DEF NewManual, BothManual
<1>5. \A u \in Waiting : Spoiled(u) => Spoiled(u)'
  BY DEF Spoiled
<1>6. \A u \in Waiting : task.pkg.base # u.pkg.base
  BY <1>1, Brought
<1>7. Fresh'
  BY <1>2, <1>6 DEF ManualInv, Fresh
<1>8. \A u \in Calls : Spoiled(u) => \E v \in Calls' : v.pkg = u.pkg /\ Spoiled(v)'
  BY <1>2, <1>5
<1> QED
  BY <1>3, <1>4, <1>7, <1>8, ManualStays

(* A call that has no other version is not spoiled.                        *)
LEMMA NewNotSpoiled ==
  ASSUME NEW t \in PkgTask, t.other_version = NULL
  PROVE  ~Spoiled(t)
BY PkgAssumption DEF Spoiled, PkgTask, Name

LEMMA DependsManual ==
  ASSUME StructInv, ManualInv, [Next]_vars, Clean',
         CheckDependency \/ DependencyInstalled \/ DependenciesDone, UNCHANGED <<scenario, command>>
  PROVE  ManualInv'
<1>1. AddStep /\ ~(Check \/ Mkdir \/ WriteMetaData \/ RenameDirectory \/ NukePkgdb)
      /\ task.pc \in {"depends", "installed"}
  BY DEF AddStep, Check, Mkdir, WriteMetaData, RenameDirectory, NukePkgdb, CheckDependency,
   DependencyInstalled, DependenciesDone, At
<1>2. Adding /\ ~Deleting /\ TypeOK /\ Stack /\ task \in PkgTask /\ TaskOK(task)
  BY <1>1, AddStepFacts
<1>3. UNCHANGED <<pkgdb, asked, deletion>> /\ Complete' = Complete /\ \A n : Manual(n) <=> Manual(n)'
  BY DEF CheckDependency, DependencyInstalled, DependenciesDone, database, Complete, Installed,
   Manual
<1>4. StructInv' /\ Clean /\ ~Deleting'
  BY <1>2, <1>3, StepStruct, CleanOnce DEF Deleting
<1>5. CASE tasks' = Tail(tasks) /\ task.other_version = NULL
  BY <1>2, <1>3, <1>4, <1>5, NewNotSpoiled, PopManual
<1>6. ASSUME NEW t \in PkgTask, tasks' = <<t>> \o Tail(tasks), Like(t),
             t.pc \in {"depends", "installed", "mkdir", "pre_install", "nuke_pkgdb"},
             t.pc = "mkdir" => task.other_version = NULL,
             t.pc = "pre_install" => task.other_version # NULL
      PROVE  ManualInv'
  <2>1. task' = t /\ Adding'
    BY <1>2, <1>6, CallsPut
  <2>2. NewManual' /\ BothManual'
    BY <1>6, <2>1 DEF NewManual, BothManual, Like
  <2>3. Spoiled(task) => t.pc # "mkdir"
    BY <1>2, <1>6, NewNotSpoiled
  <2> QED
    BY <1>1, <1>2, <1>3, <1>4, <1>6, <2>2, <2>3, ContinuesManual
<1>7. ASSUME NEW p \in wanted(scenario, task.pkg), NEW t \in PkgTask,
             tasks' = <<Task(p, TRUE), t>> \o Tail(tasks), t.pc = "installed", Like(t)
      PROVE  ManualInv'
  <2>1. p \in scenario.packages
    BY BestMatching DEF wanted
  <2>2. PICK u \in PkgTask : u = Task(p, TRUE) /\ u.pc = "check"
    BY <1>2, <2>1, NewTask DEF Task
  <2>3. Calls = {task} \cup Waiting /\ Calls' = {u, t} \cup Waiting /\ task' = u /\ Adding'
    BY <1>2, <1>7, <2>2, CallsPush
  <2>4. NewManual' /\ BothManual'
    BY <2>2, <2>3 DEF NewManual, BothManual
  <2>5. Fresh'
    BY <1>1, <1>3, <1>4, <1>7, <2>2, <2>3 DEF ManualInv, Fresh, Like
  <2>6. \A v : Spoiled(v) => Spoiled(v)'
    BY <1>3 DEF Spoiled
  <2>7. Spoiled(task) => t.pkg = task.pkg /\ Spoiled(t)
    BY <1>7 DEF Spoiled, Like
  <2>8. \A v \in Calls : Spoiled(v) => \E w \in Calls' : w.pkg = v.pkg /\ Spoiled(w)'
    BY <2>3, <2>6, <2>7
  <2> QED
    BY <1>3, <1>4, <2>2, <2>3, <2>4, <2>5, <2>8, ManualStays
<1> QED
  BY <1>1, <1>5, <1>6, <1>7, WhereItGoes DEF Continues

(* +INSTALL, the files, the mark and the lines.                            *)
LEMMA InstallManual ==
  ASSUME StructInv, ManualInv, [Next]_vars, Clean', UNCHANGED <<scenario, command>>,
         PreInstall \/ ExtractFile \/ PostInstall \/ RegisterDepend \/ NukePkg
  PROVE  ManualInv'
<1>1. /\ AddStep /\ ~(Mkdir \/ WriteMetaData \/ RenameDirectory \/ NukePkgdb)
      /\ ~(PreserveMetaDataFile \/ CheckAlreadyInstalled \/ MarkAutomatic)
      /\ task.pc \in {"pre_install", "extract_files", "pkg_register_depends", "nuke_pkg"}
  BY DEF AddStep, Mkdir, WriteMetaData, RenameDirectory, NukePkgdb, PreInstall, ExtractFile,
   PostInstall, RegisterDepend, NukePkg, PreserveMetaDataFile, CheckAlreadyInstalled,
   MarkAutomatic, At
<1>2. Adding /\ ~Deleting /\ TypeOK /\ Stack /\ task \in PkgTask /\ TaskOK(task)
  BY <1>1, AddStepFacts
<1>3. /\ UNCHANGED <<asked, deletion>> /\ Complete' = Complete
      /\ \A n : Manual(n) <=> Manual(n)'
  <2>1. UNCHANGED <<asked, deletion>>
    BY DEF PreInstall, ExtractFile, PostInstall, RegisterDepend, NukePkg
  <2> QED
    BY <1>1, <2>1, SameContents, SameMarks DEF Complete, Manual
<1>4. StructInv' /\ Clean /\ ~Deleting'
  BY <1>2, <1>3, StepStruct, CleanOnce DEF Deleting
<1>5. ASSUME NEW t \in PkgTask, tasks' = <<t>> \o Tail(tasks), Like(t),
             t.pc \in {"extract_files", "mark_automatic", "pkg_register_depends", "nuke_pkg",
                       "nuke_pkgdb"},
             task.pc = "nuke_pkg" => t.pc = "nuke_pkg",
             t.pc = "extract_files" => task.pc = "extract_files" \/ task.pkg \in Complete
      PROVE  ManualInv'
  <2>1. task' = t /\ Adding'
    BY <1>2, <1>5, CallsPut
  <2>2. NewManual' /\ BothManual'
    BY <1>1, <1>2, <1>3, <1>4, <1>5, <2>1 DEF ManualInv, NewManual, BothManual, Like
  <2>3. Spoiled(task) => t.pc = "nuke_pkgdb"
    <3>1. Spoiled(task) => task.pc = "pre_install" /\ task.pkg \notin Complete
      BY <1>1 DEF Spoiled
    <3>2. task.pc = "pre_install" => PreInstall
      BY DEF PreInstall, ExtractFile, PostInstall, RegisterDepend, NukePkg, At
    <3>3. PreInstall /\ task.pkg \notin Complete => Goto("nuke_pkgdb")
      BY DEF PreInstall, unrecorded, Clean
    <3>4. Goto("nuke_pkgdb") => t.pc = "nuke_pkgdb"
      <4>1. ASSUME Goto("nuke_pkgdb")
            PROVE  t.pc = "nuke_pkgdb"
        <5>1. PICK u \in PkgTask : tasks' = <<u>> \o Tail(tasks) /\ u.pc = "nuke_pkgdb"
          BY <1>2, <4>1, GoesOn DEF Place
        <5> QED
          BY <1>2, <2>1, <5>1, CallsPut
      <4> QED
        BY <4>1
    <3> QED
      BY <3>1, <3>2, <3>3, <3>4
  <2> QED
    BY <1>1, <1>2, <1>3, <1>4, <1>5, <2>2, <2>3, ContinuesManual
<1>6. CASE PreInstall
  <2>1. /\ task.pc = "pre_install"
        /\ (task.pkg \in Complete /\ Goto("extract_files")) \/ Goto("nuke_pkgdb")
    BY <1>6 DEF PreInstall, unrecorded, Clean, At
  <2>2. PICK t \in PkgTask : /\ tasks' = <<t>> \o Tail(tasks) /\ Like(t)
                             /\ t.pc \in {"extract_files", "nuke_pkgdb"}
                             /\ t.pc = "extract_files" => task.pkg \in Complete
    BY <1>2, <2>1, GoesOn DEF Place
  <2> QED
    BY <1>5, <2>1, <2>2
<1>7. CASE PostInstall
  <2>1. task.pc = "extract_files" /\ (Goto("mark_automatic") \/ Goto("nuke_pkgdb"))
    BY <1>7 DEF PostInstall, At
  <2>2. PICK t \in PkgTask : /\ tasks' = <<t>> \o Tail(tasks) /\ Like(t)
                             /\ t.pc \in {"mark_automatic", "nuke_pkgdb"}
    BY <1>2, <2>1, GoesOn DEF Place
  <2> QED
    BY <1>5, <2>1, <2>2
<1>8. CASE ExtractFile
  BY <1>5, <1>8, ExtractGoesOn
<1>9. CASE RegisterDepend
  BY <1>5, <1>9, RegisterGoesOn
<1>10. CASE NukePkg
  BY <1>5, <1>10, NukeGoesOn
<1> QED
  BY <1>6, <1>7, <1>8, <1>9, <1>10

LEMMA MarkManual ==
  ASSUME StructInv, ManualInv, [Next]_vars, Clean', UNCHANGED <<scenario, command>>,
         MarkAutomatic
  PROVE  ManualInv'
<1>1. AddStep /\ task.pc = "mark_automatic" /\ Goto("pkg_register_depends") /\ UNCHANGED deletion
  BY DEF AddStep, MarkAutomatic, At
<1>2. Adding /\ ~Deleting /\ TypeOK /\ Stack /\ task \in PkgTask /\ TaskOK(task)
  BY <1>1, AddStepFacts
<1>3. StructInv' /\ Clean /\ ~Deleting'
  BY <1>1, <1>2, StepStruct, CleanOnce DEF Deleting
<1>4. Complete' = Complete
  <2>1. ~(Mkdir \/ WriteMetaData \/ RenameDirectory \/ NukePkgdb)
    BY <1>1 DEF Mkdir, WriteMetaData, RenameDirectory, NukePkgdb, At
  <2> QED
    BY <1>1, <2>1, SameContents DEF Complete
<1>5. /\ asked' = IF task.mark_automatic THEN asked \ {task.pkg.base} ELSE asked
      /\ \A n : Manual(n) /\ (n = task.pkg => ~task.mark_automatic) => Manual(n)'
  <2>1. CASE task.mark_automatic
    BY <2>1, <1>2 DEF MarkAutomatic, Manual, Installed
  <2>2. CASE ~task.mark_automatic
    BY <2>2 DEF MarkAutomatic, Manual, Installed
  <2> QED
    BY <2>1, <2>2 DEF MarkAutomatic
<1>6. PICK t \in PkgTask : tasks' = <<t>> \o Tail(tasks) /\ Like(t) /\ t.pc = "pkg_register_depends"
  BY <1>1, <1>2, GoesOn DEF Place
<1>7. task' = t /\ Adding'
  BY <1>2, <1>6, CallsPut
<1>8. NewManual' /\ BothManual'
  BY <1>1, <1>2, <1>3, <1>5, <1>6, <1>7 DEF ManualInv, NewManual, BothManual, Like
<1>9. ~Spoiled(task)
  BY <1>1 DEF Spoiled
<1> QED
  BY <1>1, <1>2, <1>3, <1>4, <1>5, <1>6, <1>8, <1>9, ContinuesManual

LEMMA RegisteredManual ==
  ASSUME StructInv, ManualInv, [Next]_vars, Clean', UNCHANGED <<scenario, command>>,
         Registered
  PROVE  ManualInv'
<1>1. /\ AddStep /\ task.pc = "pkg_register_depends" /\ UNCHANGED <<deletion, pkgdb>>
      /\ tasks' = Tail(tasks)
  BY DEF AddStep, Registered, At, Return, database
<1>2. Adding /\ ~Deleting /\ TypeOK /\ Stack /\ task \in PkgTask /\ TaskOK(task)
  BY <1>1, AddStepFacts
<1>3. StructInv' /\ Clean /\ ~Deleting'
  BY <1>1, <1>2, StepStruct, CleanOnce DEF Deleting
<1>4. Complete' = Complete /\ \A n : Manual(n) <=> Manual(n)'
  BY <1>1 DEF Complete, Installed, Manual
<1>5. \A b \in asked' \ asked : b = task.pkg.base /\ \E n : Manual(n)' /\ n.base = b
  BY <1>1, <1>2, <1>3, <1>4 DEF Registered, ManualInv, NewManual
<1>6. ~Spoiled(task)
  BY <1>1 DEF Spoiled
<1> QED
  BY <1>1, <1>2, <1>3, <1>4, <1>5, <1>6, PopManual

LEMMA AlreadyManual ==
  ASSUME StructInv, ManualInv, [Next]_vars, Clean', UNCHANGED <<scenario, command>>,
         CheckAlreadyInstalled
  PROVE  ManualInv'
<1>1. /\ AddStep /\ task.pc = "check" /\ UNCHANGED deletion /\ tasks' = Tail(tasks)
      /\ task.pkg \in Complete
  BY DEF AddStep, CheckAlreadyInstalled, AlreadyInstalled, At, Return
<1>2. Adding /\ ~Deleting /\ TypeOK /\ Stack /\ task \in PkgTask /\ TaskOK(task)
  BY <1>1, AddStepFacts
<1>3. StructInv' /\ Clean /\ ~Deleting'
  BY <1>1, <1>2, StepStruct, CleanOnce DEF Deleting
<1>4. Complete' = Complete
  <2>1. ~(Mkdir \/ WriteMetaData \/ RenameDirectory \/ NukePkgdb)
    BY <1>1 DEF Mkdir, WriteMetaData, RenameDirectory, NukePkgdb, At
  <2> QED
    BY <1>1, <2>1, SameContents DEF Complete
<1>5. DatabaseType
  BY <1>2 DEF TypeOK, StateType
<1>6. PICK p : p = task.pkg
  OBVIOUS
<1>7. ~Spoiled(task)
  BY <1>1 DEF Spoiled
<1>8. CASE Automatic
  <2>1. asked' = asked /\ \A n : Manual(n) => Manual(n)'
    BY <1>8 DEF CheckAlreadyInstalled, Manual, Installed
  <2> QED
    BY <1>1, <1>2, <1>3, <1>4, <1>7, <2>1, PopManual
<1>9. CASE ~Automatic
  <2>1. pkgdb' = [pkgdb EXCEPT ![p].automatic = FALSE] /\ asked' = asked \cup {p.base}
    BY <1>6, <1>9 DEF CheckAlreadyInstalled
  <2>2. p \in Installed /\ pkgdb \in [Installed -> Directory]
    BY <1>1, <1>5, <1>6 DEF Complete, DatabaseType
  <2>3. ~pkgdb'[p].automatic /\ \A n \in Installed \ {p} : pkgdb'[n] = pkgdb[n]
    BY <2>1, <2>2 DEF Directory
  <2>4. Installed' = Installed
    BY <2>1, <2>2 DEF Installed
  <2>5. Manual(p)' /\ \A n : Manual(n) => Manual(n)'
    BY <2>2, <2>3, <2>4 DEF Manual
  <2>6. \A b \in asked' \ asked : b = p.base /\ \E n : Manual(n)' /\ n.base = b
    BY <2>1, <2>5
  <2> QED
    BY <1>1, <1>2, <1>3, <1>4, <1>6, <1>7, <2>5, <2>6, PopManual
<1> QED
  BY <1>8, <1>9

(* What the user asked for is installed while a new call is under way.     *)
LEMMA Keeper ==
  ASSUME StructInv, ManualInv, Clean, Adding, ~Spoiled(task), task.pkg.base \in asked
  PROVE  \E n \in Installed : Manual(n) /\ n.base = task.pkg.base /\ ~Going(n)
<1>1. Kept(task.pkg.base)
  BY DEF ManualInv
<1>2. \A u \in Waiting : task.pkg.base # u.pkg.base
  BY Brought DEF StructInv
<1>3. Calls = {task} \cup Waiting
  BY TheCalls DEF StructInv
<1> QED
  BY <1>1, <1>2, <1>3 DEF Kept

(* The only installed version of a package that is checked is the other    *)
(* one.                                                                    *)
LEMMA OnlyOther ==
  ASSUME StructInv, ConflictInv, Clean, Adding, task.pc = "check", NEW other \in others
  PROVE  \A n \in Installed \ {other} : n.base # task.pkg.base
<1>1. /\ other # NULL => other \in Installed /\ other.base = task.pkg.base
      /\ replaces_itself => other = task.pkg
  BY OtherVersion
<1>2. task.pkg \in Pkg /\ Installed \in SUBSET Name /\ NULL \notin Installed
  BY TheTask, PkgAssumption DEF StructInv, PkgTask, TypeOK, StateType, DatabaseType
<1>3. \A n : ~Beside(n)
  BY DEF Beside, Filled
<1>4. CASE other # NULL
  BY <1>1, <1>3, <1>4 DEF ConflictInv, Apart, TwoOf
<1>5. CASE other = NULL
  <2>1. ~replaces_itself
    BY <1>1, <1>2, <1>5, PkgAssumption DEF Name
  <2>2. other_versions \subseteq Installed
    BY <2>1, BestMatching DEF other_versions
  <2>3. best_matching(BasePattern(task.pkg), Installed) = {}
    BY <1>2, <1>5, <2>1, <2>2 DEF others, other_versions
  <2> QED
    BY <1>2, <2>3, NoneInstalled
<1> QED
  BY <1>4, <1>5

LEMMA CheckedTask ==
  ASSUME StructInv, Adding, task.pc = "check", NEW other \in others, Checked(other)
  PROVE  \E t \in PkgTask :
           /\ tasks' = <<t>> \o Tail(tasks)
           /\ t.pc = IF other = NULL THEN "depends" ELSE "mkdir"
           /\ t.pkg = task.pkg /\ t.other_version = other
           /\ t.files = task.files
<1>1. task \in PkgTask /\ TaskOK(task) /\ task.pkg \in Pkg
  BY TheTask DEF StructInv, PkgTask
<1>2. PICK t : t = [task EXCEPT
                 !.pc = IF other = NULL THEN "depends" ELSE "mkdir",
                 !.other_version = other,
                 !.install_logdir = IF replaces_itself THEN Temporary(@) ELSE @,
                 !.install_logdir_real = IF replaces_itself THEN task.pkg ELSE NULL]
  OBVIOUS
<1>3. other \in Name \cup {NULL}
  BY OtherVersion
<1>4. /\ t.pc = IF other = NULL THEN "depends" ELSE "mkdir"
      /\ t.pkg = task.pkg /\ t.other_version = other /\ t.files = task.files
      /\ tasks' = <<t>> \o Tail(tasks)
  BY <1>1, <1>2 DEF Checked, PkgTask
<1>5. t \in PkgTask
  <2>1. (Temporary(task.pkg) \in Name /\ task.install_logdir = task.pkg) \/ ~replaces_itself
    BY <1>1, NameParts DEF TaskOK
  <2> QED
    BY <1>1, <1>2, <1>3, <2>1 DEF PkgTask, Place
<1> QED
  BY <1>4, <1>5

LEMMA CheckManual ==
  ASSUME StructInv, ConflictInv, ManualInv, [Next]_vars, Clean', UNCHANGED <<scenario, command>>,
         Check
  PROVE  ManualInv'
<1>1. AddStep /\ task.pc = "check" /\ UNCHANGED <<pkgdb, asked, deletion>>
  BY DEF AddStep, Check, At, database
<1>2. Adding /\ ~Deleting /\ TypeOK /\ Stack /\ task \in PkgTask /\ TaskOK(task)
  BY <1>1, AddStepFacts
<1>3. StructInv' /\ Clean /\ ~Deleting'
  BY <1>1, <1>2, StepStruct, CleanOnce DEF Deleting
<1>4. Complete' = Complete /\ Installed' = Installed /\ \A n : Manual(n) <=> Manual(n)'
  BY <1>1 DEF Complete, Installed, Manual
<1>5. ~Spoiled(task)
  BY <1>1 DEF Spoiled
<1>6. CASE tasks' = Tail(tasks)
  BY <1>1, <1>2, <1>3, <1>4, <1>5, <1>6, PopManual
<1>7. CASE tasks' = << >> /\ trouble' = trouble \cup interrupted
  <2>1. ~Updating
    BY <1>7 DEF Clean, interrupted
  <2>2. \A t \in Calls : ~Spoiled(t)
    BY <1>2, <2>1, TheCalls, NewNotSpoiled DEF Updating, Calls
  <2>3. ~Adding' /\ Calls' = {}
    BY <1>7 DEF Adding, Calls
  <2>4. Fresh' /\ NewManual' /\ BothManual'
    BY <2>3 DEF Fresh, NewManual, BothManual
  <2> QED
    BY <1>1, <1>3, <1>4, <2>2, <2>3, <2>4, ManualStays
<1>8. ASSUME NEW other \in others, Checked(other)
      PROVE  ManualInv'
  <2>1. PICK t \in PkgTask :
           /\ tasks' = <<t>> \o Tail(tasks)
           /\ t.pc = IF other = NULL THEN "depends" ELSE "mkdir"
           /\ t.pkg = task.pkg /\ t.other_version = other
    BY <1>1, <1>2, <1>8, CheckedTask
  <2>2. Calls = {task} \cup Waiting /\ Calls' = {t} \cup Waiting /\ task' = t /\ Adding'
    BY <1>2, <2>1, CallsPut
  <2>3. \A n \in Installed \ {other} : n.base # task.pkg.base
    BY <1>1, <1>2, <1>3, <1>8, OnlyOther
  <2>4. task.pkg.base \in asked =>
          \E n \in Installed : Manual(n) /\ n.base = task.pkg.base /\ ~Going(n)
    BY <1>2, <1>3, <1>5, Keeper
  <2>5. NULL \notin Installed
    BY <1>2, PkgAssumption DEF TypeOK, StateType, DatabaseType
  <2>6. task.pkg.base \in asked => other # NULL /\ Manual(other)
    BY <2>3, <2>4, <2>5
  <2>7. Fresh'
    BY <1>1, <1>3, <2>1, <2>2, <2>6 DEF ManualInv, Fresh
  <2>8. NewManual' /\ BothManual'
    BY <1>1, <1>4, <2>1, <2>2, <2>6 DEF NewManual, BothManual
  <2>9. \A u \in Waiting : Spoiled(u) => Spoiled(u)'
    BY <1>4 DEF Spoiled
  <2>10. \A u \in Calls : Spoiled(u) => \E v \in Calls' : v.pkg = u.pkg /\ Spoiled(v)'
    BY <1>5, <2>2, <2>9
  <2>11. task'.pc # "rename"
    BY <2>1, <2>2
  <2> QED
    BY <1>1, <1>3, <1>4, <2>7, <2>8, <2>10, <2>11, ManualStays
<1> QED
  BY <1>6, <1>7, <1>8 DEF Check, Return

LEMMA GivesUpManual ==
  ASSUME StructInv, ManualInv, [Next]_vars, Clean', GivesUp
  PROVE  ManualInv'
<1>1. /\ Adding /\ ~Deleting /\ TypeOK /\ Stack /\ UNCHANGED <<pkgdb, asked, deletion>>
      /\ task.pc \in {"mkdir", "write_meta_data", "preserve_meta_data_file"}
  BY DEF GivesUp, StructInv
<1>2. StructInv' /\ Clean /\ ~Deleting' /\ Complete' = Complete
      /\ \A n : Manual(n) <=> Manual(n)'
  BY <1>1, StepStruct, CleanOnce DEF Deleting, Complete, Installed, Manual
<1>3. PICK t \in PkgTask : tasks' = <<t>> \o Tail(tasks) /\ t.pc = "nuke_pkgdb" /\ Like(t)
  BY <1>1, GoesOn DEF GivesUp, Place
<1>4. NewManual' /\ BothManual'
  BY <1>1, <1>3, CallsPut DEF NewManual, BothManual
<1>5. ~Spoiled(task)
  BY <1>1 DEF Spoiled
<1> QED
  BY <1>1, <1>2, <1>3, <1>4, <1>5, ContinuesManual

LEMMA MkdirManual ==
  ASSUME StructInv, ConflictInv, ManualInv, [Next]_vars, Clean', UNCHANGED <<scenario, command>>,
         Mkdir, ~GivesUp
  PROVE  ManualInv'
<1>1. AddStep /\ task.pc = "mkdir" /\ UNCHANGED <<asked, deletion>> /\ Goto("write_meta_data")
  BY MkdirEffect DEF AddStep, Mkdir
<1>2. Adding /\ ~Deleting /\ TypeOK /\ Stack /\ task \in PkgTask /\ TaskOK(task)
  BY <1>1, AddStepFacts
<1>3. StructInv' /\ Clean /\ ~Deleting'
  BY <1>1, <1>2, StepStruct, CleanOnce DEF Deleting
<1>4. PICK dir : dir = task.install_logdir /\ dir.base = task.pkg.base
                 /\ (task.other_version = NULL => dir = task.pkg)
  BY <1>2, NewDirectory
<1>5. /\ Installed' = Installed \cup {dir}
      /\ \A n \in Installed : pkgdb'[n] = pkgdb[n]
      /\ dir \notin Installed => pkgdb'[dir] = EmptyDirectory
  BY <1>4, MkdirEffect DEF Installed
<1>6. Complete' = Complete
  BY <1>5 DEF Complete, EmptyDirectory
<1>7. (\A n : Manual(n) => Manual(n)') /\ (dir \notin Installed => Manual(dir)')
  BY <1>5 DEF Manual, EmptyDirectory
<1>8. \A n \in Installed : n.base = task.pkg.base => n = task.other_version
  <2>1. Welcome(task)
    BY <1>1, <1>2, <1>3, TheCalls DEF ConflictInv, ToCome
  <2>2. Own(task) = {task.other_version}
    BY <1>1 DEF Own
  <2> QED
    BY <2>1, <2>2 DEF Welcome
<1>9. NULL \notin Installed
  BY <1>2, PkgAssumption DEF TypeOK, StateType, DatabaseType
<1>10. PICK t \in PkgTask : tasks' = <<t>> \o Tail(tasks) /\ t.pc = "write_meta_data" /\ Like(t)
  BY <1>1, <1>2, GoesOn DEF Place
<1>11. task' = t /\ Adding'
  BY <1>2, <1>10, CallsPut
<1>12. NewManual'
  BY <1>4, <1>7, <1>8, <1>9, <1>10, <1>11 DEF NewManual, Like
<1>13. BothManual'
  BY <1>1, <1>2, <1>3, <1>4, <1>7, <1>8, <1>10, <1>11 DEF ManualInv, BothManual, Like
<1>14. ~Spoiled(task)
  BY <1>1 DEF Spoiled
<1> QED
  BY <1>1, <1>2, <1>3, <1>6, <1>7, <1>10, <1>12, <1>13, <1>14, ContinuesManual

LEMMA WriteMetaDataManual ==
  ASSUME StructInv, ManualInv, [Next]_vars, Clean', UNCHANGED <<scenario, command>>,
         WriteMetaData, ~GivesUp
  PROVE  ManualInv'
<1>1. AddStep /\ UNCHANGED <<asked, deletion>>
  BY DEF AddStep, WriteMetaData
<1>2. /\ Adding /\ ~Deleting /\ task.pc = "write_meta_data" /\ task \in PkgTask /\ TaskOK(task)
      /\ Installed' = Installed /\ Complete' = Complete \cup {task.install_logdir}
      /\ \A n \in Installed : pkgdb'[n].automatic = pkgdb[n].automatic
  BY WriteMetaDataEffect
<1>3. PICK t \in PkgTask : /\ tasks' = <<t>> \o Tail(tasks) /\ Like(t)
                           /\ t.pc = IF task.other_version = NULL THEN "pre_install"
                                     ELSE "preserve_meta_data_file"
  BY WriteMetaDataEffect
<1>4. StructInv' /\ Clean /\ ~Deleting' /\ TypeOK /\ Stack
  BY <1>1, <1>2, StepStruct, CleanOnce DEF Deleting, StructInv
<1>5. Calls = {task} \cup Waiting /\ Calls' = {t} \cup Waiting /\ task' = t /\ Adding'
  BY <1>2, <1>3, <1>4, CallsPut
<1>6. \A n : Manual(n) <=> Manual(n)'
  BY <1>2 DEF Manual
<1>7. \A u \in Waiting : Spoiled(u) => Spoiled(u)'
  <2>1. task.install_logdir.base = task.pkg.base
    BY <1>2, NewDirectory
  <2>2. \A u \in Waiting : u.pkg # task.install_logdir
    BY <1>2, <1>4, <2>1, Brought
  <2> QED
    BY <1>2, <2>2 DEF Spoiled
<1>8. ~Spoiled(task)
  BY <1>2 DEF Spoiled
<1>9. \A u \in Calls : Spoiled(u) => \E v \in Calls' : v.pkg = u.pkg /\ Spoiled(v)'
  BY <1>5, <1>7, <1>8
<1>10. Fresh'
  BY <1>1, <1>2, <1>3, <1>4, <1>5 DEF ManualInv, Fresh, Like
<1>11. NewManual' /\ BothManual'
  BY <1>1, <1>2, <1>3, <1>4, <1>5, <1>6 DEF ManualInv, NewManual, BothManual, Like
<1>12. task'.pc # "rename"
  BY <1>3, <1>5
<1> QED
  BY <1>1, <1>4, <1>6, <1>9, <1>10, <1>11, <1>12, ManualStays

(* A mark that moves is that of a package nobody asked for.                *)
LEMMA PreserveManual ==
  ASSUME StructInv, ManualInv, [Next]_vars, Clean', UNCHANGED <<scenario, command>>,
         PreserveMetaDataFile, ~GivesUp
  PROVE  ManualInv'
<1>1. AddStep /\ UNCHANGED <<asked, deletion>>
      /\ ~(Check \/ Mkdir \/ WriteMetaData \/ RenameDirectory \/ NukePkgdb)
  BY DEF AddStep, PreserveMetaDataFile, Check, Mkdir, WriteMetaData, RenameDirectory, NukePkgdb,
     At
<1>2. /\ Adding /\ ~Deleting /\ task.pc = "preserve_meta_data_file" /\ task \in PkgTask
      /\ TaskOK(task) /\ task.other_version \in Installed /\ task.install_logdir \in Installed
      /\ Installed' = Installed
      /\ \A n \in Installed \ {task.other_version, task.install_logdir} : pkgdb'[n] = pkgdb[n]
      /\ pkgdb[task.other_version].automatic = FALSE
         => \A n \in Installed : pkgdb'[n].automatic = pkgdb[n].automatic
  BY PreserveEffect
<1>3. StructInv' /\ Clean /\ ~Deleting' /\ TypeOK /\ Stack
  BY <1>1, <1>2, StepStruct, CleanOnce DEF Deleting, StructInv
<1>4. Complete' = Complete
  BY <1>1, SameContents DEF Complete
<1>5. /\ task.other_version.base = task.pkg.base /\ task.other_version # NULL
      /\ task.install_logdir.base = task.pkg.base
      /\ pkgdb[task.other_version].automatic \in BOOLEAN
  BY <1>2, <1>3, NewDirectory, PkgAssumption DEF TaskOK, TypeOK, StateType, DatabaseType, Directory
<1>6. task.pkg.base \in asked => pkgdb[task.other_version].automatic = FALSE
  BY <1>2, <1>3, <1>5 DEF ManualInv, BothManual, Manual
<1>7. \A n \in Installed : Manual(n) /\ n.base \in asked' => Manual(n)'
  BY <1>1, <1>2, <1>5, <1>6 DEF Manual
<1>8. PICK t \in PkgTask : /\ tasks' = <<t>> \o Tail(tasks) /\ Like(t)
                           /\ t.pc = "preserve_meta_data_file"
  <2>1. task.preserve # << >> /\ task.preserve \in Seq({"required_by", "preserve", "automatic"})
    BY <1>2 DEF PreserveMetaDataFile, PkgTask
  <2>2. PICK q \in Seq({"required_by", "preserve", "automatic"}) : q = Tail(task.preserve)
    BY <2>1, HeadTailProperties
  <2>3. PICK t : t = [task EXCEPT !.preserve = q]
    OBVIOUS
  <2>4. t \in PkgTask /\ t.pc = task.pc /\ Like(t)
    BY <1>2, <2>2, <2>3 DEF PkgTask, Like
  <2> QED
    BY <1>2, <2>2, <2>3, <2>4 DEF PreserveMetaDataFile, GivesUp
<1>9. task' = t /\ Adding'
  BY <1>2, <1>3, <1>8, CallsPut
<1>10. NewManual'
  BY <1>8, <1>9 DEF NewManual
<1>11. BothManual'
  BY <1>1, <1>2, <1>3, <1>5, <1>7, <1>8, <1>9 DEF ManualInv, BothManual, Like
<1>12. ~Spoiled(task)
  BY <1>2 DEF Spoiled
<1> QED
  BY <1>1, <1>2, <1>3, <1>4, <1>7, <1>8, <1>10, <1>11, <1>12, ContinuesManual

(* pkg_delete of the old version begins: the new one keeps the mark.       *)
LEMMA DeleteOtherManual ==
  ASSUME StructInv, ManualInv, [Next]_vars, Clean', UNCHANGED <<scenario, command>>,
         DeleteOther
  PROVE  ManualInv'
<1>1. /\ AddStep /\ task.pc = "preserve_meta_data_file" /\ UNCHANGED <<asked, pkgdb>>
      /\ Goto("rename")
  BY DEF AddStep, DeleteOther, At, database
<1>2. Adding /\ ~Deleting /\ TypeOK /\ Stack /\ task \in PkgTask /\ TaskOK(task)
  BY <1>1, AddStepFacts
<1>3. Clean
  BY CleanOnce
<1>4. PICK t \in PkgTask : tasks' = <<t>> \o Tail(tasks) /\ t.pc = "rename" /\ Like(t)
  BY <1>1, <1>2, GoesOn DEF Place
<1>5. Calls = {task} \cup Waiting /\ Calls' = {t} \cup Waiting /\ task' = t /\ Adding'
  BY <1>2, <1>4, CallsPut
<1>6. Complete' = Complete /\ Installed' = Installed /\ \A n : Manual(n) <=> Manual(n)'
  BY <1>1 DEF Complete, Installed, Manual
<1>7. Fresh' /\ NewManual' /\ BothManual'
  BY <1>1, <1>3, <1>4, <1>5 DEF ManualInv, Fresh, NewManual, BothManual, Like
<1>8. /\ task.other_version # NULL /\ task.other_version.base = task.pkg.base
      /\ task.install_logdir.base = task.pkg.base
  BY <1>1, <1>2, NewDirectory DEF TaskOK
<1>9. \A n : Going(n)' <=> n = task.other_version /\ n # task.install_logdir
  BY <1>4, <1>5 DEF Going, Like
<1>10. ASSUME NEW b \in asked
       PROVE  Kept(b)'
  <2>1. Kept(b)
    BY <1>3 DEF ManualInv
  <2>2. CASE \E u \in Calls : Spoiled(u) /\ u.pkg.base = b
    <3>1. PICK u \in Waiting : Spoiled(u) /\ u.pkg.base = b
      BY <1>1, <1>5, <2>2 DEF Spoiled
    <3>2. Spoiled(u)' /\ u \in Calls'
      BY <1>5, <1>6, <3>1 DEF Spoiled
    <3> QED
      BY <3>1, <3>2 DEF Kept
  <2>3. ASSUME NEW n \in Installed, Manual(n), n.base = b
        PROVE  Kept(b)'
    <3>1. CASE ~Going(n)'
      BY <1>6, <2>3, <3>1 DEF Kept
    <3>2. CASE Going(n)'
      <4>1. task.pkg.base \in asked /\ task.pkg.base = b
        BY <1>8, <1>9, <1>10, <2>3, <3>2
      <4>2. PICK m : m = task.install_logdir
        OBVIOUS
      <4>3. Manual(m) /\ m \in Installed /\ m.base = b
        BY <1>1, <1>2, <1>3, <1>8, <4>1, <4>2 DEF ManualInv, BothManual, Manual
      <4>4. ~Going(m)'
        BY <1>9, <4>2
      <4> QED
        BY <1>6, <4>3, <4>4 DEF Kept
    <3> QED
      BY <3>1, <3>2
  <2> QED
    BY <2>1, <2>2, <2>3 DEF Kept
<1> QED
  BY <1>1, <1>7, <1>10 DEF ManualInv

(* The child has ended: the new version takes its place, or it has gone    *)
(* with the old one.                                                       *)
LEMMA RenameManual ==
  ASSUME StructInv, ManualInv, [Next]_vars, Clean', UNCHANGED <<scenario, command>>,
         RenameDirectory
  PROVE  ManualInv'
<1>1. /\ Adding /\ ~Deleting /\ task.pc = "rename" /\ task \in PkgTask /\ TaskOK(task)
      /\ task.other_version # NULL /\ TypeOK /\ Stack /\ UNCHANGED <<asked, deletion>>
  BY RenameEffect DEF StructInv, RenameDirectory
<1>2. PICK p \in Pkg, dir \in Name : p = task.pkg /\ dir = task.install_logdir /\ dir.base = p.base
  BY <1>1, NewDirectory
<1>3. \/ /\ pkgdb' = pkgdb
         /\ task.install_logdir_real = NULL \/ task.install_logdir_real \in Installed
      \/ /\ task.install_logdir_real = p /\ p \notin Installed
         /\ dir \in Installed /\ dir # p
         /\ Installed' = (Installed \ {dir}) \cup {p}
         /\ pkgdb'[p] = pkgdb[dir]
         /\ \A n \in Installed \ {dir} : pkgdb'[n] = pkgdb[n]
  BY <1>2, RenameEffect DEF Clean
<1>4. PICK t \in PkgTask :
        /\ tasks' = <<t>> \o Tail(tasks)
        /\ t.pc = "depends" /\ t.pkg = p /\ t.install_logdir_real = NULL
        /\ t.other_version = task.other_version /\ t.mark_automatic = task.mark_automatic
  BY <1>2, RenamedTask
<1>5. Calls = {task} \cup Waiting /\ Calls' = {t} \cup Waiting /\ task' = t /\ Adding'
  BY <1>1, <1>4, CallsPut
<1>6. StructInv' /\ Clean /\ ~Deleting'
  BY <1>1, StepStruct, CleanOnce DEF Deleting
<1>7. \A n : ~Going(n)'
  BY <1>4, <1>5, <1>6, NothingGoes
<1>8. Fresh' /\ NewManual' /\ BothManual'
  BY <1>1, <1>4, <1>5, <1>6 DEF ManualInv, Fresh, NewManual, BothManual
<1>9. Complete' \subseteq Complete \cup {p}
  BY <1>2, <1>3 DEF Complete, Installed
<1>10. \A u \in Waiting : Spoiled(u) => Spoiled(u)'
  <2>1. \A u \in Waiting : u.pkg # p
    BY <1>1, <1>2, Brought
  <2> QED
    BY <1>9, <2>1 DEF Spoiled
<1>11. Spoiled(task) => Spoiled(t)' /\ t.pkg = task.pkg
  <2> SUFFICES ASSUME Spoiled(task) PROVE Spoiled(t)'
    BY <1>2, <1>4
  <2>1. task.other_version = p /\ task.install_logdir_real = NULL /\ p \notin Complete
    BY <1>2 DEF Spoiled
  <2>2. p # NULL
    BY PkgAssumption DEF Name
  <2>3. pkgdb' = pkgdb
    BY <1>3, <2>1, <2>2
  <2> QED
    BY <1>4, <2>1, <2>3 DEF Spoiled, Complete, Installed
<1>12. ASSUME NEW b \in asked
       PROVE  Kept(b)'
  <2>1. Kept(b)
    BY <1>6 DEF ManualInv
  <2>2. CASE \E u \in Calls : Spoiled(u) /\ u.pkg.base = b
    <3>1. \E u \in Calls' : Spoiled(u)' /\ u.pkg.base = b
      BY <1>5, <1>10, <1>11, <2>2
    <3> QED
      BY <3>1 DEF Kept
  <2>3. ASSUME NEW n \in Installed, Manual(n), n.base = b
        PROVE  Kept(b)'
    <3>1. CASE pkgdb' = pkgdb
      BY <1>7, <2>3, <3>1 DEF Kept, Manual, Installed
    <3>2. CASE pkgdb' # pkgdb /\ n # dir
      BY <1>3, <1>7, <2>3, <3>2 DEF Kept, Manual
    <3>3. CASE pkgdb' # pkgdb /\ n = dir
      <4>1. Manual(p)' /\ p \in Installed' /\ p.base = b
        BY <1>2, <1>3, <2>3, <3>3 DEF Manual
      <4> QED
        BY <1>7, <4>1 DEF Kept
    <3> QED
      BY <3>1, <3>2, <3>3
  <2> QED
    BY <2>1, <2>2, <2>3 DEF Kept
<1> QED
  BY <1>1, <1>8, <1>12 DEF ManualInv

LEMMA NukePkgdbManual ==
  ASSUME StructInv, ManualInv, [Next]_vars, Clean', UNCHANGED <<scenario, command>>,
         NukePkgdb
  PROVE  ManualInv'
<1>1. /\ Adding /\ ~Deleting /\ task \in PkgTask /\ task.pc \in {"nuke_pkgdb", "nuke_pkg"}
      /\ task.other_version = NULL
      /\ tasks' = Tail(tasks) /\ Installed' = Installed \ {task.pkg}
      /\ \A n \in Installed \ {task.pkg} : pkgdb'[n] = pkgdb[n]
  BY NukePkgdbEffect DEF Clean
<1>2. UNCHANGED <<asked, deletion>>
  BY DEF NukePkgdb
<1>3. StructInv' /\ Clean /\ ~Deleting'
  BY <1>1, <1>2, StepStruct, CleanOnce DEF Deleting
<1>4. task \in Calls
  BY <1>1, TheCalls DEF StructInv
<1>5. task.pkg.base \notin asked
  BY <1>1, <1>3, <1>4 DEF ManualInv, Fresh
<1>6. \A n \in Installed : Manual(n) /\ n.base \in asked' => Manual(n)'
  BY <1>1, <1>2, <1>5 DEF Manual
<1>7. Complete' \subseteq Complete
  BY <1>1 DEF Complete
<1>8. ~Spoiled(task)
  BY <1>1, NewNotSpoiled
<1> QED
  BY <1>1, <1>2, <1>3, <1>6, <1>7, <1>8, PopManual

LEMMA AddStepManual ==
  ASSUME StructInv, ConflictInv, ManualInv, [Next]_vars, Clean', UNCHANGED <<scenario, command>>,
         AddStep
  PROVE  ManualInv'
BY AlreadyManual, CheckManual, DependsManual, MkdirManual, WriteMetaDataManual, PreserveManual,
   DeleteOtherManual, RenameManual, InstallManual, MarkManual, RegisteredManual, NukePkgdbManual,
   GivesUpManual
   DEF AddStep

-----------------------------------------------------------------------------
(* A step while pkg_delete runs, by itself or as a child.                  *)
LEMMA WhileDeleting ==
  ASSUME StructInv, ManualInv, Clean, Deleting, UNCHANGED <<tasks, asked>>,
         Complete' \subseteq Complete,
         \A n \in Installed : Manual(n) /\ ~Going(n) =>
           \/ Manual(n)' /\ ~Going(n)'
           \/ \E t \in Calls : Spoiled(t)' /\ t.pkg.base = n.base
  PROVE  ManualInv'
<1>1. Calls' = Calls /\ Adding' = Adding /\ task' = task
  BY DEF Calls, Adding, task
<1>2. Adding => task.pc = "rename"
  BY DEF StructInv, Running
<1>3. Fresh' /\ NewManual' /\ BothManual'
  BY <1>1, <1>2 DEF ManualInv, Fresh, NewManual, BothManual
<1>4. \A t : Spoiled(t) => Spoiled(t)'
  BY DEF Spoiled
<1>5. ASSUME NEW b \in asked
      PROVE  Kept(b)'
  <2>1. Kept(b)
    BY DEF ManualInv
  <2>2. CASE \E t \in Calls : Spoiled(t) /\ t.pkg.base = b
    BY <1>1, <1>4, <2>2 DEF Kept
  <2>3. ASSUME NEW n \in Installed, Manual(n), n.base = b, ~Going(n)
        PROVE  Kept(b)'
    <3>1. CASE Manual(n)' /\ ~Going(n)'
      BY <2>3, <3>1 DEF Kept, Manual
    <3>2. CASE \E t \in Calls : Spoiled(t)' /\ t.pkg.base = n.base
      BY <1>1, <2>3, <3>2 DEF Kept
    <3> QED
      BY <2>3, <3>1, <3>2
  <2> QED
    BY <2>1, <2>2, <2>3 DEF Kept
<1> QED
  BY <1>3, <1>5 DEF ManualInv

(* The list only gets shorter.                                             *)
LEMMA ListShrinks ==
  ASSUME StructInv, DeleteStep
  PROVE  Deleting /\ ToSet(deletion'.list) \subseteq ToSet(deletion.list)
<1>1. Deleting /\ deletion \in Deletion
  BY DEF DeleteStep, Deinstall, DeleteFile, RemoveDepend, RemoveMetaData, Rmdir, EndDelete,
   Deleting, StructInv, TypeOK
<1>2. CASE DeleteFile \/ RemoveDepend
  BY <1>1, <1>2 DEF DeleteFile, RemoveDepend, Deletion
<1>3. CASE Deinstall
  <2>1. ToSet(remaining(TRUE)) \subseteq ToSet(deletion.list)
    BY <1>1, <1>3, NotTheNewOne DEF Deinstall
  <2>2. deletion'.list \in {deletion.list, remaining(TRUE)}
    BY <1>1, <1>3 DEF Deinstall, Deletion
  <2> QED
    BY <1>1, <2>1, <2>2
<1>4. CASE RemoveMetaData
  BY <1>1, <1>4, RemoveMetaDataEffect
<1>5. CASE Rmdir
  BY <1>1, <1>5, RmdirEffect
<1>6. CASE EndDelete
  BY <1>1, <1>6, NoDeletionType, ToSetEmpty DEF EndDelete
<1> QED
  BY <1>2, <1>3, <1>4, <1>5, <1>6 DEF DeleteStep

(* A package that is not about to be deleted and is deleted all the same   *)
(* is the one that pkg_add replaces by itself.                             *)
LEMMA SpoiledByDelete ==
  ASSUME StructInv, Deleting, deletion.list # << >>, ~Going(this), this \notin Complete'
  PROVE  \E t \in Calls : Spoiled(t)' /\ t.pkg.base = this.base
<1>1. this \in ToSet(deletion.list)
  BY NotTheNewOne
<1>2. Adding
  BY <1>1 DEF Going
<1>3. task.pc = "rename" /\ this = task.other_version /\ task \in PkgTask /\ TaskOK(task)
      /\ task \in Calls
  BY <1>1, <1>2, TheTask, TheCalls DEF StructInv, Running
<1>4. this = task.install_logdir
  BY <1>2, <1>3 DEF Going
<1>5. task.install_logdir_real = NULL /\ this = task.pkg
  BY <1>2, <1>3, <1>4, NotTheNewOne DEF TaskOK
<1>6. PICK t \in Calls : t = task
  BY <1>3
<1>7. Spoiled(t)'
  BY <1>3, <1>5, <1>6 DEF Spoiled
<1> QED
  BY <1>5, <1>6, <1>7

LEMMA DeleteStepManual ==
  ASSUME StructInv, ManualInv, [Next]_vars, Clean', DeleteStep, UNCHANGED <<tasks, asked>>
  PROVE  ManualInv'
<1>1. Clean /\ Deleting /\ ToSet(deletion'.list) \subseteq ToSet(deletion.list)
      /\ DatabaseType
  BY CleanOnce, ListShrinks DEF StructInv, TypeOK, StateType
<1>2. \A n : Going(n)' => Going(n)
  BY <1>1 DEF Going, Adding, task
<1>3. Complete' \subseteq Complete
  BY DeleteStepContents DEF Complete
<1>4. CASE \A n \in Installed : Manual(n) => Manual(n)'
  BY <1>1, <1>2, <1>3, <1>4, WhileDeleting
<1>5. CASE Deinstall \/ DeleteFile \/ EndDelete
  BY <1>4, <1>5 DEF Deinstall, DeleteFile, EndDelete, database, Manual, Installed
<1>6. CASE RemoveDepend
  <2>1. PICK q, m : pkgdb' = without_line(q, m)
    BY <1>6 DEF RemoveDepend
  <2>2. Installed' = Installed /\ \A n \in Installed : pkgdb'[n].automatic = pkgdb[n].automatic
    BY <1>1, <2>1, WithoutLine
  <2> QED
    BY <1>4, <2>2 DEF Manual
<1>7. ASSUME deletion.list # << >>, this \notin Complete',
             \A n \in Installed \ {this} : n \in Installed' /\ pkgdb'[n] = pkgdb[n]
      PROVE  ManualInv'
  <2>1. PICK d : d = this
    OBVIOUS
  <2>2. ~Going(d) => \E t \in Calls : Spoiled(t)' /\ t.pkg.base = d.base
    BY <1>1, <1>7, <2>1, SpoiledByDelete
  <2>3. \A n \in Installed : n # d /\ Manual(n) => Manual(n)'
    BY <1>7, <2>1 DEF Manual
  <2> QED
    BY <1>1, <1>2, <1>3, <2>2, <2>3, WhileDeleting
<1>8. CASE RemoveMetaData
  <2>1. EmptyDirectory.contents = NULL
    BY DEF EmptyDirectory
  <2> QED
    BY <1>7, <1>8, <2>1, RemoveMetaDataEffect DEF Complete
<1>9. CASE Rmdir
  BY <1>7, <1>9, RmdirEffect DEF Complete
<1> QED
  BY <1>5, <1>6, <1>8, <1>9 DEF DeleteStep

(* The marks and the calls stay as they are.                               *)
LEMMA SameManual ==
  ASSUME StructInv, ManualInv, [Next]_vars, Clean', ~Adding, ~Deleting, ~Deleting',
         tasks' = tasks, asked' \subseteq asked, Installed' = Installed,
         \A n \in Installed : pkgdb'[n].automatic = pkgdb[n].automatic
  PROVE  ManualInv'
<1>1. ~Adding' /\ Calls' = {} /\ Calls = {}
  BY TheCalls DEF Adding, Calls, StructInv
<1>2. Fresh' /\ NewManual' /\ BothManual'
  BY <1>1 DEF Fresh, NewManual, BothManual
<1>3. StructInv' /\ Clean
  BY StepStruct, CleanOnce
<1> QED
  BY <1>1, <1>2, <1>3, ManualStays DEF Manual

LEMMA PkgAddCommandManual ==
  ASSUME StructInv, ManualInv, [Next]_vars, Clean', PkgAddCommand
  PROVE  ManualInv'
<1>1. tasks = << >> /\ ~Adding /\ ~Deleting /\ UNCHANGED <<pkgdb, deletion, asked>> /\ TypeOK
  BY NothingRuns DEF PkgAddCommand, Idle, StructInv, database
<1>2. PICK p \in scenario.packages, opts \in scenario.add_options : tasks' = <<Task(p, "A" \in opts)>>
  BY DEF PkgAddCommand
<1>3. PICK t : t = Task(p, "A" \in opts) /\ t.pc = "check"
  <2>1. \A a : Task(p, a).pc = "check"
    BY DEF Task
  <2> QED
    BY <2>1, Zenon
<1>4. Calls' = {t} /\ task' = t /\ Calls = {}
  BY <1>1, <1>2, <1>3, TheCalls DEF Calls, task
<1>5. t.other_version = NULL
  <2>1. \A a : Task(p, a).other_version = NULL
    BY DEF Task
  <2> QED
    BY <1>3, <2>1, Zenon
<1>6. StructInv' /\ Clean /\ ~Deleting'
  BY <1>1, StepStruct, CleanOnce DEF Deleting
<1>7. Fresh' /\ NewManual' /\ BothManual'
  BY <1>3, <1>4, <1>5 DEF Fresh, NewManual, BothManual
<1>8. \A n \in Installed : Manual(n) => Manual(n)'
  BY <1>1 DEF Manual, Installed
<1> QED
  BY <1>1, <1>3, <1>4, <1>6, <1>7, <1>8, ManualStays

(* The list holds no package that is not gone for the user as well, except *)
(* those marked as automatic.                                              *)
LEMMA PkgDeleteCommandManual ==
  ASSUME StructInv, ManualInv, [Next]_vars, Clean', PkgDeleteCommand
  PROVE  ManualInv'
<1>1. ~Adding /\ ~Deleting /\ UNCHANGED <<pkgdb, tasks>> /\ TypeOK /\ DatabaseType
  BY NothingRuns DEF PkgDeleteCommand, Idle, StructInv, database, TypeOK, StateType
<1>2. PICK n \in Complete, opts \in scenario.delete_options :
        /\ StartDelete({n}, opts)
        /\ asked' = asked \ {m.base : m \in wanted_gone(n, opts)}
  BY DEF PkgDeleteCommand
<1>3. Clean /\ Installed' = Installed /\ Complete' = Complete
      /\ ~Adding' /\ Calls' = {} /\ Calls = {}
  BY <1>1, CleanOnce, TheCalls DEF Installed, Complete, Adding, Calls
<1>4. Fresh' /\ NewManual' /\ BothManual'
  BY <1>3 DEF Fresh, NewManual, BothManual
<1>5. n \in Name /\ {n} \in SUBSET Name
  BY <1>1 DEF Complete, DatabaseType
<1>6. opts \in SUBSET Options
  BY <1>1, ScenariosAssumption DEF TypeOK, Options
<1>7. \/ ToSet(deletion'.list) = {}
      \/ deletion'.list \in Lists({n}, opts)
  <2>1. PICK pkgs \in SUBSET Name : pkgs = {n}
    BY <1>5
  <2>2. StartDelete(pkgs, opts)
    BY <1>2, <2>1
  <2>3. \/ deletion' = NoDeletion
        \/ \E list \in Lists(pkgs, opts) : deletion'.list = list
    BY <1>1, <1>6, <2>2, StartDeleteEffect
  <2> QED
    BY <2>1, <2>3, NoDeletionType, ToSetEmpty
<1>8. n \in with_dependents({n})
  BY DEF with_dependents
<1>9. ASSUME NEW m \in ToSet(deletion'.list), Manual(m)
      PROVE  m \in wanted_gone(n, opts)
  <2>1. PICK list \in Lists({n}, opts) : list = deletion'.list
    BY <1>7, <1>9
  <2>2. \/ m \in {n}
        \/ "r" \in opts /\ m \in with_dependents({n})
        \/ m \in Installed /\ ("R" \notin opts => pkgdb[m].automatic)
    BY <1>1, <1>5, <1>9, <2>1, ListsType
  <2>3. CASE "R" \in opts
    BY <1>9, <2>3 DEF wanted_gone
  <2>4. CASE "R" \notin opts /\ "r" \in opts
    BY <1>8, <1>9, <2>2, <2>4 DEF wanted_gone, Manual
  <2>5. CASE "R" \notin opts /\ "r" \notin opts
    BY <1>9, <2>2, <2>5 DEF wanted_gone, Manual
  <2> QED
    BY <2>3, <2>4, <2>5
<1>10. ASSUME NEW b \in asked'
       PROVE  Kept(b)'
  <2>1. b \in asked /\ \A m \in wanted_gone(n, opts) : m.base # b
    BY <1>2, <1>10
  <2>2. PICK m \in Installed : Manual(m) /\ m.base = b
    BY <1>3, <2>1 DEF ManualInv, Kept
  <2>3. ~Going(m)'
    BY <1>3, <1>9, <2>1, <2>2 DEF Going
  <2>4. Manual(m)'
    BY <1>1, <1>3, <2>2 DEF Manual
  <2> QED
    BY <1>3, <2>2, <2>3, <2>4 DEF Kept
<1> QED
  BY <1>4, <1>10 DEF ManualInv

LEMMA KillManual ==
  ASSUME StructInv, ManualInv, [Next]_vars, Clean', Kill
  PROVE  ManualInv'
<1>1. UNCHANGED <<pkgdb, asked>> /\ deletion' = NoDeletion /\ ~Deleting'
  BY NoDeletionType DEF Kill, database, Deleting
<1>2. StructInv' /\ Clean /\ TypeOK
  BY StepStruct, CleanOnce DEF StructInv
<1>3. Complete' = Complete /\ Installed' = Installed /\ \A n : Manual(n) <=> Manual(n)'
  BY <1>1 DEF Complete, Installed, Manual
<1>4. CASE tasks' = << >> /\ trouble' = trouble \cup interrupted
  <2>1. ~Updating
    BY <1>4 DEF Clean, interrupted
  <2>2. \A t \in Calls : ~Spoiled(t)
    BY <1>2, <2>1, TheCalls, NewNotSpoiled DEF Updating, Calls
  <2>3. ~Adding' /\ Calls' = {}
    BY <1>4 DEF Adding, Calls
  <2>4. Fresh' /\ NewManual' /\ BothManual'
    BY <2>3 DEF Fresh, NewManual, BothManual
  <2> QED
    BY <1>1, <1>2, <1>3, <2>2, <2>3, <2>4, ManualStays
<1>5. CASE Deleting /\ Adding /\ UNCHANGED tasks
  <2>1. \A n : Going(n)' => Going(n)
    BY <1>5 DEF Going, Adding, task
  <2> QED
    BY <1>1, <1>2, <1>3, <1>5, <2>1, WhileDeleting
<1> QED
  BY <1>4, <1>5 DEF Kill

LEMMA StutterManual ==
  ASSUME ManualInv, UNCHANGED vars
  PROVE  ManualInv'
BY DEF vars, database, ManualInv, Clean, Kept, Calls, Spoiled, Complete, Installed, Manual, Going,
   Adding, task, Fresh, NewManual, BothManual

LEMMA StepManual ==
  ASSUME StructInv, ConflictInv, ManualInv, [Next]_vars
  PROVE  ManualInv'
<1> SUFFICES ASSUME Clean' PROVE ManualInv'
  BY DEF ManualInv
<1>1. CASE AddStep /\ UNCHANGED <<scenario, command>>
  BY <1>1, AddStepManual
<1>2. CASE DeleteStep /\ UNCHANGED <<tasks, asked>>
  BY <1>2, DeleteStepManual
<1>3. CASE PkgAddCommand \/ PkgDeleteCommand \/ Kill \/ UNCHANGED vars
  BY <1>3, PkgAddCommandManual, PkgDeleteCommandManual, KillManual, StutterManual
<1>4. CASE PkgAdminCommand \/ RebuildTree
  <2>1. ~Adding /\ ~Deleting /\ UNCHANGED <<tasks, deletion, asked>>
    BY <1>4, NothingRuns DEF PkgAdminCommand, RebuildTree, Idle, volatile
  <2>2. ~Deleting'
    BY <2>1 DEF Deleting
  <2> QED
    BY <1>4, <2>1, <2>2, PkgAdminCommandStruct, RebuildTreeStruct, SameManual
<1>5. CASE Rebuild \/ AddOrDeleteEnds
  <2>1. ~Adding /\ ~Deleting /\ UNCHANGED <<tasks, deletion, asked, pkgdb>>
    BY <1>5, NothingRuns DEF Rebuild, AddOrDeleteEnds, volatile, database
  <2>2. ~Deleting' /\ Installed' = Installed
    BY <2>1 DEF Deleting, Installed
  <2> QED
    BY <2>1, <2>2, SameManual
<1> QED
  BY <1>1, <1>2, <1>3, <1>4, <1>5 DEF Next, Step

LEMMA InitManual ==
  ASSUME InitAll
  PROVE  ManualInv
BY DEF InitAll, Init, ManualInv, Fresh, NewManual, BothManual, Calls, Adding

(* As long as no update has gone wrong, what the user asked for is         *)
(* installed and not marked as automatic whenever no command runs, until a *)
(* command names it: no other package's installation, update or deletion,  *)
(* no failure and no kill takes it away.                                   *)
THEOREM ManualAlwaysKept == Spec => []ManualKept
<1>1. InitAll => StructInv /\ ConflictInv /\ ManualInv
  BY InitStruct, InitConflict, InitManual
<1>2. StructInv /\ ConflictInv /\ ManualInv /\ [Next]_vars
      => (StructInv /\ ConflictInv /\ ManualInv)'
  BY StepStruct, StepConflict, StepManual
<1>3. ASSUME StructInv, ManualInv
      PROVE  ManualKept
  <2> SUFFICES ASSUME Idle, Clean, NEW b \in asked
               PROVE  \E n \in Installed : n.base = b /\ ~pkgdb[n].automatic
    BY DEF ManualKept, Clean
  <2>1. ~Adding /\ Calls = {}
    BY <1>3, NothingRuns, TheCalls DEF Idle, StructInv
  <2> QED
    BY <1>3, <2>1 DEF ManualInv, Kept, Manual
<1> QED
  BY <1>1, <1>2, <1>3, PTL DEF Spec

-----------------------------------------------------------------------------
(* Files *)

FilesClean == {"files", "update"} \cap trouble = {}

(* A file of the call's package may not be there yet, or not any more.     *)
Pending(t, f) ==
  \/ t.pc \in {"preserve_meta_data_file", "rename"} /\ t.install_logdir # t.other_version
  \/ t.pc \in {"pre_install", "nuke_pkg", "nuke_pkgdb"}
  \/ t.pc \in {"depends", "installed"} /\ t.other_version # NULL
  \/ t.pc = "extract_files" /\ f \in ToSet(t.files)

BeingDeleted(n) ==
  \/ deletion.pc = "remove" /\ n = this
  \/ Adding /\ task.pc = "rename" /\ n = task.other_version

(* A file of an installed package is there, or known not to be.            *)
Present ==
  \A n \in Complete : \A f \in ToSet(plist(n).files) :
    \/ disk[f] = pkgdb[n].contents
    \/ BeingDeleted(n)
    \/ \E t \in Calls : t.install_logdir = n /\ Pending(t, f)

(* No file of n with the name f can be left.                               *)
Gone(n, f) ==
  \/ deletion.pc = "remove" /\ n = this /\ f \notin ToSet(deletion.files)
  \/ /\ Adding /\ task.other_version = NULL /\ n = task.install_logdir
     /\ \/ task.pc \in {"pre_install", "nuke_pkgdb"}
        \/ task.pc = "nuke_pkg" /\ f \notin ToSet(task.files)

(* Whose version of a file is there is installed and has it in +CONTENTS.  *)
Accounted ==
  \A f \in File :
    disk[f] # NULL =>
      \E n \in Complete : /\ pkgdb[n].contents = disk[f]
                          /\ f \in ToSet(plist(n).files) /\ ~Gone(n, f)

Indexed ==
  \A f \in File :
    \/ byfile[f] = disk[f]
    \/ /\ Adding /\ task.pc = "nuke_pkg" /\ f \in ToSet(task.files)
       /\ byfile[f] = task.pkg /\ disk[f] = NULL

ToExtract(t) == t.pc \notin {"check", "mark_automatic", "pkg_register_depends"}

(* What pkg_add found in the index when it checked the package is still so.*)
Free ==
  \A t \in Calls :
    ToExtract(t) =>
      \A f \in ToSet(Plist[t.pkg].files) : byfile[f] \in {NULL, t.pkg, t.other_version}

HasReplaced(t) ==
  /\ t.other_version # NULL
  /\ t.pc \in {"depends", "installed", "pre_install", "extract_files", "nuke_pkg"}

OtherGone ==
  \A t \in Calls :
    HasReplaced(t) => t.other_version \notin Installed \/ t.other_version = t.install_logdir

(* What is being deleted, by pkg_delete or nuke_pkg, has its files to      *)
(* itself.                                                                 *)
Untouched ==
  \A n \in Complete :
    BeingDeleted(n) => \A f \in ToSet(plist(n).files) : disk[f] \in {NULL, pkgdb[n].contents}

NukesOwn ==
  Adding /\ task.pc = "nuke_pkg" => \A f \in ToSet(task.files) : disk[f] \in {NULL, task.pkg}

(* The directories that may lack their +CONTENTS.                          *)
Unfilled(n) ==
  \/ Adding /\ task.pc \in {"write_meta_data", "nuke_pkgdb"} /\ n = task.install_logdir
  \/ Adding /\ task.pc = "rename" /\ n = task.other_version
  \/ deletion.pc = "rmdir" /\ n = this
  \/ \E t \in Calls : /\ t.other_version # NULL /\ n = t.install_logdir
                      /\ t.pc \in {"depends", "installed", "pre_install", "nuke_pkgdb"}

AllComplete == \A n \in Installed \ Complete : Unfilled(n)

Begun ==
  Adding =>
    /\ task.pc = "write_meta_data" /\ task.install_logdir # task.other_version
         => task.install_logdir \notin Complete
    /\ task.pc \in {"mkdir", "write_meta_data"} /\ task.other_version # NULL
         => task.other_version \in Complete
    /\ task.pc = "extract_files" => task.pkg \in Complete

FilesKnown ==
  /\ Present /\ Accounted /\ Indexed
  /\ Free /\ OtherGone /\ Untouched /\ NukesOwn
  /\ AllComplete /\ Begun

FilesInv == FilesClean => FilesKnown

(* Only pkg_admin rebuild makes up for what happened.                      *)
LEMMA FilesCleanOnce ==
  ASSUME [Next]_vars, ~Rebuild, FilesClean'
  PROVE  FilesClean /\ Clean /\ Clean'
<1>1. trouble \subseteq trouble' \cup {"lines", "tree"}
  <2>1. CASE AddStep
    BY <2>1 DEF AddStep, CheckAlreadyInstalled, Check, CheckDependency, DependencyInstalled,
       DependenciesDone, Mkdir, WriteMetaData, PreserveMetaDataFile, DeleteOther, RenameDirectory,
       PreInstall, ExtractFile, PostInstall, MarkAutomatic, RegisterDepend, Registered, NukePkg,
       NukePkgdb
  <2>2. CASE DeleteStep
    BY <2>2 DEF DeleteStep, Deinstall, DeleteFile, RemoveDepend, RemoveMetaData, Rmdir, EndDelete
  <2>3. CASE RebuildTree \/ AddOrDeleteEnds
    BY <2>3 DEF RebuildTree, AddOrDeleteEnds
  <2>4. CASE PkgAddCommand \/ PkgDeleteCommand \/ PkgAdminCommand
    BY <2>4 DEF PkgAddCommand, PkgDeleteCommand, PkgAdminCommand
  <2>5. CASE Kill \/ UNCHANGED vars
    BY <2>5 DEF Kill, vars
  <2> QED
    BY <2>1, <2>2, <2>3, <2>4, <2>5 DEF Next, Step
<1> QED
  BY <1>1 DEF FilesClean, Clean

(* Steps that touch neither files nor +CONTENTS.                           *)
LEMMA QuietFiles ==
  ASSUME FilesKnown, UNCHANGED <<byfile, disk>>, Installed' = Installed,
         \A n \in Installed : pkgdb'[n].contents = pkgdb[n].contents,
         \A u \in Calls : \A n \in Complete : \A f \in ToSet(plist(n).files) :
           u.install_logdir = n /\ Pending(u, f) =>
             \E t \in Calls' : t.install_logdir = n /\ Pending(t, f),
         \A n : BeingDeleted(n) => BeingDeleted(n)',
         \A n \in Complete :
           BeingDeleted(n)' => \/ BeingDeleted(n)
                               \/ \A t \in Calls : \A f : t.install_logdir = n => ~Pending(t, f),
         \A n \in Complete : \A f \in ToSet(plist(n).files) : Gone(n, f)' => Gone(n, f),
         ~(Adding /\ task.pc = "nuke_pkg"), ~(Adding' /\ task'.pc = "nuke_pkg"),
         \A t \in Calls' : ToExtract(t) =>
           \/ \E u \in Calls : /\ ToExtract(u) /\ u.pkg = t.pkg
                               /\ u.other_version = t.other_version
           \/ \A f \in ToSet(Plist[t.pkg].files) : byfile[f] \in {NULL, t.other_version},
         \A t \in Calls' : HasReplaced(t) =>
           \E u \in Calls : /\ HasReplaced(u) /\ u.other_version = t.other_version
                            /\ u.install_logdir = t.install_logdir,
         \A n \in Installed \ Complete : Unfilled(n) => Unfilled(n)',
         Begun'
  PROVE  FilesKnown'
<1>1. Complete' = Complete /\ \A n \in Complete : plist(n)' = plist(n)
  BY DEF Complete, plist
<1>2. \A n \in Complete : pkgdb'[n].contents = pkgdb[n].contents
  BY DEF Complete
<1>3. Present'
  <2> SUFFICES ASSUME NEW n \in Complete, NEW f \in ToSet(plist(n).files)
               PROVE  \/ disk[f] = pkgdb[n].contents
                      \/ BeingDeleted(n)'
                      \/ \E t \in Calls' : t.install_logdir = n /\ Pending(t, f)
    BY <1>1, <1>2 DEF Present, Pending
  <2> QED
    BY DEF FilesKnown, Present
<1>4. Accounted'
  <2> SUFFICES ASSUME NEW f \in File, disk[f] # NULL
               PROVE  \E n \in Complete : /\ pkgdb[n].contents = disk[f]
                                          /\ f \in ToSet(plist(n).files) /\ ~Gone(n, f)'
    BY <1>1, <1>2 DEF Accounted
  <2> QED
    BY DEF FilesKnown, Accounted
<1>5. \A f \in File : byfile[f] = disk[f]
  BY DEF FilesKnown, Indexed
<1>6. Indexed' /\ NukesOwn'
  BY <1>5 DEF Indexed, NukesOwn
<1>7. Free'
  BY DEF FilesKnown, Free, ToExtract
<1>8. OtherGone'
  BY DEF FilesKnown, OtherGone, HasReplaced
<1>9. Untouched'
  <2> SUFFICES ASSUME NEW n \in Complete, BeingDeleted(n)', NEW f \in ToSet(plist(n).files)
               PROVE  disk[f] \in {NULL, pkgdb[n].contents}
    BY <1>1, <1>2 DEF Untouched
  <2> QED
    BY DEF FilesKnown, Untouched, Present
<1>10. AllComplete'
  BY <1>1 DEF FilesKnown, AllComplete
<1> QED
  BY <1>3, <1>4, <1>6, <1>7, <1>8, <1>9, <1>10 DEF FilesKnown

(* A directory that is not being filled holds the package of its name.     *)
LEMMA OwnContents ==
  ASSUME StructInv, ConflictInv, Clean, NEW n \in Complete, ~Beside(n)
  PROVE  n \in Pkg /\ pkgdb[n].contents = n /\ n # NULL
<1>1. n \in Pkg /\ pkgdb[n].contents \in Pkg
  BY DEF Complete, ConflictInv, TemporaryOK, StructInv, TypeOK, StateType, DatabaseType, Directory
<1> QED
  BY <1>1, PkgAssumption DEF ConflictInv, ContentsOK, Name

(* The innermost call goes on, and files and +CONTENTS stay.               *)
LEMMA GoesOnFiles ==
  ASSUME StructInv, FilesKnown, UNCHANGED <<byfile, disk, deletion>>, Installed' = Installed,
         \A n \in Installed : pkgdb'[n].contents = pkgdb[n].contents,
         Adding, ~Deleting, NEW t \in PkgTask, tasks' = <<t>> \o Tail(tasks), Like(t),
         task.pc \notin {"nuke_pkg", "nuke_pkgdb", "rename", "write_meta_data"},
         t.pc \notin {"nuke_pkg", "rename", "write_meta_data"},
         \A f : task.install_logdir \in Complete /\ f \in ToSet(plist(task.install_logdir).files)
                  /\ Pending(task, f) => Pending(t, f),
         ToExtract(t) => ToExtract(task), HasReplaced(t) => HasReplaced(task),
         t.other_version = NULL /\ t.pc \in {"pre_install", "nuke_pkgdb"} =>
           task.pc \in {"pre_install", "nuke_pkgdb"},
         /\ t.other_version # NULL
         /\ task.pc \in {"depends", "installed", "pre_install", "nuke_pkgdb"}
         => \/ t.pc \in {"depends", "installed", "pre_install", "nuke_pkgdb"}
            \/ t.install_logdir \in Complete,
         t.pc = "extract_files" => t.pkg \in Complete,
         t.pc = "mkdir" => t.other_version = NULL
  PROVE  FilesKnown'
<1>1. Calls = {task} \cup Waiting /\ Calls' = {t} \cup Waiting /\ task' = t /\ Adding'
  BY CallsPut DEF StructInv
<1>2. Complete' = Complete
  BY DEF Complete
<1>3. \A n : ~BeingDeleted(n) /\ ~BeingDeleted(n)'
  BY <1>1 DEF BeingDeleted, Deleting
<1>4. \A u \in Calls : \A n \in Complete : \A f \in ToSet(plist(n).files) :
           u.install_logdir = n /\ Pending(u, f) =>
             \E v \in Calls' : v.install_logdir = n /\ Pending(v, f)
  BY <1>1 DEF Like
<1>5. \A n, f : Gone(n, f)' => Gone(n, f)
  BY <1>1 DEF Gone, Deleting, Like
<1>6. \A v \in Calls' : ToExtract(v) => \E u \in Calls : /\ ToExtract(u) /\ u.pkg = v.pkg
                                                          /\ u.other_version = v.other_version
  BY <1>1 DEF Like
<1>7. \A v \in Calls' : HasReplaced(v) =>
           \E u \in Calls : /\ HasReplaced(u) /\ u.other_version = v.other_version
                            /\ u.install_logdir = v.install_logdir
  BY <1>1 DEF Like
<1>8. ASSUME NEW n \in Installed \ Complete, Unfilled(n)
      PROVE  Unfilled(n)'
  <2>1. PICK u \in Calls : /\ u.other_version # NULL /\ n = u.install_logdir
                           /\ u.pc \in {"depends", "installed", "pre_install", "nuke_pkgdb"}
    BY <1>8 DEF Unfilled, Deleting
  <2>2. \E v \in Calls' : /\ v.other_version # NULL /\ n = v.install_logdir
                           /\ v.pc \in {"depends", "installed", "pre_install", "nuke_pkgdb"}
    BY <1>1, <1>8, <2>1 DEF Like
  <2> QED
    BY <2>2 DEF Unfilled
<1>9. Begun'
  BY <1>1, <1>2 DEF Begun
<1> QED
  BY <1>1, <1>3, <1>4, <1>5, <1>6, <1>7, <1>8, <1>9, QuietFiles

(* The innermost call returns before it has begun or when it has finished. *)
LEMMA ReturnFiles ==
  ASSUME StructInv, FilesKnown, UNCHANGED <<byfile, disk, deletion>>, Installed' = Installed,
         \A n \in Installed : pkgdb'[n].contents = pkgdb[n].contents, TypeOK',
         Adding, ~Deleting, tasks' = Tail(tasks),
         task.pc \in {"check", "depends", "installed", "pkg_register_depends"},
         task.pc \in {"depends", "installed"} => task.other_version = NULL
  PROVE  FilesKnown'
<1>1. Calls = {task} \cup Waiting /\ Calls' = Waiting /\ Calls' \subseteq Calls
  BY TheCalls, CallsPop DEF StructInv
<1>2. Adding' => task'.pc = "installed"
  <2>1. Adding' => task' \in Calls'
    <3> SUFFICES ASSUME Adding'
                 PROVE  task' \in Calls'
      OBVIOUS
    <3>1. tasks' \in Seq(PkgTask) /\ tasks' # << >>
      BY DEF Adding, TypeOK
    <3>2. task' = tasks'[1] /\ 1 \in 1 .. Len(tasks')
      BY <3>1 DEF task
    <3> QED
      BY <3>2 DEF Calls
  <2> QED
    BY <1>1, <2>1, CallsOK DEF StructInv
<1>3. \A n : ~BeingDeleted(n) /\ ~BeingDeleted(n)'
  BY <1>2 DEF BeingDeleted, Deleting
<1>4. \A f : ~Pending(task, f)
  BY DEF Pending
<1>5. \A n, f : ~Gone(n, f)'
  BY <1>2 DEF Gone, Deleting
<1>6. ASSUME NEW n \in Installed \ Complete, Unfilled(n)
      PROVE  Unfilled(n)'
  <2>1. PICK u \in Calls : /\ u.other_version # NULL /\ n = u.install_logdir
                           /\ u.pc \in {"depends", "installed", "pre_install", "nuke_pkgdb"}
    BY <1>6 DEF Unfilled, Deleting
  <2> QED
    BY <1>1, <2>1 DEF Unfilled
<1>7. Begun'
  BY <1>2 DEF Begun
<1>8. \A u \in Calls : \A n \in Complete : \A f \in ToSet(plist(n).files) :
           u.install_logdir = n /\ Pending(u, f) =>
             \E v \in Calls' : v.install_logdir = n /\ Pending(v, f)
  BY <1>1, <1>4
<1>9. \A v \in Calls' : ToExtract(v) => \E u \in Calls : /\ ToExtract(u) /\ u.pkg = v.pkg
                                                          /\ u.other_version = v.other_version
  BY <1>1
<1>10. \A v \in Calls' : HasReplaced(v) =>
           \E u \in Calls : /\ HasReplaced(u) /\ u.other_version = v.other_version
                            /\ u.install_logdir = v.install_logdir
  BY <1>1
<1> QED
  BY <1>2, <1>3, <1>5, <1>6, <1>7, <1>8, <1>9, <1>10, QuietFiles

(* check_dependencies calls pkg_do.                                        *)
LEMMA CallFiles ==
  ASSUME StructInv, FilesKnown, UNCHANGED <<byfile, disk, deletion>>, Installed' = Installed,
         \A n \in Installed : pkgdb'[n].contents = pkgdb[n].contents,
         Adding, ~Deleting, task.pc = "depends",
         NEW t \in PkgTask, NEW u \in PkgTask, tasks' = <<u, t>> \o Tail(tasks),
         u.pc = "check", t.pc = "installed", Like(t)
  PROVE  FilesKnown'
<1>1. Calls = {task} \cup Waiting /\ Calls' = {u, t} \cup Waiting /\ task' = u /\ Adding'
  BY CallsPush DEF StructInv
<1>2. \A n : ~BeingDeleted(n) /\ ~BeingDeleted(n)'
  BY <1>1 DEF BeingDeleted, Deleting
<1>3. \A f : Pending(task, f) => Pending(t, f)
  BY DEF Pending, Like
<1>4. \A v \in Calls : \A n \in Complete : \A f \in ToSet(plist(n).files) :
           v.install_logdir = n /\ Pending(v, f) =>
             \E w \in Calls' : w.install_logdir = n /\ Pending(w, f)
  BY <1>1, <1>3 DEF Like
<1>5. \A n, f : ~Gone(n, f)'
  BY <1>1 DEF Gone, Deleting
<1>6. ~ToExtract(u) /\ ~HasReplaced(u) /\ ToExtract(task) /\ (HasReplaced(t) => HasReplaced(task))
  BY DEF ToExtract, HasReplaced, Like
<1>7. \A v \in Calls' : ToExtract(v) => \E w \in Calls : /\ ToExtract(w) /\ w.pkg = v.pkg
                                                          /\ w.other_version = v.other_version
  BY <1>1, <1>6 DEF Like
<1>8. \A v \in Calls' : HasReplaced(v) =>
           \E w \in Calls : /\ HasReplaced(w) /\ w.other_version = v.other_version
                            /\ w.install_logdir = v.install_logdir
  BY <1>1, <1>6 DEF Like
<1>9. ASSUME NEW n \in Installed \ Complete, Unfilled(n)
      PROVE  Unfilled(n)'
  <2>1. PICK v \in Calls : /\ v.other_version # NULL /\ n = v.install_logdir
                           /\ v.pc \in {"depends", "installed", "pre_install", "nuke_pkgdb"}
    BY <1>9 DEF Unfilled, Deleting
  <2>2. \E w \in Calls' : /\ w.other_version # NULL /\ n = w.install_logdir
                           /\ w.pc \in {"depends", "installed", "pre_install", "nuke_pkgdb"}
    BY <1>1, <1>9, <2>1 DEF Like
  <2> QED
    BY <2>2 DEF Unfilled
<1>10. Begun'
  BY <1>1 DEF Begun
<1> QED
  BY <1>1, <1>2, <1>4, <1>5, <1>7, <1>8, <1>9, <1>10, QuietFiles

(* The checks that find nothing to do, dependencies, the last lines.       *)
LEMMA DependsFiles ==
  ASSUME StructInv, FilesKnown, StructInv',
         \/ CheckAlreadyInstalled \/ CheckDependency \/ DependencyInstalled \/ DependenciesDone
         \/ Registered
  PROVE  FilesKnown'
<1>1. AddStep /\ ~(Check \/ Mkdir \/ WriteMetaData \/ RenameDirectory \/ NukePkgdb)
  BY DEF AddStep, CheckAlreadyInstalled, CheckDependency, DependencyInstalled, DependenciesDone,
     Registered, Check, Mkdir, WriteMetaData, RenameDirectory, NukePkgdb, At
<1>2. Installed' = Installed /\ \A n \in Installed : pkgdb'[n].contents = pkgdb[n].contents
  BY <1>1, SameContents
<1>3. /\ Adding /\ ~Deleting /\ UNCHANGED <<byfile, disk, deletion>> /\ TypeOK /\ TypeOK' /\ Stack
      /\ task.pc \in {"check", "depends", "installed", "pkg_register_depends"}
      /\ task.pc = "pkg_register_depends" => tasks' = Tail(tasks)
  BY DEF CheckAlreadyInstalled, CheckDependency, DependencyInstalled, DependenciesDone,
     Registered, At, database, StructInv, Return
<1>4. CASE /\ tasks' = Tail(tasks)
           /\ task.pc \in {"depends", "installed"} => task.other_version = NULL
  BY <1>2, <1>3, <1>4, ReturnFiles
<1>5. CASE Continues({"depends", "installed"}, {"depends", "installed"})
  <2>1. PICK t \in PkgTask : /\ tasks' = <<t>> \o Tail(tasks) /\ Like(t)
                             /\ task.pc \in {"depends", "installed"}
                             /\ t.pc \in {"depends", "installed"}
    BY <1>5 DEF Continues
  <2>2. \A f : Pending(task, f) => Pending(t, f)
    BY <2>1 DEF Pending, Like
  <2>3. ToExtract(task) /\ (HasReplaced(t) => HasReplaced(task))
    BY <2>1 DEF ToExtract, HasReplaced, Like
  <2> QED
    BY <1>2, <1>3, <2>1, <2>2, <2>3, GoesOnFiles
<1>6. CASE Continues({"depends"}, {"mkdir"}) /\ task.other_version = NULL
  <2>1. PICK t \in PkgTask : /\ tasks' = <<t>> \o Tail(tasks) /\ Like(t)
                             /\ task.pc = "depends" /\ t.pc = "mkdir" /\ t.other_version = NULL
    BY <1>6 DEF Continues, Like
  <2>2. \A f : ~Pending(task, f)
    BY <1>6, <2>1 DEF Pending
  <2>3. ToExtract(task) /\ ~HasReplaced(t)
    BY <2>1 DEF ToExtract, HasReplaced
  <2> QED
    BY <1>2, <1>3, <2>1, <2>2, <2>3, GoesOnFiles
<1>7. CASE Continues({"depends"}, {"pre_install"}) /\ task.other_version # NULL
  <2>1. PICK t \in PkgTask : /\ tasks' = <<t>> \o Tail(tasks) /\ Like(t)
                             /\ task.pc = "depends" /\ t.pc = "pre_install"
                             /\ t.other_version = task.other_version /\ t.other_version # NULL
    BY <1>7 DEF Continues, Like
  <2>2. \A f : Pending(t, f)
    BY <2>1 DEF Pending
  <2>3. ToExtract(task) /\ HasReplaced(task)
    BY <1>7, <2>1 DEF ToExtract, HasReplaced
  <2> QED
    BY <1>2, <1>3, <2>1, <2>2, <2>3, GoesOnFiles
<1>8. CASE Continues({"depends", "installed"}, {"nuke_pkgdb"}) /\ task.other_version # NULL
  <2>1. PICK t \in PkgTask : /\ tasks' = <<t>> \o Tail(tasks) /\ Like(t)
                             /\ task.pc \in {"depends", "installed"} /\ t.pc = "nuke_pkgdb"
                             /\ t.other_version = task.other_version /\ t.other_version # NULL
    BY <1>8 DEF Continues, Like
  <2>2. \A f : Pending(t, f)
    BY <2>1 DEF Pending
  <2>3. ToExtract(task) /\ HasReplaced(task)
    BY <1>8, <2>1 DEF ToExtract, HasReplaced
  <2> QED
    BY <1>2, <1>3, <2>1, <2>2, <2>3, GoesOnFiles
<1>9. CASE /\ task.pc = "depends"
           /\ \E p \in wanted(scenario, task.pkg), t \in PkgTask :
                /\ tasks' = <<Task(p, TRUE), t>> \o Tail(tasks)
                /\ t.pc = "installed" /\ Like(t)
  <2>1. PICK p \in wanted(scenario, task.pkg), t \in PkgTask :
                 /\ tasks' = <<Task(p, TRUE), t>> \o Tail(tasks)
                 /\ t.pc = "installed" /\ Like(t)
    BY <1>9
  <2>2. p \in scenario.packages
    BY BestMatching DEF wanted
  <2>3. PICK u \in PkgTask : u = Task(p, TRUE) /\ u.pc = "check"
    BY <1>3, <2>2, NewTask DEF Task
  <2> QED
    BY <1>2, <1>3, <1>9, <2>1, <2>3, CallFiles
<1> QED
  BY <1>1, <1>3, <1>4, <1>5, <1>6, <1>7, <1>8, <1>9, WhereItGoes DEF Continues

(* The meta data of the old version.                                       *)
LEMMA PreserveFiles ==
  ASSUME StructInv, FilesKnown, PreserveMetaDataFile, ~GivesUp
  PROVE  FilesKnown'
<1>1. AddStep /\ ~(Check \/ Mkdir \/ WriteMetaData \/ RenameDirectory \/ NukePkgdb)
  BY DEF AddStep, PreserveMetaDataFile, Check, Mkdir, WriteMetaData, RenameDirectory, NukePkgdb, At
<1>2. Installed' = Installed /\ \A n \in Installed : pkgdb'[n].contents = pkgdb[n].contents
  BY <1>1, SameContents
<1>3. /\ Adding /\ ~Deleting /\ UNCHANGED <<byfile, disk, deletion>>
      /\ task.pc = "preserve_meta_data_file" /\ task.preserve # << >> /\ task \in PkgTask
  BY TheTask DEF PreserveMetaDataFile, At, StructInv
<1>4. PICK q \in Seq({"required_by", "preserve", "automatic"}) : q = Tail(task.preserve)
  <2>1. task.preserve \in Seq({"required_by", "preserve", "automatic"})
    BY <1>3 DEF PkgTask
  <2> QED
    BY <1>3, <2>1, HeadTailProperties
<1>5. PICK t : t = [task EXCEPT !.preserve = q]
  OBVIOUS
<1>6. t \in PkgTask /\ t.pc = task.pc /\ Like(t)
  BY <1>3, <1>4, <1>5 DEF PkgTask, Like
<1>7. tasks' = <<t>> \o Tail(tasks)
  BY <1>3, <1>4, <1>5 DEF PreserveMetaDataFile, GivesUp
<1>8. \A f : Pending(task, f) => Pending(t, f)
  BY <1>3, <1>6 DEF Pending, Like
<1>9. ToExtract(task) /\ ~HasReplaced(t)
  BY <1>3, <1>6 DEF ToExtract, HasReplaced
<1> QED
  BY <1>2, <1>3, <1>6, <1>7, <1>8, <1>9, GoesOnFiles

(* pkg_delete begins with the old version, whose files are all there.      *)
LEMMA DeleteOtherFiles ==
  ASSUME StructInv, FilesKnown, DeleteOther
  PROVE  FilesKnown'
<1>1. /\ Adding /\ ~Deleting /\ UNCHANGED <<pkgdb, byfile, disk>> /\ TypeOK /\ Stack
      /\ task.pc = "preserve_meta_data_file" /\ task \in PkgTask /\ TaskOK(task)
      /\ DirOK(task) /\ task.other_version # NULL
  BY TheTask DEF DeleteOther, At, StructInv, database, Running, TaskOK
<1>2. PICK t \in PkgTask : tasks' = <<t>> \o Tail(tasks) /\ t.pc = "rename" /\ Like(t)
  <2>1. Goto("rename")
    BY DEF DeleteOther
  <2> QED
    BY <1>1, <2>1, GoesOn DEF Place
<1>3. Calls = {task} \cup Waiting /\ Calls' = {t} \cup Waiting /\ task' = t /\ Adding'
  BY <1>1, <1>2, CallsPut
<1>4. deletion'.pc \in {"none", "next"}
  <2>1. PICK other \in Name : other = task.other_version
    BY <1>1 DEF PkgTask
  <2>2. PICK pkgs \in SUBSET Name : pkgs = {other}
    OBVIOUS
  <2>3. PICK opts \in SUBSET Options : opts = {}
    OBVIOUS
  <2>4. StartDelete(pkgs, opts)
    BY <2>1, <2>2, <2>3 DEF DeleteOther
  <2> QED
    BY <1>1, <2>4, StartDeleteEffect
<1>5. Installed' = Installed
  BY <1>1 DEF Installed
<1>6. \A n : ~BeingDeleted(n) /\ (BeingDeleted(n)' => n = task.other_version)
  BY <1>1, <1>2, <1>3, <1>4 DEF BeingDeleted, Deleting, Like
<1>7. ASSUME NEW n \in Complete, BeingDeleted(n)', NEW u \in Calls, NEW f,
             u.install_logdir = n, Pending(u, f)
      PROVE  FALSE
  <2>1. n = task.other_version /\ n.base = task.pkg.base
    BY <1>1, <1>6, <1>7 DEF TaskOK
  <2>2. CASE u = task
    BY <1>1, <1>7, <2>1, <2>2 DEF Pending
  <2>3. CASE u \in Waiting
    <3>1. u \in PkgTask /\ TaskOK(u) /\ task.pkg.base # u.pkg.base
      BY <1>1, <2>3, CallsOK, Brought
    <3>2. u.install_logdir.base = u.pkg.base
      BY <3>1, NewDirectory
    <3> QED
      BY <1>7, <2>1, <3>1, <3>2
  <2> QED
    BY <1>3, <1>7, <2>2, <2>3
<1>8. \A f : Pending(task, f) => Pending(t, f)
  BY <1>1, <1>2 DEF Pending, Like
<1>9. \A u \in Calls : \A n \in Complete : \A f \in ToSet(plist(n).files) :
           u.install_logdir = n /\ Pending(u, f) =>
             \E v \in Calls' : v.install_logdir = n /\ Pending(v, f)
  BY <1>2, <1>3, <1>8 DEF Like
<1>10. \A n, f : ~Gone(n, f)'
  BY <1>1, <1>2, <1>3, <1>4 DEF Gone
<1>11. ToExtract(task) /\ ~HasReplaced(t)
  BY <1>1, <1>2 DEF ToExtract, HasReplaced
<1>12. \A v \in Calls' : ToExtract(v) => \E u \in Calls : /\ ToExtract(u) /\ u.pkg = v.pkg
                                                          /\ u.other_version = v.other_version
  BY <1>2, <1>3, <1>11 DEF Like
<1>13. \A v \in Calls' : HasReplaced(v) =>
           \E u \in Calls : /\ HasReplaced(u) /\ u.other_version = v.other_version
                            /\ u.install_logdir = v.install_logdir
  BY <1>3, <1>11
<1>14. ASSUME NEW n \in Installed \ Complete, Unfilled(n)
       PROVE  Unfilled(n)'
  <2>1. PICK u \in Calls : /\ u.other_version # NULL /\ n = u.install_logdir
                           /\ u.pc \in {"depends", "installed", "pre_install", "nuke_pkgdb"}
    BY <1>1, <1>14 DEF Unfilled, Deleting
  <2>2. u \in Calls'
    BY <1>1, <1>3, <2>1
  <2> QED
    BY <2>1, <2>2 DEF Unfilled
<1>15. Begun'
  BY <1>2, <1>3 DEF Begun
<1>16. \A n \in Complete :
           BeingDeleted(n)' => \/ BeingDeleted(n)
                               \/ \A u \in Calls : \A f : u.install_logdir = n => ~Pending(u, f)
  BY <1>7
<1>17. /\ ~(Adding /\ task.pc = "nuke_pkg") /\ ~(Adding' /\ task'.pc = "nuke_pkg")
       /\ \A n \in Installed : pkgdb'[n].contents = pkgdb[n].contents
       /\ \A n : BeingDeleted(n) => BeingDeleted(n)'
  BY <1>1, <1>2, <1>3, <1>6
<1> QED
  BY <1>1, <1>5, <1>9, <1>10, <1>12, <1>13, <1>14, <1>15, <1>16, <1>17, QuietFiles

(* +INSTALL, its end, the mark and the lines.                              *)
LEMMA InstallFiles ==
  ASSUME StructInv, ConflictInv, FilesKnown, FilesClean', Clean,
         PreInstall \/ PostInstall \/ MarkAutomatic \/ RegisterDepend
  PROVE  FilesKnown'
<1>1. AddStep /\ ~(Check \/ Mkdir \/ WriteMetaData \/ RenameDirectory \/ NukePkgdb)
  BY DEF AddStep, PreInstall, PostInstall, MarkAutomatic, RegisterDepend,
     Check, Mkdir, WriteMetaData, RenameDirectory, NukePkgdb, At
<1>2. Installed' = Installed /\ \A n \in Installed : pkgdb'[n].contents = pkgdb[n].contents
  BY <1>1, SameContents
<1>3. /\ Adding /\ ~Deleting /\ UNCHANGED <<byfile, disk, deletion>> /\ TypeOK /\ Stack
      /\ task \in PkgTask /\ TaskOK(task)
  BY TheTask DEF PreInstall, PostInstall, MarkAutomatic, RegisterDepend, At, database, StructInv
<1>4. CASE PreInstall
  <2>1. /\ task.pc = "pre_install"
        /\ \/ Goto("extract_files") /\ task.pkg \in Complete
           \/ Goto("nuke_pkgdb")
    BY <1>4 DEF PreInstall, unrecorded, FilesClean, At
  <2>2. PICK t \in PkgTask : /\ tasks' = <<t>> \o Tail(tasks) /\ Like(t) /\ t.files = task.files
                             /\ t.pc \in {"extract_files", "nuke_pkgdb"}
                             /\ t.pc = "extract_files" => task.pkg \in Complete
    BY <1>3, <2>1, GoesOn DEF Place
  <2>3. task.install_logdir = task.pkg /\ task.files = Plist[task.pkg].files
    BY <1>3, <2>1 DEF TaskOK
  <2>4. \A f : task.install_logdir \in Complete /\ f \in ToSet(plist(task.install_logdir).files)
                 /\ Pending(task, f) => Pending(t, f)
    <3> SUFFICES ASSUME NEW f, task.install_logdir \in Complete,
                        f \in ToSet(plist(task.install_logdir).files)
                 PROVE  Pending(t, f)
      OBVIOUS
    <3>1. PICK n \in Complete : n = task.install_logdir
      OBVIOUS
    <3>2. pkgdb[n].contents = n
      BY <2>1, <3>1, OwnContents DEF Beside, Filled
    <3> QED
      BY <2>2, <2>3, <3>1, <3>2 DEF Pending, plist
  <2>5. ToExtract(task) /\ (HasReplaced(t) => HasReplaced(task))
    BY <2>1, <2>2 DEF ToExtract, HasReplaced, Like
  <2>6. t.install_logdir = task.install_logdir /\ t.pkg = task.pkg
    BY <2>2 DEF Like
  <2> QED
    BY <1>2, <1>3, <2>1, <2>2, <2>3, <2>4, <2>5, <2>6, GoesOnFiles
<1>5. CASE PostInstall
  <2>1. /\ task.pc = "extract_files" /\ task.files = << >>
        /\ Goto("mark_automatic")
    BY <1>5 DEF PostInstall, At, FilesClean
  <2>2. PICK t \in PkgTask : tasks' = <<t>> \o Tail(tasks) /\ Like(t) /\ t.pc = "mark_automatic"
    BY <1>3, <2>1, GoesOn DEF Place
  <2>3. \A f : ~Pending(task, f)
    BY <2>1, ToSetEmpty DEF Pending
  <2>4. ~ToExtract(t) /\ ~HasReplaced(t)
    BY <2>2 DEF ToExtract, HasReplaced
  <2> QED
    BY <1>2, <1>3, <2>1, <2>2, <2>3, <2>4, GoesOnFiles
<1>6. CASE MarkAutomatic \/ RegisterDepend
  <2>1. PICK t \in PkgTask : /\ tasks' = <<t>> \o Tail(tasks) /\ Like(t)
                             /\ task.pc \in {"mark_automatic", "pkg_register_depends"}
                             /\ t.pc = "pkg_register_depends"
    <3>1. CASE MarkAutomatic
      BY <1>3, <3>1, GoesOn DEF MarkAutomatic, At, Place
    <3>2. CASE RegisterDepend
      BY <3>2, RegisterGoesOn
    <3> QED
      BY <1>6, <3>1, <3>2
  <2>2. \A f : ~Pending(task, f)
    BY <2>1 DEF Pending
  <2>3. ~ToExtract(t) /\ ~HasReplaced(t)
    BY <2>1 DEF ToExtract, HasReplaced
  <2> QED
    BY <1>2, <1>3, <2>1, <2>2, <2>3, GoesOnFiles
<1> QED
  BY <1>4, <1>5, <1>6

(* The checks.                                                             *)
LEMMA CheckFiles ==
  ASSUME StructInv, FilesKnown, FilesClean', StructInv', Check
  PROVE  FilesKnown'
<1>1. /\ Adding /\ ~Deleting /\ task.pc = "check" /\ UNCHANGED <<pkgdb, byfile, disk, deletion>>
      /\ TypeOK /\ TypeOK' /\ Stack /\ task \in PkgTask /\ TaskOK(task) /\ task.pkg \in Pkg
  BY TheTask DEF Check, At, database, StructInv, PkgTask
<1>2. Installed' = Installed /\ \A n \in Installed : pkgdb'[n].contents = pkgdb[n].contents
  BY <1>1 DEF Installed
<1>3. CASE tasks' = Tail(tasks)
  BY <1>1, <1>2, <1>3, ReturnFiles
<1>4. ASSUME NEW other \in others, CheckPasses(other), Checked(other),
             trouble' = trouble \cup overridden(other)
      PROVE  FilesKnown'
  <2>1. PICK t : t = [task EXCEPT
                   !.pc = IF other = NULL THEN "depends" ELSE "mkdir",
                   !.other_version = other,
                   !.install_logdir = IF replaces_itself THEN Temporary(@) ELSE @,
                   !.install_logdir_real = IF replaces_itself THEN task.pkg ELSE NULL]
    OBVIOUS
  <2>2. /\ other \in Name \cup {NULL}
        /\ other # NULL => other \in Installed /\ other.base = task.pkg.base
    BY <1>1, <1>4, OtherVersion
  <2>3. /\ t.pkg = task.pkg /\ t.other_version = other /\ t.pc \in {"depends", "mkdir"}
        /\ t.pc = IF other = NULL THEN "depends" ELSE "mkdir"
        /\ tasks' = <<t>> \o Tail(tasks)
    BY <1>1, <1>4, <2>1 DEF Checked, PkgTask
  <2>4. t \in PkgTask
    <3>1. (Temporary(task.pkg) \in Name /\ task.install_logdir = task.pkg) \/ ~replaces_itself
      BY <1>1, NameParts DEF TaskOK
    <3> QED
      BY <1>1, <2>1, <2>2, <3>1 DEF PkgTask, Place
  <2>5. Calls = {task} \cup Waiting /\ Calls' = {t} \cup Waiting /\ task' = t /\ Adding'
    BY <1>1, <2>3, <2>4, CallsPut
  <2>6. \A f \in ToSet(Plist[t.pkg].files) : byfile[f] \in {NULL, t.other_version}
    <3>1. ~implicit_conflict(other)
      BY <1>4 DEF overridden, FilesClean
    <3>2. task.files = Plist[t.pkg].files /\ Range(task.files) = ToSet(task.files)
      <4>1. task.files \in Seq(File)
        BY <1>1 DEF PkgTask
      <4> QED
        BY <1>1, <2>3, <4>1, ToSetSeq DEF TaskOK
    <3> QED
      BY <2>3, <3>1, <3>2 DEF implicit_conflict
  <2>7. \A f : ~Pending(task, f)
    BY <1>1 DEF Pending
  <2>8. \A u \in Calls : \A n \in Complete : \A f \in ToSet(plist(n).files) :
             u.install_logdir = n /\ Pending(u, f) =>
               \E v \in Calls' : v.install_logdir = n /\ Pending(v, f)
    BY <2>5, <2>7
  <2>9. \A n : ~BeingDeleted(n) /\ ~BeingDeleted(n)'
    BY <1>1, <2>3, <2>5 DEF BeingDeleted, Deleting
  <2>10. \A n, f : ~Gone(n, f)'
    BY <1>1, <2>3, <2>5 DEF Gone, Deleting
  <2>11. ~HasReplaced(t)
    BY <2>3 DEF HasReplaced
  <2>12. \A v \in Calls' : HasReplaced(v) =>
           \E u \in Calls : /\ HasReplaced(u) /\ u.other_version = v.other_version
                            /\ u.install_logdir = v.install_logdir
    BY <2>5, <2>11
  <2>13. \A v \in Calls' : ToExtract(v) =>
           \/ \E u \in Calls : /\ ToExtract(u) /\ u.pkg = v.pkg
                               /\ u.other_version = v.other_version
           \/ \A f \in ToSet(Plist[v.pkg].files) : byfile[f] \in {NULL, v.other_version}
    BY <2>5, <2>6
  <2>14. ASSUME NEW n \in Installed \ Complete
         PROVE  \E u \in Waiting : /\ u.other_version # NULL /\ n = u.install_logdir
                           /\ u.pc \in {"depends", "installed", "pre_install", "nuke_pkgdb"}
    <3>1. Unfilled(n)
      BY DEF FilesKnown, AllComplete
    <3> QED
      BY <1>1, <2>5, <3>1 DEF Unfilled, Deleting
  <2>15. \A n \in Installed \ Complete : Unfilled(n) => Unfilled(n)'
    <3> SUFFICES ASSUME NEW n \in Installed \ Complete
                 PROVE  Unfilled(n)'
      OBVIOUS
    <3>1. \E u \in Calls' : /\ u.other_version # NULL /\ n = u.install_logdir
                            /\ u.pc \in {"depends", "installed", "pre_install", "nuke_pkgdb"}
      BY <2>5, <2>14
    <3> QED
      BY <3>1 DEF Unfilled
  <2>16. ASSUME other # NULL
         PROVE  other \in Complete
    <3>1. SUFFICES ASSUME other \notin Complete
                   PROVE  FALSE
      OBVIOUS
    <3>2. PICK u \in Waiting : other = u.install_logdir
      BY <2>2, <2>14, <2>16, <3>1
    <3>3. u \in PkgTask /\ TaskOK(u) /\ task.pkg.base # u.pkg.base
      BY <1>1, CallsOK, Brought
    <3>4. u.install_logdir.base = u.pkg.base
      BY <3>3, NewDirectory
    <3> QED
      BY <2>2, <2>16, <3>2, <3>3, <3>4
  <2>17. Begun'
    <3>1. Complete' = Complete
      BY <1>1 DEF Complete, Installed
    <3> QED
      BY <2>3, <2>5, <2>16, <3>1 DEF Begun
  <2>18. ~(Adding /\ task.pc = "nuke_pkg") /\ ~(Adding' /\ task'.pc = "nuke_pkg")
    BY <1>1, <2>3, <2>5
  <2> QED
    BY <1>1, <1>2, <2>8, <2>9, <2>10, <2>12, <2>13, <2>15, <2>17, <2>18, QuietFiles
<1>5. trouble' # trouble \cup interrupted
  BY DEF FilesClean, interrupted
<1> QED
  BY <1>3, <1>4, <1>5 DEF Check, Return

(* What is not a package's own file in the index belongs to no one: before *)
(* extract_files comes to a file, it is free or the package's own.         *)
LEMMA OwnFiles ==
  ASSUME StructInv, ConflictInv, Clean, FilesKnown, Adding, task.pc = "extract_files",
         NEW f \in ToSet(Plist[task.pkg].files)
  PROVE  f \in File /\ byfile[f] = disk[f] /\ disk[f] \in {NULL, task.pkg}
<1>1. task \in PkgTask /\ TaskOK(task) /\ task.pkg \in Pkg /\ task \in Calls
  BY TheTask, TheCalls DEF StructInv, PkgTask
<1>2. f \in File
  <2>1. Plist[task.pkg].files \in Seq(File)
    BY <1>1, Plists
  <2> QED
    BY <2>1, ToSetSeq
<1>3. byfile[f] = disk[f]
  BY <1>2 DEF FilesKnown, Indexed
<1>4. byfile[f] \in {NULL, task.pkg, task.other_version}
  BY <1>1 DEF FilesKnown, Free, ToExtract
<1>5. task.install_logdir = task.pkg
  BY <1>1 DEF TaskOK
<1>6. ASSUME disk[f] # NULL, disk[f] # task.pkg
      PROVE  FALSE
  <2>1. disk[f] = task.other_version /\ task.other_version # NULL
    BY <1>3, <1>4, <1>6
  <2>2. task.other_version \notin Installed
    BY <1>1, <1>5, <1>6, <2>1 DEF FilesKnown, OtherGone, HasReplaced
  <2>3. PICK n \in Complete : pkgdb[n].contents = disk[f]
    BY <1>2, <1>6 DEF FilesKnown, Accounted
  <2>4. pkgdb[n].contents = n
    BY <2>3, OwnContents DEF Beside, Filled
  <2> QED
    BY <2>1, <2>2, <2>3, <2>4 DEF Complete
<1> QED
  BY <1>2, <1>3, <1>6

(* A call that waits has no file in common with the package being          *)
(* installed and no directory.                                             *)
LEMMA WaitsApart ==
  ASSUME StructInv, Adding, NEW t \in Waiting
  PROVE  /\ t \in PkgTask /\ t.pc = "installed" /\ t.install_logdir = t.pkg /\ t.pkg \in Pkg
         /\ t.pkg.base # task.pkg.base
         /\ ToSet(Plist[task.pkg].files) \cap ToSet(Plist[t.pkg].files) = {}
<1>1. TypeOK /\ Stack /\ t \in Calls /\ t \in PkgTask /\ TaskOK(t) /\ t.pc = "installed"
      /\ task \in PkgTask
  BY CallsOK, TheTask DEF StructInv
<1>2. t.install_logdir = t.pkg /\ t.pkg \in Pkg /\ task.pkg \in Pkg
  BY <1>1 DEF TaskOK, PkgTask
<1>3. /\ task.pkg.base # t.pkg.base
      /\ Range(Plist[task.pkg].files) \cap Range(Plist[t.pkg].files) = {}
  BY <1>1, Brought
<1>4. /\ Range(Plist[task.pkg].files) = ToSet(Plist[task.pkg].files)
      /\ Range(Plist[t.pkg].files) = ToSet(Plist[t.pkg].files)
  <2>1. Plist[task.pkg].files \in Seq(File) /\ Plist[t.pkg].files \in Seq(File)
    BY <1>2, Plists
  <2> QED
    BY <2>1, ToSetSeq
<1> QED
  BY <1>1, <1>2, <1>3, <1>4

LEMMA ExtractFiles ==
  ASSUME StructInv, ConflictInv, Clean, FilesKnown, ExtractFile
  PROVE  FilesKnown'
<1>1. /\ Adding /\ ~Deleting /\ task.pc = "extract_files" /\ TypeOK /\ Stack
      /\ task.files # << >> /\ task.files \in Seq(File)
      /\ UNCHANGED <<pkgdb, deletion>> /\ task \in PkgTask /\ TaskOK(task)
  BY ExtractGoesOn, TheTask DEF ExtractFile, At, StructInv
<1>2. PICK t \in PkgTask :
        /\ tasks' = <<t>> \o Tail(tasks) /\ Like(t)
        /\ \/ /\ t.pc = "extract_files" /\ t.files = Tail(task.files)
              /\ disk' = [disk EXCEPT ![Head(task.files)] = task.pkg]
           \/ /\ t.pc = "nuke_pkg" /\ t.files = Plist[task.pkg].files
              /\ UNCHANGED disk
  BY ExtractGoesOn
<1>3. Calls = {task} \cup Waiting /\ Calls' = {t} \cup Waiting /\ task' = t /\ Adding'
  BY <1>1, <1>2, CallsPut
<1>4. PICK p \in Pkg : p = task.pkg /\ p = t.pkg /\ p = task.install_logdir
                       /\ p = t.install_logdir /\ t.other_version = task.other_version
  BY <1>1, <1>2 DEF TaskOK, PkgTask, Like
<1>5. p \in Complete /\ pkgdb[p].contents = p /\ p # NULL
  <2>1. p \in Complete
    BY <1>1, <1>4 DEF FilesKnown, Begun
  <2> QED
    BY <1>1, <2>1, OwnContents DEF Beside, Filled
<1>6. PICK g \in File : /\ g = Head(task.files) /\ g \in ToSet(Plist[p].files)
                        /\ ToSet(task.files) = {g} \cup ToSet(Tail(task.files))
  BY <1>1, <1>4, ToSetSeq DEF TaskOK
<1>7. \A f \in ToSet(Plist[p].files) : f \in File /\ byfile[f] = disk[f] /\ disk[f] \in {NULL, p}
  BY <1>1, <1>4, OwnFiles
<1>8. /\ byfile' = [byfile EXCEPT ![g] = p] /\ byfile'[g] = p
      /\ \A f \in File : f # g => byfile'[f] = byfile[f]
  <2>1. byfile' = [byfile EXCEPT ![g] = IF @ = NULL THEN p ELSE @]
    BY <1>4, <1>6 DEF ExtractFile, pkgdb_store
  <2>2. byfile \in [File -> Pkg \cup {NULL}] /\ byfile[g] \in {NULL, p}
    BY <1>1, <1>6, <1>7 DEF TypeOK, StateType
  <2> QED
    BY <2>1, <2>2
<1>9. Installed' = Installed /\ Complete' = Complete /\ \A n \in Complete : plist(n)' = plist(n)
  BY <1>1 DEF Installed, Complete, plist
<1>10. \A n : ~BeingDeleted(n) /\ ~BeingDeleted(n)'
  BY <1>1, <1>2, <1>3 DEF BeingDeleted, Deleting
<1>11. disk \in [File -> Pkg \cup {NULL}]
  BY <1>1 DEF TypeOK, StateType
<1>12. \A f : Pending(task, f) /\ f # g => Pending(t, f)
  BY <1>1, <1>2, <1>6 DEF Pending
<1>13. Free'
  <2> SUFFICES ASSUME NEW u \in Calls', ToExtract(u), NEW f \in ToSet(Plist[u.pkg].files)
               PROVE  byfile'[f] \in {NULL, u.pkg, u.other_version}
    BY DEF Free, ToExtract
  <2>1. CASE u = t
    <3>1. ToExtract(task)
      BY <1>1 DEF ToExtract
    <3>2. byfile[f] \in {NULL, p, t.other_version} /\ f \in File
      BY <1>3, <1>4, <1>7, <2>1, <3>1 DEF FilesKnown, Free
    <3> QED
      BY <1>4, <1>8, <2>1, <3>2
  <2>2. CASE u \in Waiting
    <3>1. f # g /\ f \in File
      <4>1. u.pkg \in Pkg /\ ToSet(Plist[p].files) \cap ToSet(Plist[u.pkg].files) = {}
        BY <1>1, <1>4, <2>2, WaitsApart
      <4>2. Plist[u.pkg].files \in Seq(File)
        BY <4>1, Plists
      <4> QED
        BY <1>6, <4>1, <4>2, ToSetSeq
    <3>2. byfile[f] \in {NULL, u.pkg, u.other_version}
      BY <1>3, <2>2 DEF FilesKnown, Free
    <3> QED
      BY <1>8, <3>1, <3>2
  <2> QED
    BY <1>3, <2>1, <2>2
<1>14. OtherGone'
  <2>1. HasReplaced(t) => HasReplaced(task)
    BY <1>1, <1>4 DEF HasReplaced
  <2> QED
    BY <1>3, <1>4, <1>9, <2>1 DEF FilesKnown, OtherGone, HasReplaced
<1>15. AllComplete'
  <2> SUFFICES ASSUME NEW n \in Installed \ Complete
               PROVE  Unfilled(n)'
    BY <1>9 DEF AllComplete
  <2>1. Unfilled(n)
    BY DEF FilesKnown, AllComplete
  <2>2. PICK u \in Calls : /\ u.other_version # NULL /\ n = u.install_logdir
                           /\ u.pc \in {"depends", "installed", "pre_install", "nuke_pkgdb"}
    BY <1>1, <2>1 DEF Unfilled, Deleting
  <2>3. u \in Calls'
    BY <1>1, <1>3, <2>2
  <2> QED
    BY <2>2, <2>3 DEF Unfilled
<1>16. Begun'
  BY <1>2, <1>3, <1>4, <1>5, <1>9 DEF Begun
<1>17. Untouched'
  BY <1>9, <1>10 DEF Untouched
<1>18. CASE /\ t.pc = "extract_files" /\ t.files = Tail(task.files)
            /\ disk' = [disk EXCEPT ![Head(task.files)] = task.pkg]
  <2>1. disk'[g] = p /\ \A f \in File : f # g => disk'[f] = disk[f]
    BY <1>4, <1>6, <1>11, <1>18
  <2>2. Indexed' /\ NukesOwn'
    BY <1>1, <1>3, <1>8, <1>18, <2>1 DEF Indexed, NukesOwn, FilesKnown
  <2>3. \A n, f : ~Gone(n, f)'
    BY <1>1, <1>3, <1>18 DEF Gone, Deleting
  <2>4. Accounted'
    <3> SUFFICES ASSUME NEW f \in File, disk'[f] # NULL
                 PROVE  \E n \in Complete : pkgdb[n].contents = disk'[f] /\ f \in ToSet(plist(n).files)
      BY <1>1, <1>9, <2>3 DEF Accounted
    <3>1. CASE f = g
      BY <1>5, <1>6, <2>1, <3>1 DEF plist
    <3>2. CASE f # g
      BY <2>1, <3>2 DEF FilesKnown, Accounted
    <3> QED
      BY <3>1, <3>2
  <2>5. Present'
    <3> SUFFICES ASSUME NEW n \in Complete, NEW f \in ToSet(plist(n).files)
                 PROVE  \/ disk'[f] = pkgdb[n].contents
                        \/ \E u \in Calls' : u.install_logdir = n /\ Pending(u, f)
      BY <1>1, <1>9 DEF Present, Pending
    <3>1. n \in Pkg /\ pkgdb[n].contents = n /\ n # NULL
      BY <1>1, OwnContents DEF Beside, Filled
    <3>2. f \in File
      <4>1. Plist[n].files \in Seq(File)
        BY <3>1, Plists
      <4> QED
        BY <3>1, <4>1, ToSetSeq DEF plist
    <3>3. \/ disk[f] = n
          \/ \E u \in Calls : u.install_logdir = n /\ Pending(u, f)
      BY <1>10, <3>1 DEF FilesKnown, Present
    <3>4. CASE f # g
      <4>1. CASE disk[f] = n
        BY <2>1, <3>1, <3>2, <3>4, <4>1
      <4>2. CASE \E u \in Calls : u.install_logdir = n /\ Pending(u, f)
        BY <1>3, <1>4, <1>12, <3>4, <4>2
      <4> QED
        BY <3>3, <4>1, <4>2
    <3>5. CASE f = g /\ n = p
      BY <2>1, <3>1, <3>5
    <3>6. CASE f = g /\ n # p
      <4>1. disk[f] # n
        BY <1>6, <1>7, <3>1, <3>6
      <4>2. PICK u \in Calls : u.install_logdir = n /\ Pending(u, f)
        BY <3>3, <4>1
      <4>3. u \in Waiting
        BY <1>3, <1>4, <3>6, <4>2
      <4>4. u.pkg = n /\ ToSet(Plist[p].files) \cap ToSet(Plist[u.pkg].files) = {}
        BY <1>1, <1>4, <4>2, <4>3, WaitsApart
      <4>5. f \in ToSet(Plist[n].files)
        BY <3>1 DEF plist
      <4> QED
        BY <1>6, <3>6, <4>4, <4>5
    <3> QED
      BY <3>4, <3>5, <3>6
  <2> QED
    BY <1>13, <1>14, <1>15, <1>16, <1>17, <2>2, <2>4, <2>5 DEF FilesKnown
<1>19. CASE t.pc = "nuke_pkg" /\ t.files = Plist[task.pkg].files /\ UNCHANGED disk
  <2>1. Indexed'
    <3> SUFFICES ASSUME NEW f \in File
                 PROVE  \/ byfile'[f] = disk[f]
                        \/ f \in ToSet(t.files) /\ byfile'[f] = p /\ disk[f] = NULL
      BY <1>3, <1>4, <1>19 DEF Indexed
    <3>1. CASE f = g
      BY <1>4, <1>6, <1>7, <1>8, <1>19, <3>1
    <3>2. CASE f # g
      BY <1>1, <1>8, <3>2 DEF FilesKnown, Indexed
    <3> QED
      BY <3>1, <3>2
  <2>2. NukesOwn'
    BY <1>3, <1>4, <1>7, <1>19 DEF NukesOwn
  <2>3. \A n \in Complete : \A f \in ToSet(plist(n).files) : ~Gone(n, f)'
    BY <1>1, <1>3, <1>4, <1>5, <1>19 DEF Gone, Deleting, plist
  <2>4. Accounted'
    <3> SUFFICES ASSUME NEW f \in File, disk[f] # NULL
                 PROVE  \E n \in Complete : pkgdb[n].contents = disk[f] /\ f \in ToSet(plist(n).files)
      BY <1>1, <1>9, <1>19, <2>3 DEF Accounted
    <3> QED
      BY DEF FilesKnown, Accounted
  <2>5. \A f : Pending(t, f)
    BY <1>19 DEF Pending
  <2>6. Present'
    <3> SUFFICES ASSUME NEW n \in Complete, NEW f \in ToSet(plist(n).files)
                 PROVE  \/ disk[f] = pkgdb[n].contents
                        \/ \E u \in Calls' : u.install_logdir = n /\ Pending(u, f)
      BY <1>1, <1>9, <1>19 DEF Present, Pending
    <3>1. \/ disk[f] = pkgdb[n].contents
          \/ \E u \in Calls : u.install_logdir = n /\ Pending(u, f)
      BY <1>10 DEF FilesKnown, Present
    <3>2. ASSUME NEW u \in Calls, u.install_logdir = n, Pending(u, f)
          PROVE  \E v \in Calls' : v.install_logdir = n /\ Pending(v, f)
      BY <1>3, <1>4, <2>5, <3>2
    <3> QED
      BY <3>1, <3>2
  <2> QED
    BY <1>13, <1>14, <1>15, <1>16, <1>17, <2>1, <2>2, <2>4, <2>6 DEF FilesKnown
<1> QED
  BY <1>2, <1>18, <1>19

(* nuke_pkg deletes what the package has extracted.                        *)
LEMMA NukeFiles ==
  ASSUME StructInv, ConflictInv, Clean, FilesKnown, NukePkg
  PROVE  FilesKnown'
<1>1. /\ Adding /\ ~Deleting /\ task.pc = "nuke_pkg" /\ TypeOK /\ Stack
      /\ task.files # << >> /\ task.files \in Seq(File)
      /\ UNCHANGED <<pkgdb, deletion>> /\ task \in PkgTask /\ TaskOK(task)
  BY NukeGoesOn, TheTask DEF NukePkg, At, StructInv
<1>2. PICK t \in PkgTask : /\ tasks' = <<t>> \o Tail(tasks) /\ Like(t)
                           /\ t.pc = "nuke_pkg" /\ t.files = Tail(task.files)
  BY NukeGoesOn
<1>3. Calls = {task} \cup Waiting /\ Calls' = {t} \cup Waiting /\ task' = t /\ Adding'
  BY <1>1, <1>2, CallsPut
<1>4. PICK p \in Pkg : p = task.pkg /\ p = t.pkg /\ p = task.install_logdir
                       /\ p = t.install_logdir /\ t.other_version = task.other_version
  BY <1>1, <1>2 DEF TaskOK, PkgTask, Like
<1>5. PICK g \in File : /\ g = Head(task.files) /\ g \in ToSet(task.files)
                        /\ ToSet(task.files) = {g} \cup ToSet(Tail(task.files))
  BY <1>1, ToSetSeq
<1>6. disk[g] \in {NULL, p}
  BY <1>1, <1>4, <1>5 DEF FilesKnown, NukesOwn
<1>7. /\ disk'[g] = NULL /\ byfile'[g] = NULL
      /\ \A f \in File : f # g => disk'[f] = disk[f] /\ byfile'[f] = byfile[f]
  <2>1. delete_file(g, p, Forcing)
    BY <1>4, <1>5 DEF NukePkg
  <2>2. disk' = [disk EXCEPT ![g] = NULL] /\ byfile' = [byfile EXCEPT ![g] = NULL]
    BY <1>6, <2>1 DEF delete_file
  <2>3. disk \in [File -> Pkg \cup {NULL}] /\ byfile \in [File -> Pkg \cup {NULL}]
    BY <1>1 DEF TypeOK, StateType
  <2> QED
    BY <2>2, <2>3
<1>8. Installed' = Installed /\ Complete' = Complete /\ \A n \in Complete : plist(n)' = plist(n)
  BY <1>1 DEF Installed, Complete, plist
<1>9. \A n : ~BeingDeleted(n) /\ ~BeingDeleted(n)'
  BY <1>1, <1>2, <1>3 DEF BeingDeleted, Deleting
<1>10. Indexed'
  <2> SUFFICES ASSUME NEW f \in File
               PROVE  \/ byfile'[f] = disk'[f]
                      \/ f \in ToSet(t.files) /\ byfile'[f] = p /\ disk'[f] = NULL
    BY <1>2, <1>3, <1>4 DEF Indexed
  <2>1. CASE f = g
    BY <1>7, <2>1
  <2>2. CASE f # g
    BY <1>2, <1>4, <1>5, <1>7, <2>2 DEF FilesKnown, Indexed
  <2> QED
    BY <2>1, <2>2
<1>11. NukesOwn'
  <2> SUFFICES ASSUME NEW f \in ToSet(t.files)
               PROVE  disk'[f] \in {NULL, p}
    BY <1>3, <1>4 DEF NukesOwn
  <2>1. f \in ToSet(task.files) /\ f \in File
    BY <1>1, <1>2, <1>5, ToSetSeq
  <2>2. disk[f] \in {NULL, p}
    BY <1>1, <1>4, <2>1 DEF FilesKnown, NukesOwn
  <2> QED
    BY <1>7, <2>1, <2>2
<1>12. \A n, f : f # g /\ Gone(n, f)' => Gone(n, f)
  BY <1>1, <1>2, <1>3, <1>4, <1>5 DEF Gone, Deleting
<1>13. Accounted'
  <2> SUFFICES ASSUME NEW f \in File, disk'[f] # NULL
               PROVE  \E n \in Complete : /\ pkgdb[n].contents = disk'[f]
                                          /\ f \in ToSet(plist(n).files) /\ ~Gone(n, f)'
    BY <1>1, <1>8 DEF Accounted
  <2>1. f # g /\ disk'[f] = disk[f]
    BY <1>7
  <2> QED
    BY <1>12, <2>1 DEF FilesKnown, Accounted
<1>14. Present'
  <2> SUFFICES ASSUME NEW n \in Complete, NEW f \in ToSet(plist(n).files)
               PROVE  \/ disk'[f] = pkgdb[n].contents
                      \/ \E u \in Calls' : u.install_logdir = n /\ Pending(u, f)
    BY <1>1, <1>8 DEF Present, Pending
  <2>1. n \in Pkg /\ pkgdb[n].contents = n /\ n # NULL
    BY <1>1, OwnContents DEF Beside, Filled
  <2>2. f \in File
    <3>1. Plist[n].files \in Seq(File)
      BY <2>1, Plists
    <3> QED
      BY <2>1, <3>1, ToSetSeq DEF plist
  <2>3. Pending(t, f)
    BY <1>2 DEF Pending
  <2>4. CASE n = p
    BY <1>3, <1>4, <2>3, <2>4
  <2>5. CASE n # p
    <3>1. CASE disk[f] = n
      BY <1>6, <1>7, <2>1, <2>2, <2>5, <3>1
    <3>2. CASE disk[f] # n
      <4>1. PICK u \in Calls : u.install_logdir = n /\ Pending(u, f)
        BY <1>9, <2>1, <3>2 DEF FilesKnown, Present
      <4>2. u \in Calls'
        BY <1>3, <1>4, <2>5, <4>1
      <4> QED
        BY <4>1, <4>2
    <3> QED
      BY <3>1, <3>2
  <2> QED
    BY <2>4, <2>5
<1>15. Free'
  <2> SUFFICES ASSUME NEW u \in Calls', ToExtract(u), NEW f \in ToSet(Plist[u.pkg].files)
               PROVE  byfile'[f] \in {NULL, u.pkg, u.other_version}
    BY DEF Free, ToExtract
  <2>1. PICK v \in Calls : v.pkg = u.pkg /\ v.other_version = u.other_version /\ ToExtract(v)
    BY <1>1, <1>3, <1>4 DEF ToExtract
  <2>2. byfile[f] \in {NULL, u.pkg, u.other_version}
    BY <2>1 DEF FilesKnown, Free
  <2>3. f \in File
    <3>1. u.pkg \in Pkg
      BY <1>1, <2>1, CallsOK DEF PkgTask
    <3>2. Plist[u.pkg].files \in Seq(File)
      BY <3>1, Plists
    <3> QED
      BY <3>2, ToSetSeq
  <2> QED
    BY <1>7, <2>2, <2>3
<1>16. OtherGone'
  <2>1. HasReplaced(t) => HasReplaced(task)
    BY <1>1, <1>4 DEF HasReplaced
  <2> QED
    BY <1>3, <1>4, <1>8, <2>1 DEF FilesKnown, OtherGone, HasReplaced
<1>17. AllComplete'
  <2> SUFFICES ASSUME NEW n \in Installed \ Complete
               PROVE  Unfilled(n)'
    BY <1>8 DEF AllComplete
  <2>1. Unfilled(n)
    BY DEF FilesKnown, AllComplete
  <2>2. PICK u \in Calls : /\ u.other_version # NULL /\ n = u.install_logdir
                           /\ u.pc \in {"depends", "installed", "pre_install", "nuke_pkgdb"}
    BY <1>1, <2>1 DEF Unfilled, Deleting
  <2>3. u \in Calls'
    BY <1>1, <1>3, <2>2
  <2> QED
    BY <2>2, <2>3 DEF Unfilled
<1>18. Begun'
  BY <1>2, <1>3 DEF Begun
<1>19. Untouched'
  BY <1>8, <1>9 DEF Untouched
<1> QED
  BY <1>10, <1>11, <1>13, <1>14, <1>15, <1>16, <1>17, <1>18, <1>19 DEF FilesKnown

(* nuke_pkgdb of a new package, whose files are all gone.                  *)
LEMMA NukePkgdbFiles ==
  ASSUME StructInv, StructInv', FilesKnown, FilesClean', NukePkgdb
  PROVE  FilesKnown'
<1>1. /\ Adding /\ ~Deleting /\ task \in PkgTask /\ TaskOK(task) /\ TypeOK /\ TypeOK' /\ Stack
      /\ task.pc \in {"nuke_pkgdb", "nuke_pkg"} /\ (task.pc = "nuke_pkg" => task.files = << >>)
      /\ task.install_logdir = task.pkg /\ task.other_version = NULL
      /\ tasks' = Tail(tasks) /\ UNCHANGED <<byfile, disk, deletion>>
  BY NukePkgdbEffect DEF FilesClean, StructInv, NukePkgdb
<1>2. PICK p : p = task.pkg
  OBVIOUS
<1>3. Installed' = Installed \ {p} /\ \A n \in Installed \ {p} : pkgdb'[n] = pkgdb[n]
  BY <1>1, <1>2, NukePkgdbEffect
<1>4. /\ Complete' = Complete \ {p}
      /\ \A n \in Complete' : pkgdb'[n] = pkgdb[n] /\ plist(n)' = plist(n)
  BY <1>3 DEF Complete, plist
<1>5. Calls = {task} \cup Waiting /\ Calls' = Waiting
  BY <1>1, TheCalls, CallsPop
<1>6. Adding' => task'.pc = "installed"
  <2> SUFFICES ASSUME Adding'
               PROVE  task' \in Calls'
    BY <1>1, <1>5, CallsOK
  <2>1. tasks' \in Seq(PkgTask) /\ tasks' # << >>
    BY <1>1 DEF Adding, TypeOK
  <2>2. task' = tasks'[1] /\ 1 \in 1 .. Len(tasks')
    BY <2>1 DEF task
  <2> QED
    BY <2>2 DEF Calls
<1>7. \A n : ~BeingDeleted(n) /\ ~BeingDeleted(n)'
  BY <1>1, <1>6 DEF BeingDeleted, Deleting
<1>8. \A n, f : ~Gone(n, f)'
  BY <1>1, <1>6 DEF Gone, Deleting
<1>9. \A f : Gone(p, f)
  BY <1>1, <1>2, ToSetEmpty DEF Gone
<1>10. Present'
  <2> SUFFICES ASSUME NEW n \in Complete', NEW f \in ToSet(plist(n).files)
               PROVE  \/ disk[f] = pkgdb[n].contents
                      \/ \E u \in Calls' : u.install_logdir = n /\ Pending(u, f)
    BY <1>1, <1>4 DEF Present, Pending
  <2>1. n \in Complete /\ n # task.install_logdir
    BY <1>1, <1>2, <1>4
  <2>2. \/ disk[f] = pkgdb[n].contents
        \/ \E u \in Calls : u.install_logdir = n /\ Pending(u, f)
    BY <1>7, <2>1 DEF FilesKnown, Present
  <2> QED
    BY <1>5, <2>1, <2>2
<1>11. Accounted'
  <2> SUFFICES ASSUME NEW f \in File, disk[f] # NULL
               PROVE  \E n \in Complete' : pkgdb[n].contents = disk[f] /\ f \in ToSet(plist(n).files)
    BY <1>1, <1>4, <1>8 DEF Accounted
  <2>1. PICK n \in Complete : /\ pkgdb[n].contents = disk[f]
                              /\ f \in ToSet(plist(n).files) /\ ~Gone(n, f)
    BY DEF FilesKnown, Accounted
  <2> QED
    BY <1>4, <1>9, <2>1
<1>12. Indexed' /\ NukesOwn'
  BY <1>1, <1>6, ToSetEmpty DEF FilesKnown, Indexed, NukesOwn
<1>13. Free'
  BY <1>1, <1>5 DEF FilesKnown, Free, ToExtract
<1>14. OtherGone'
  BY <1>3, <1>5 DEF FilesKnown, OtherGone, HasReplaced
<1>15. Untouched' /\ Begun'
  BY <1>6, <1>7 DEF Untouched, Begun
<1>16. AllComplete'
  <2> SUFFICES ASSUME NEW n \in Installed \ Complete, n # p
               PROVE  Unfilled(n)'
    BY <1>3, <1>4 DEF AllComplete
  <2>1. Unfilled(n)
    BY DEF FilesKnown, AllComplete
  <2>2. PICK u \in Calls : /\ u.other_version # NULL /\ n = u.install_logdir
                           /\ u.pc \in {"depends", "installed", "pre_install", "nuke_pkgdb"}
    BY <1>1, <1>2, <2>1 DEF Unfilled, Deleting
  <2>3. u \in Calls'
    BY <1>1, <1>5, <2>2
  <2> QED
    BY <2>2, <2>3 DEF Unfilled
<1> QED
  BY <1>10, <1>11, <1>12, <1>13, <1>14, <1>15, <1>16 DEF FilesKnown

(* The directory of a new package is not there yet.                        *)
LEMMA MkdirFiles ==
  ASSUME StructInv, ConflictInv, Clean, FilesKnown, Mkdir, ~GivesUp
  PROVE  FilesKnown'
<1>1. /\ Adding /\ ~Deleting /\ task.pc = "mkdir" /\ TypeOK /\ Stack /\ Goto("write_meta_data")
      /\ UNCHANGED <<byfile, disk, deletion>>
      /\ task \in PkgTask /\ TaskOK(task) /\ task.pkg \in Pkg
  BY TheTask, MkdirEffect DEF Mkdir, StructInv, PkgTask
<1>2. PICK dir \in Name : dir = task.install_logdir /\ dir.base = task.pkg.base
  BY <1>1, NewDirectory
<1>3. PICK t \in PkgTask : tasks' = <<t>> \o Tail(tasks) /\ t.pc = "write_meta_data" /\ Like(t)
  BY <1>1, GoesOn DEF Place
<1>4. Calls = {task} \cup Waiting /\ Calls' = {t} \cup Waiting /\ task' = t /\ Adding'
  BY <1>1, <1>3, CallsPut
<1>5. /\ Installed' = Installed \cup {dir}
      /\ \A n \in Installed : pkgdb'[n] = pkgdb[n]
      /\ dir \notin Installed => pkgdb'[dir] = EmptyDirectory
  BY <1>2, MkdirEffect DEF Installed
<1>6. Complete' = Complete /\ \A n \in Complete : pkgdb'[n] = pkgdb[n] /\ plist(n)' = plist(n)
  BY <1>5 DEF Complete, EmptyDirectory, plist
<1>7. \A n : ~BeingDeleted(n) /\ ~BeingDeleted(n)'
  BY <1>1, <1>3, <1>4 DEF BeingDeleted, Deleting
<1>8. \A n, f : ~Gone(n, f)'
  BY <1>1, <1>3, <1>4 DEF Gone, Deleting
<1>9. Present'
  <2> SUFFICES ASSUME NEW n \in Complete, NEW f \in ToSet(plist(n).files)
               PROVE  \/ disk[f] = pkgdb[n].contents
                      \/ \E u \in Calls' : u.install_logdir = n /\ Pending(u, f)
    BY <1>1, <1>6 DEF Present, Pending
  <2>1. ~Pending(task, f)
    BY <1>1 DEF Pending
  <2>2. \/ disk[f] = pkgdb[n].contents
        \/ \E u \in Calls : u.install_logdir = n /\ Pending(u, f)
    BY <1>7 DEF FilesKnown, Present
  <2> QED
    BY <1>4, <2>1, <2>2
<1>10. Accounted'
  BY <1>1, <1>6, <1>8 DEF FilesKnown, Accounted
<1>11. Indexed' /\ NukesOwn'
  BY <1>1, <1>3, <1>4 DEF FilesKnown, Indexed, NukesOwn
<1>12. t.pkg = task.pkg /\ t.other_version = task.other_version /\ t.install_logdir = dir
  BY <1>2, <1>3 DEF Like
<1>13. Free'
  <2>1. ToExtract(task)
    BY <1>1 DEF ToExtract
  <2> QED
    BY <1>1, <1>4, <1>12, <2>1 DEF FilesKnown, Free, ToExtract
<1>14. OtherGone'
  <2> SUFFICES ASSUME NEW u \in Calls', HasReplaced(u)
               PROVE  u.other_version \notin Installed' \/ u.other_version = u.install_logdir
    BY DEF OtherGone, HasReplaced
  <2>1. u \in Waiting
    BY <1>3, <1>4 DEF HasReplaced
  <2>2. u.other_version # dir
    <3>1. u \in PkgTask /\ TaskOK(u) /\ u.other_version.base = u.pkg.base
      BY <1>1, <2>1, CallsOK DEF TaskOK, HasReplaced
    <3>2. u.pkg.base # task.pkg.base
      BY <1>1, <2>1, WaitsApart
    <3> QED
      BY <1>2, <3>1, <3>2
  <2> QED
    BY <1>4, <1>5, <2>1, <2>2 DEF FilesKnown, OtherGone
<1>15. Untouched'
  BY <1>6, <1>7 DEF Untouched
<1>16. AllComplete'
  <2> SUFFICES ASSUME NEW n \in Installed' \ Complete
               PROVE  Unfilled(n)'
    BY <1>6 DEF AllComplete
  <2>1. CASE n = dir
    BY <1>3, <1>4, <1>12, <2>1 DEF Unfilled
  <2>2. CASE n # dir
    <3>1. Unfilled(n)
      BY <1>5, <2>2 DEF FilesKnown, AllComplete
    <3>2. PICK u \in Calls : /\ u.other_version # NULL /\ n = u.install_logdir
                             /\ u.pc \in {"depends", "installed", "pre_install", "nuke_pkgdb"}
      BY <1>1, <3>1 DEF Unfilled, Deleting
    <3>3. u \in Calls'
      BY <1>1, <1>4, <3>2
    <3> QED
      BY <3>2, <3>3 DEF Unfilled
  <2> QED
    BY <2>1, <2>2
<1>17. Begun'
  <2>1. ASSUME dir # task.other_version
        PROVE  dir \notin Complete
    <3>1. Welcome(task)
      BY <1>1, <1>4 DEF ConflictInv, ToCome
    <3>2. Own(task) = {task.other_version}
      BY <1>1 DEF Own
    <3> QED
      BY <1>2, <2>1, <3>1, <3>2 DEF Welcome, Complete
  <2>2. task.other_version # NULL => task.other_version \in Complete
    BY <1>1 DEF FilesKnown, Begun
  <2> QED
    BY <1>3, <1>4, <1>6, <1>12, <2>1, <2>2 DEF Begun
<1> QED
  BY <1>9, <1>10, <1>11, <1>13, <1>14, <1>15, <1>16, <1>17 DEF FilesKnown

(* The files of a new package that gives up do not exist yet.              *)
LEMMA GivesUpFiles ==
  ASSUME StructInv, ConflictInv, Clean, FilesKnown, GivesUp
  PROVE  FilesKnown'
<1>1. /\ Adding /\ ~Deleting /\ TypeOK /\ Stack /\ UNCHANGED <<pkgdb, byfile, disk, deletion>>
      /\ task.pc \in {"mkdir", "write_meta_data", "preserve_meta_data_file"}
      /\ task \in PkgTask /\ TaskOK(task)
  BY TheTask DEF GivesUp, StructInv
<1>2. PICK t \in PkgTask : tasks' = <<t>> \o Tail(tasks) /\ t.pc = "nuke_pkgdb" /\ Like(t)
  BY <1>1, GoesOn DEF GivesUp, Place
<1>3. Calls = {task} \cup Waiting /\ Calls' = {t} \cup Waiting /\ task' = t /\ Adding'
  BY <1>1, <1>2, CallsPut
<1>4. Installed' = Installed /\ Complete' = Complete
  BY <1>1 DEF Installed, Complete
<1>5. task.other_version = NULL => task.install_logdir \notin Complete
  <2>1. CASE task.pc = "mkdir"
    <3>1. Welcome(task) /\ Own(task) = {task.other_version}
      BY <1>3, <2>1 DEF ConflictInv, ToCome, Own
    <3>2. NULL \notin Installed
      BY <1>1, PkgAssumption DEF TypeOK, StateType, DatabaseType
    <3> QED
      BY <1>1, <3>1, <3>2, NewDirectory DEF Welcome, Complete
  <2>2. CASE task.pc # "mkdir"
    <3>1. task.pc = "preserve_meta_data_file" => task.other_version # NULL
      BY <1>1 DEF TaskOK
    <3>2. task.install_logdir # NULL
      BY <1>1, NewDirectory, PkgAssumption
    <3> QED
      BY <1>1, <2>2, <3>1, <3>2 DEF FilesKnown, Begun
  <2> QED
    BY <2>1, <2>2
<1>6. \A n : ~BeingDeleted(n) /\ ~BeingDeleted(n)'
  BY <1>1, <1>2, <1>3 DEF BeingDeleted, Deleting
<1>7. \A n \in Complete : \A f : ~Gone(n, f)'
  BY <1>1, <1>2, <1>3, <1>5 DEF Gone, Deleting, Like
<1>8. \A u \in Calls : \A n \in Complete : \A f \in ToSet(plist(n).files) :
        u.install_logdir = n /\ Pending(u, f) =>
          \E v \in Calls' : v.install_logdir = n /\ Pending(v, f)
  BY <1>2, <1>3 DEF Like, Pending
<1>9. \A v \in Calls' : ToExtract(v) =>
        \E u \in Calls : /\ ToExtract(u) /\ u.pkg = v.pkg
                          /\ u.other_version = v.other_version
  BY <1>1, <1>2, <1>3 DEF ToExtract, Like
<1>10. \A v \in Calls' : HasReplaced(v) => v \in Calls
  BY <1>2, <1>3 DEF HasReplaced
<1>11. ASSUME NEW n, Unfilled(n)
       PROVE  Unfilled(n)'
  BY <1>1, <1>2, <1>3, <1>11 DEF Unfilled, Deleting, Like
<1>12. Begun'
  BY <1>2, <1>3 DEF Begun
<1> QED
  BY <1>1, <1>2, <1>3, <1>4, <1>6, <1>7, <1>8, <1>9, <1>10, <1>11, <1>12, QuietFiles

LEMMA WriteFiles ==
  ASSUME StructInv, ConflictInv, Clean, FilesKnown, WriteMetaData, ~GivesUp
  PROVE  FilesKnown'
<1>1. /\ TypeOK /\ Stack /\ UNCHANGED <<byfile, disk, deletion>>
      /\ Adding /\ ~Deleting /\ task.pc = "write_meta_data" /\ task \in PkgTask /\ TaskOK(task)
      /\ task.pkg \in Pkg /\ task.pkg # NULL /\ Installed' = Installed
  BY WriteMetaDataEffect DEF StructInv, WriteMetaData
<1>2. PICK dir \in Installed : dir = task.install_logdir
  BY WriteMetaDataEffect
<1>3. /\ Complete' = Complete \cup {dir} /\ pkgdb'[dir].contents = task.pkg
      /\ \A n \in Installed \ {dir} : pkgdb'[n] = pkgdb[n]
  BY <1>2, WriteMetaDataEffect
<1>4. PICK t \in PkgTask : /\ tasks' = <<t>> \o Tail(tasks) /\ Like(t)
                           /\ t.pc = IF task.other_version = NULL THEN "pre_install"
                                     ELSE "preserve_meta_data_file"
  BY WriteMetaDataEffect
<1>5. Calls = {task} \cup Waiting /\ Calls' = {t} \cup Waiting /\ task' = t /\ Adding'
  BY <1>1, <1>4, CallsPut
<1>6. t.pkg = task.pkg /\ t.other_version = task.other_version /\ t.install_logdir = dir
  BY <1>2, <1>4 DEF Like
(* What was in the directory, if anything, was the same.                   *)
<1>7. ASSUME dir \in Complete
      PROVE  dir = task.other_version /\ pkgdb[dir].contents = task.pkg
  <2>1. dir = task.other_version
    BY <1>1, <1>2, <1>7 DEF FilesKnown, Begun
  <2>2. dir = task.pkg
    BY <1>1, <1>2, <2>1, NewDirectory DEF TaskOK
  <2>3. pkgdb[dir].contents \in Pkg
    BY <1>7 DEF Complete, StructInv, TypeOK, StateType, DatabaseType, Directory
  <2>4. pkgdb[dir].contents = dir
    BY <1>1, <1>7, <2>2, <2>3, PkgAssumption DEF ConflictInv, ContentsOK
  <2> QED
    BY <2>1, <2>2, <2>4
<1>8. \A n \in Complete : pkgdb'[n].contents = pkgdb[n].contents /\ plist(n)' = plist(n)
  <2> SUFFICES ASSUME NEW n \in Complete
               PROVE  pkgdb'[n].contents = pkgdb[n].contents
    BY DEF plist
  <2> QED
    BY <1>3, <1>7 DEF Complete
<1>9. \A n : ~BeingDeleted(n) /\ ~BeingDeleted(n)'
  BY <1>1, <1>4, <1>5 DEF BeingDeleted, Deleting
<1>10. \A n, f : Gone(n, f)' => n = dir /\ task.other_version = NULL
  BY <1>1, <1>4, <1>5, <1>6 DEF Gone, Deleting
<1>11. Present'
  <2> SUFFICES ASSUME NEW n \in Complete', NEW f \in ToSet(plist(n)'.files)
               PROVE  \/ disk[f] = pkgdb'[n].contents
                      \/ \E u \in Calls' : u.install_logdir = n /\ Pending(u, f)
    BY <1>1 DEF Present, Pending
  <2>1. ~Pending(task, f)
    BY <1>1 DEF Pending
  <2>2. CASE n \in Complete
    <3>1. f \in ToSet(plist(n).files) /\ pkgdb'[n].contents = pkgdb[n].contents
      BY <1>8, <2>2
    <3>2. \/ disk[f] = pkgdb[n].contents
          \/ \E u \in Calls : u.install_logdir = n /\ Pending(u, f)
      BY <1>9, <2>2, <3>1 DEF FilesKnown, Present
    <3> QED
      BY <1>5, <2>1, <3>1, <3>2
  <2>3. CASE n \notin Complete
    <3>1. n = dir /\ (task.other_version # NULL => dir # task.other_version)
      BY <1>1, <1>3, <2>3 DEF FilesKnown, Begun
    <3>2. Pending(t, f)
      BY <1>4, <1>6, <3>1 DEF Pending
    <3> QED
      BY <1>5, <1>6, <3>1, <3>2
  <2> QED
    BY <2>2, <2>3
<1>12. Accounted'
  <2> SUFFICES ASSUME NEW f \in File, disk[f] # NULL
               PROVE  \E n \in Complete' : /\ pkgdb'[n].contents = disk[f]
                                           /\ f \in ToSet(plist(n)'.files) /\ ~Gone(n, f)'
    BY <1>1 DEF Accounted
  <2>1. PICK n \in Complete : pkgdb[n].contents = disk[f] /\ f \in ToSet(plist(n).files)
    BY DEF FilesKnown, Accounted
  <2>2. ~Gone(n, f)'
    <3>1. n = dir => task.other_version = dir
      BY <1>7
    <3>2. dir # NULL
      BY <1>1, PkgAssumption DEF StructInv, TypeOK, StateType, DatabaseType
    <3> QED
      BY <1>10, <3>1, <3>2
  <2> QED
    BY <1>3, <1>8, <2>1, <2>2
<1>13. Indexed' /\ NukesOwn'
  BY <1>1, <1>4, <1>5 DEF FilesKnown, Indexed, NukesOwn
<1>14. Free'
  <2>1. ToExtract(task)
    BY <1>1 DEF ToExtract
  <2> QED
    BY <1>1, <1>5, <1>6, <2>1 DEF FilesKnown, Free, ToExtract
<1>15. OtherGone'
  <2>1. ~HasReplaced(t)
    BY <1>4, <1>6 DEF HasReplaced
  <2> QED
    BY <1>1, <1>5, <2>1 DEF FilesKnown, OtherGone, HasReplaced
<1>16. Untouched'
  BY <1>9 DEF Untouched
<1>17. AllComplete'
  <2> SUFFICES ASSUME NEW n \in Installed \ Complete, n # dir
               PROVE  Unfilled(n)'
    BY <1>1, <1>3 DEF AllComplete
  <2>1. Unfilled(n)
    BY DEF FilesKnown, AllComplete
  <2>2. PICK u \in Calls : /\ u.other_version # NULL /\ n = u.install_logdir
                           /\ u.pc \in {"depends", "installed", "pre_install", "nuke_pkgdb"}
    BY <1>1, <1>2, <2>1 DEF Unfilled, Deleting
  <2>3. u \in Calls'
    BY <1>1, <1>5, <2>2
  <2> QED
    BY <2>2, <2>3 DEF Unfilled
<1>18. Begun'
  BY <1>4, <1>5 DEF Begun
<1> QED
  BY <1>11, <1>12, <1>13, <1>14, <1>15, <1>16, <1>17, <1>18 DEF FilesKnown

(* The old version has gone with its files; the new one's come later.      *)
LEMMA RenameFiles ==
  ASSUME StructInv, ConflictInv, Clean, FilesKnown, FilesClean', RenameDirectory
  PROVE  FilesKnown'
<1>1. /\ TypeOK /\ Stack /\ UNCHANGED <<byfile, disk, deletion>>
      /\ Adding /\ ~Deleting /\ task.pc = "rename" /\ task \in PkgTask /\ TaskOK(task)
      /\ task.other_version # NULL
  BY RenameEffect DEF StructInv, RenameDirectory
<1>2. PICK p \in Pkg, dir \in Name : p = task.pkg /\ dir = task.install_logdir /\ dir.base = p.base
  BY <1>1, NewDirectory
<1>3. \/ /\ pkgdb' = pkgdb
         /\ task.install_logdir_real = NULL \/ task.install_logdir_real \in Installed
      \/ /\ task.install_logdir_real = p /\ p \notin Installed
         /\ dir \in Installed /\ dir = Temporary(p) /\ dir # p
         /\ pkgdb[dir].contents = p
         /\ Installed' = (Installed \ {dir}) \cup {p}
         /\ pkgdb'[p] = pkgdb[dir]
         /\ \A n \in Installed \ {dir} : pkgdb'[n] = pkgdb[n]
  BY <1>2, RenameEffect DEF FilesClean
<1>4. PICK t \in PkgTask :
        /\ tasks' = <<t>> \o Tail(tasks)
        /\ t.pc = "depends" /\ t.pkg = p
        /\ t.other_version = task.other_version /\ t.install_logdir = p
  BY <1>2, RenamedTask
<1>5. Calls = {task} \cup Waiting /\ Calls' = {t} \cup Waiting /\ task' = t /\ Adding'
  BY <1>1, <1>4, CallsPut
<1>6. task.other_version \in Installed => task.other_version = dir
  BY <1>2 DEF RenameDirectory, FilesClean
<1>7. \A n : /\ ~BeingDeleted(n)' /\ (BeingDeleted(n) => n = task.other_version)
             /\ \A f : ~Gone(n, f)'
  BY <1>1, <1>4, <1>5 DEF BeingDeleted, Deleting, Gone
<1>8. \A f : Pending(t, f)
  BY <1>1, <1>4 DEF Pending
<1>9. Indexed' /\ NukesOwn'
  BY <1>1, <1>4, <1>5 DEF FilesKnown, Indexed, NukesOwn
<1>10. Free'
  <2>1. ToExtract(task)
    BY <1>1 DEF ToExtract
  <2> QED
    BY <1>1, <1>2, <1>4, <1>5, <2>1 DEF FilesKnown, Free, ToExtract
<1>11. Untouched' /\ Begun'
  BY <1>4, <1>5, <1>7 DEF Untouched, Begun
<1>12. CASE pkgdb' = pkgdb /\ (task.install_logdir_real = NULL \/ task.install_logdir_real \in Installed)
  <2>1. Installed' = Installed /\ Complete' = Complete /\ \A n \in Complete : plist(n)' = plist(n)
    BY <1>12 DEF Installed, Complete, plist
  <2>2. dir = p
    <3>1. CASE task.install_logdir_real = NULL
      BY <1>1, <1>2, <3>1 DEF TaskOK
    <3>2. CASE task.install_logdir_real # NULL
      <4>1. task.other_version = p /\ p \in Installed
        BY <1>1, <1>2, <1>12, <3>2 DEF TaskOK
      <4> QED
        BY <1>6, <4>1
    <3> QED
      BY <3>1, <3>2
  <2>3. Present'
    <3> SUFFICES ASSUME NEW n \in Complete, NEW f \in ToSet(plist(n).files)
                 PROVE  \/ disk[f] = pkgdb[n].contents
                        \/ \E u \in Calls' : u.install_logdir = n /\ Pending(u, f)
      BY <1>1, <1>12, <2>1 DEF Present, Pending
    <3>1. \/ disk[f] = pkgdb[n].contents
          \/ BeingDeleted(n)
          \/ \E u \in Calls : u.install_logdir = n /\ Pending(u, f)
      BY DEF FilesKnown, Present
    <3>2. CASE n = p
      BY <1>4, <1>5, <1>8, <3>2
    <3>3. CASE n # p
      <4>1. ~BeingDeleted(n)
        BY <1>6, <1>7, <2>2, <3>3 DEF Complete
      <4> QED
        BY <1>2, <1>5, <2>2, <3>1, <3>3, <4>1
    <3> QED
      BY <3>2, <3>3
  <2>4. Accounted'
    BY <1>1, <1>7, <1>12, <2>1 DEF FilesKnown, Accounted
  <2>5. OtherGone'
    BY <1>4, <1>5, <1>6, <2>1, <2>2 DEF FilesKnown, OtherGone, HasReplaced
  <2>6. AllComplete'
    <3> SUFFICES ASSUME NEW n \in Installed \ Complete
                 PROVE  \E u \in Calls' : /\ u.other_version # NULL /\ n = u.install_logdir
                             /\ u.pc \in {"depends", "installed", "pre_install", "nuke_pkgdb"}
      BY <2>1 DEF AllComplete, Unfilled
    <3>1. Unfilled(n)
      BY DEF FilesKnown, AllComplete
    <3>2. CASE n = task.other_version
      BY <1>1, <1>4, <1>5, <1>6, <2>2, <3>2
    <3>3. CASE n # task.other_version
      <4>1. PICK u \in Calls : /\ u.other_version # NULL /\ n = u.install_logdir
                               /\ u.pc \in {"depends", "installed", "pre_install", "nuke_pkgdb"}
        BY <1>1, <3>1, <3>3 DEF Unfilled, Deleting
      <4> QED
        BY <1>1, <1>5, <4>1
    <3> QED
      BY <3>2, <3>3
  <2> QED
    BY <1>9, <1>10, <1>11, <2>3, <2>4, <2>5, <2>6 DEF FilesKnown
<1>13. CASE /\ task.install_logdir_real = p /\ p \notin Installed
            /\ dir \in Installed /\ dir = Temporary(p) /\ dir # p
            /\ pkgdb[dir].contents = p
            /\ Installed' = (Installed \ {dir}) \cup {p}
            /\ pkgdb'[p] = pkgdb[dir]
            /\ \A n \in Installed \ {dir} : pkgdb'[n] = pkgdb[n]
  <2>1. task.other_version = p /\ p # NULL /\ dir \in Complete
    BY <1>1, <1>2, <1>13, PkgAssumption DEF TaskOK, Name, Complete
  <2>2. /\ Complete' = (Complete \ {dir}) \cup {p}
        /\ plist(p)' = plist(dir) /\ pkgdb'[p].contents = p
        /\ \A n \in Complete \ {dir} : pkgdb'[n] = pkgdb[n] /\ plist(n)' = plist(n)
    BY <1>13, <2>1 DEF Complete, plist
  <2>3. Present'
    <3> SUFFICES ASSUME NEW n \in Complete', NEW f \in ToSet(plist(n)'.files)
                 PROVE  \/ disk[f] = pkgdb'[n].contents
                        \/ \E u \in Calls' : u.install_logdir = n /\ Pending(u, f)
      BY <1>1 DEF Present, Pending
    <3>1. CASE n = p
      BY <1>4, <1>5, <1>8, <3>1
    <3>2. CASE n # p
      <4>1. n \in Complete /\ n # dir /\ plist(n)' = plist(n) /\ pkgdb'[n] = pkgdb[n]
        BY <2>2, <3>2
      <4>2. \/ disk[f] = pkgdb[n].contents
            \/ \E u \in Calls : u.install_logdir = n /\ Pending(u, f)
        BY <1>7, <2>1, <3>2, <4>1 DEF FilesKnown, Present
      <4> QED
        BY <1>2, <1>5, <4>1, <4>2
    <3> QED
      BY <3>1, <3>2
  <2>4. Accounted'
    <3> SUFFICES ASSUME NEW f \in File, disk[f] # NULL
                 PROVE  \E n \in Complete' : /\ pkgdb'[n].contents = disk[f]
                                             /\ f \in ToSet(plist(n)'.files)
      BY <1>1, <1>7 DEF Accounted
    <3>1. PICK n \in Complete : pkgdb[n].contents = disk[f] /\ f \in ToSet(plist(n).files)
      BY DEF FilesKnown, Accounted
    <3>2. CASE n = dir
      BY <1>13, <2>2, <3>1, <3>2
    <3>3. CASE n # dir
      BY <2>2, <3>1, <3>3
    <3> QED
      BY <3>2, <3>3
  <2>5. OtherGone'
    <3> SUFFICES ASSUME NEW u \in Calls', HasReplaced(u)
                 PROVE  u.other_version \notin Installed' \/ u.other_version = u.install_logdir
      BY DEF OtherGone, HasReplaced
    <3>1. CASE u = t
      BY <1>4, <2>1, <3>1
    <3>2. CASE u \in Waiting
      <4>1. u \in PkgTask /\ TaskOK(u) /\ u.other_version.base = u.pkg.base
        BY <1>1, <3>2, CallsOK DEF TaskOK, HasReplaced
      <4>2. u.pkg.base # task.pkg.base
        BY <1>1, <3>2, WaitsApart
      <4>3. u.other_version # p
        BY <1>2, <4>1, <4>2
      <4> QED
        BY <1>5, <1>13, <3>2, <4>3 DEF FilesKnown, OtherGone
    <3> QED
      BY <1>5, <3>1, <3>2
  <2>6. AllComplete'
    <3> SUFFICES ASSUME NEW n \in Installed \ Complete
                 PROVE  \E u \in Calls' : /\ u.other_version # NULL /\ n = u.install_logdir
                             /\ u.pc \in {"depends", "installed", "pre_install", "nuke_pkgdb"}
      BY <1>13, <2>2 DEF AllComplete, Unfilled
    <3>1. Unfilled(n)
      BY DEF FilesKnown, AllComplete
    <3>2. PICK u \in Calls : /\ u.other_version # NULL /\ n = u.install_logdir
                             /\ u.pc \in {"depends", "installed", "pre_install", "nuke_pkgdb"}
      BY <1>1, <1>13, <2>1, <3>1 DEF Unfilled, Deleting
    <3> QED
      BY <1>1, <1>5, <3>2
  <2> QED
    BY <1>9, <1>10, <1>11, <2>3, <2>4, <2>5, <2>6 DEF FilesKnown
<1> QED
  BY <1>3, <1>12, <1>13

(* What pkg_delete removes for pkg_add is the old version.                 *)
LEMMA DeletesOther ==
  ASSUME StructInv, Deleting, deletion.list # << >>, Adding
  PROVE  task.pc = "rename" /\ this = task.other_version /\ task.other_version # NULL
BY NotTheNewOne, PkgAssumption DEF StructInv, Running

(* +DEINSTALL: from here on the package's files may be gone.               *)
LEMMA DeinstallFiles ==
  ASSUME StructInv, FilesKnown, Deinstall, UNCHANGED tasks
  PROVE  FilesKnown'
<1>1. /\ Deleting /\ deletion.pc = "next" /\ deletion.list # << >> /\ deletion \in Deletion
      /\ UNCHANGED <<pkgdb, byfile, disk>> /\ Installed' = Installed
  BY DEF Deinstall, Deleting, database, StructInv, TypeOK, Installed
<1>2. Calls' = Calls /\ Adding' = Adding /\ task' = task
  BY DEF Calls, Adding, task
<1>3. Adding => task.pc = "rename" /\ this = task.other_version
  BY <1>1, DeletesOther
<1>4. \/ deletion'.pc = "next"
      \/ /\ deletion'.pc = "remove" /\ this' = this /\ this \in Complete
         /\ deletion'.files = plist(this).files
  <2>1. CASE deletion' = [deletion EXCEPT !.list = remaining(TRUE)]
    BY <1>1, <2>1 DEF Deletion
  <2>2. CASE this \in Complete /\ deletion' = [deletion EXCEPT !.pc = "remove",
                                        !.files = plist(this).files,
                                        !.depends = plist(this).depends]
    BY <1>1, <2>2 DEF Deletion, this
  <2> QED
    BY <2>1, <2>2 DEF Deinstall
<1>5. \A n : BeingDeleted(n)' => BeingDeleted(n) \/ (n = this /\ ~Adding)
  BY <1>2, <1>3, <1>4 DEF BeingDeleted
<1>6. \A n : BeingDeleted(n) => BeingDeleted(n)'
  BY <1>1, <1>2 DEF BeingDeleted
<1>7. ~Adding => Calls = {}
  BY TheCalls DEF StructInv
<1>8. \A n \in Complete :
         BeingDeleted(n)' => \/ BeingDeleted(n)
                             \/ \A u \in Calls : \A f : u.install_logdir = n => ~Pending(u, f)
  BY <1>5, <1>7
<1>9. \A n \in Complete : \A f \in ToSet(plist(n).files) : Gone(n, f)' => Gone(n, f)
  BY <1>1, <1>2, <1>4 DEF Gone
<1>10. \A n \in Installed \ Complete : Unfilled(n) => Unfilled(n)'
  BY <1>1, <1>2 DEF Unfilled
<1>11. Begun'
  BY <1>2, <1>3 DEF Begun
<1>12. /\ ~(Adding /\ task.pc = "nuke_pkg") /\ ~(Adding' /\ task'.pc = "nuke_pkg")
       /\ \A n \in Installed : pkgdb'[n].contents = pkgdb[n].contents
  BY <1>1, <1>2, <1>3
<1> QED
  BY <1>1, <1>2, <1>6, <1>8, <1>9, <1>10, <1>11, <1>12, QuietFiles

(* The end of pkg_delete and its being killed.                             *)
LEMMA EndDeleteFiles ==
  ASSUME StructInv, FilesKnown, Deleting, UNCHANGED <<pkgdb, byfile, disk, tasks>>,
         deletion' = NoDeletion,
         deletion.pc \in {"remove", "rmdir"} => Adding
  PROVE  FilesKnown'
<1>1. Calls' = Calls /\ Adding' = Adding /\ task' = task
  BY DEF Calls, Adding, task
<1>2. Installed' = Installed /\ deletion'.pc = "none"
  BY NoDeletionType DEF Installed
<1>3. Adding => task.pc = "rename" /\ task.other_version # NULL
  BY TheTask DEF StructInv, Running, TaskOK
<1>4. deletion.pc \in {"remove", "rmdir"} => this = task.other_version /\ Adding
  BY DeletesOther DEF StructInv, Running
<1>5. \A n : BeingDeleted(n) => BeingDeleted(n)'
  BY <1>1, <1>3, <1>4 DEF BeingDeleted
<1>6. \A n : BeingDeleted(n)' => BeingDeleted(n)
  BY <1>1, <1>2 DEF BeingDeleted
<1>7. \A n, f : ~Gone(n, f)'
  BY <1>1, <1>2, <1>3 DEF Gone
<1>8. \A n : Unfilled(n) => Unfilled(n)'
  BY <1>1, <1>3, <1>4 DEF Unfilled
<1>9. Begun'
  BY <1>1, <1>3 DEF Begun
<1>10. /\ ~(Adding /\ task.pc = "nuke_pkg") /\ ~(Adding' /\ task'.pc = "nuke_pkg")
       /\ \A n \in Installed : pkgdb'[n].contents = pkgdb[n].contents
  BY <1>1, <1>3
<1> QED
  BY <1>1, <1>2, <1>5, <1>6, <1>7, <1>8, <1>9, <1>10, QuietFiles

LEMMA RemoveDependFiles ==
  ASSUME StructInv, FilesKnown, RemoveDepend, UNCHANGED tasks
  PROVE  FilesKnown'
<1>1. /\ Deleting /\ deletion.pc = "remove" /\ deletion.list # << >> /\ deletion \in Deletion
      /\ UNCHANGED <<byfile, disk>>
  BY DEF RemoveDepend, Deleting, StructInv, TypeOK, Running
<1>2. Calls' = Calls /\ Adding' = Adding /\ task' = task
  BY DEF Calls, Adding, task
<1>3. Installed' = Installed /\ \A m \in Installed : pkgdb'[m].contents = pkgdb[m].contents
  <2>1. PICK q, n : pkgdb' = without_line(q, n)
    BY DEF RemoveDepend
  <2> QED
    BY <2>1, WithoutLine DEF StructInv, TypeOK, StateType
<1>4. /\ deletion'.pc = "remove" /\ deletion'.files = deletion.files /\ this' = this
  <2>1. PICK q : q = Tail(deletion.depends)
    OBVIOUS
  <2>2. deletion' = [deletion EXCEPT !.depends = q]
    BY <2>1 DEF RemoveDepend
  <2> QED
    BY <1>1, <2>2 DEF Deletion, this
<1>5. Adding => task.pc = "rename"
  BY <1>1, DeletesOther
<1>6. \A n : BeingDeleted(n)' = BeingDeleted(n) /\ \A f : Gone(n, f)' = Gone(n, f)
  BY <1>1, <1>2, <1>4 DEF BeingDeleted, Gone
<1>7. \A n : Unfilled(n) => Unfilled(n)'
  BY <1>1, <1>2 DEF Unfilled
<1>8. Begun'
  BY <1>2, <1>5 DEF Begun
<1>9. ~(Adding /\ task.pc = "nuke_pkg") /\ ~(Adding' /\ task'.pc = "nuke_pkg")
  BY <1>2, <1>5
<1> QED
  BY <1>1, <1>2, <1>3, <1>6, <1>7, <1>8, <1>9, QuietFiles

(* Another directory with the same package in +CONTENTS is the one that    *)
(* pkg_add -U fills beside it.                                             *)
LEMMA SamePackage ==
  ASSUME StructInv, ConflictInv, Clean, Deleting, deletion.list # << >>, this \in Complete,
         NEW n \in Complete, n # this, pkgdb[n].contents = pkgdb[this].contents
  PROVE  /\ Adding /\ task \in Calls /\ task.install_logdir = n
         /\ \A f : Pending(task, f)
<1>1. ASSUME NEW m \in Complete, Beside(m), ~(Adding /\ task.pc = "rename")
      PROVE  FALSE
  BY <1>1, DeletesOther DEF Beside
<1>2. ~Beside(this)
  <2>1. SUFFICES ASSUME Beside(this)
                 PROVE  FALSE
    OBVIOUS
  <2>2. Adding /\ this = task.install_logdir /\ this = task.other_version
    BY <2>1, DeletesOther DEF Beside
  <2>3. task \in PkgTask /\ TaskOK(task)
    BY <2>2, TheTask DEF StructInv
  <2>4. this = task.pkg /\ task.install_logdir_real = NULL
    BY <2>2, <2>3, NewDirectory DEF TaskOK
  <2>5. this \in Pkg /\ pkgdb[this].contents = this /\ n # this
    <3>1. this \in Pkg /\ pkgdb[this].contents \in Pkg
      BY <2>3, <2>4 DEF PkgTask, Complete, StructInv, TypeOK, StateType, DatabaseType, Directory
    <3> QED
      BY <3>1, PkgAssumption DEF ConflictInv, ContentsOK
  <2>6. ~Beside(n)
    BY <2>2 DEF Beside
  <2>7. pkgdb[n].contents = n
    BY <2>6, OwnContents
  <2> QED
    BY <2>5, <2>7
<1>3. pkgdb[this].contents = this
  BY <1>2, OwnContents
<1>4. Beside(n)
  <2>1. SUFFICES ASSUME ~Beside(n)
                 PROVE  FALSE
    OBVIOUS
  <2>2. pkgdb[n].contents = n
    BY <2>1, OwnContents
  <2> QED
    BY <1>3, <2>2
<1>5. Adding /\ n = task.install_logdir /\ task.pc = "rename" /\ this = task.other_version
  BY <1>4, DeletesOther DEF Beside
<1>6. task \in Calls
  BY <1>5, TheCalls DEF StructInv
<1> QED
  BY <1>5, <1>6 DEF Pending

LEMMA DeleteFileFiles ==
  ASSUME StructInv, ConflictInv, Clean, FilesKnown, DeleteFile, UNCHANGED tasks
  PROVE  FilesKnown'
<1>1. /\ Deleting /\ deletion.pc = "remove" /\ deletion.files # << >> /\ deletion \in Deletion
      /\ UNCHANGED pkgdb /\ TypeOK /\ Stack
      /\ deletion.list # << >> /\ this \in Installed /\ pkgdb[this].contents # NULL
      /\ ToSet(deletion.files) \subseteq ToSet(plist(this).files)
  BY DEF DeleteFile, Deleting, StructInv, TypeOK, Running
<1>2. PICK d : d = this
  OBVIOUS
<1>3. d \in Complete /\ BeingDeleted(d)
  BY <1>1, <1>2 DEF Complete, BeingDeleted
<1>4. PICK p \in Pkg : p = pkgdb[d].contents
  BY <1>1, <1>2 DEF TypeOK, StateType, DatabaseType, Directory
<1>5. deletion.files \in Seq(File)
  BY <1>1 DEF Deletion
<1>6. PICK g \in File : /\ g = Head(deletion.files) /\ g \in ToSet(plist(d).files)
                        /\ ToSet(deletion.files) = {g} \cup ToSet(Tail(deletion.files))
  BY <1>1, <1>2, <1>5, ToSetSeq
<1>7. disk[g] \in {NULL, p}
  BY <1>3, <1>4, <1>6 DEF FilesKnown, Untouched
<1>8. /\ disk'[g] = NULL /\ byfile'[g] = NULL
      /\ \A f \in File : f # g => disk'[f] = disk[f] /\ byfile'[f] = byfile[f]
  <2>1. delete_file(g, p, forced)
    BY <1>2, <1>4, <1>6 DEF DeleteFile
  <2>2. disk' = [disk EXCEPT ![g] = NULL] /\ byfile' = [byfile EXCEPT ![g] = NULL]
    BY <1>7, <2>1 DEF delete_file
  <2>3. disk \in [File -> Pkg \cup {NULL}] /\ byfile \in [File -> Pkg \cup {NULL}]
    BY <1>1 DEF TypeOK, StateType
  <2> QED
    BY <2>2, <2>3
<1>9. /\ deletion'.pc = "remove" /\ deletion'.files = Tail(deletion.files) /\ this' = d
  <2>1. PICK q : q = Tail(deletion.files)
    OBVIOUS
  <2>2. deletion' = [deletion EXCEPT !.files = q]
    BY <2>1 DEF DeleteFile
  <2> QED
    BY <1>1, <1>2, <2>1, <2>2 DEF Deletion, this
<1>10. Calls' = Calls /\ Adding' = Adding /\ task' = task
  BY DEF Calls, Adding, task
<1>11. Installed' = Installed /\ Complete' = Complete /\ \A n \in Complete : plist(n)' = plist(n)
  BY <1>1 DEF Installed, Complete, plist
<1>12. Adding => task.pc = "rename"
  BY <1>1, DeletesOther
<1>13. \A n : BeingDeleted(n)' = BeingDeleted(n)
  BY <1>1, <1>2, <1>9, <1>10 DEF BeingDeleted
<1>14. \A n, f : f # g /\ Gone(n, f)' => Gone(n, f)
  BY <1>1, <1>2, <1>6, <1>9, <1>10 DEF Gone
<1>15. ASSUME NEW n \in Complete, NEW f \in ToSet(plist(n).files)
       PROVE  f \in File
  <2>1. pkgdb[n].contents \in Pkg
    BY DEF Complete, StructInv, TypeOK, StateType, DatabaseType, Directory
  <2>2. plist(n).files \in Seq(File)
    BY <2>1, Plists DEF plist
  <2> QED
    BY <2>2, ToSetSeq
<1>16. Present'
  <2> SUFFICES ASSUME NEW n \in Complete, NEW f \in ToSet(plist(n).files)
               PROVE  \/ disk'[f] = pkgdb[n].contents
                      \/ BeingDeleted(n)
                      \/ \E u \in Calls : u.install_logdir = n /\ Pending(u, f)
    BY <1>1, <1>10, <1>11, <1>13 DEF Present, Pending
  <2>1. \/ disk[f] = pkgdb[n].contents
        \/ BeingDeleted(n)
        \/ \E u \in Calls : u.install_logdir = n /\ Pending(u, f)
    BY DEF FilesKnown, Present
  <2>2. CASE f = g /\ disk[f] = pkgdb[n].contents /\ n # d
    <3>1. pkgdb[n].contents = p
      BY <1>7, <2>2 DEF Complete
    <3> QED
      BY <1>1, <1>2, <1>3, <1>4, <2>2, <3>1, SamePackage
  <2>3. CASE n = d
    BY <1>3, <2>3
  <2>4. CASE f # g /\ disk[f] = pkgdb[n].contents
    BY <1>8, <1>15, <2>4
  <2> QED
    BY <2>1, <2>2, <2>3, <2>4
<1>17. Accounted'
  <2> SUFFICES ASSUME NEW f \in File, disk'[f] # NULL
               PROVE  \E n \in Complete : /\ pkgdb[n].contents = disk'[f]
                                          /\ f \in ToSet(plist(n).files) /\ ~Gone(n, f)'
    BY <1>1, <1>11 DEF Accounted
  <2>1. f # g /\ disk'[f] = disk[f]
    BY <1>8
  <2> QED
    BY <1>14, <2>1 DEF FilesKnown, Accounted
<1>18. Indexed' /\ NukesOwn'
  <2>1. \A f \in File : byfile'[f] = disk'[f]
    <3> SUFFICES ASSUME NEW f \in File
                 PROVE  byfile'[f] = disk'[f]
      OBVIOUS
    <3>1. byfile[f] = disk[f]
      BY <1>12 DEF FilesKnown, Indexed
    <3> QED
      BY <1>8, <3>1
  <2> QED
    BY <1>10, <1>12, <2>1 DEF Indexed, NukesOwn
<1>19. Free'
  <2> SUFFICES ASSUME NEW u \in Calls, ToExtract(u), NEW f \in ToSet(Plist[u.pkg].files)
               PROVE  byfile'[f] \in {NULL, u.pkg, u.other_version}
    BY <1>10 DEF Free, ToExtract
  <2>1. byfile[f] \in {NULL, u.pkg, u.other_version}
    BY DEF FilesKnown, Free
  <2>2. f \in File
    <3>1. u.pkg \in Pkg
      BY <1>1, CallsOK DEF PkgTask
    <3>2. Plist[u.pkg].files \in Seq(File)
      BY <3>1, Plists
    <3> QED
      BY <3>2, ToSetSeq
  <2> QED
    BY <1>8, <2>1, <2>2
<1>20. OtherGone'
  BY <1>10, <1>11 DEF FilesKnown, OtherGone, HasReplaced
<1>21. Untouched'
  <2> SUFFICES ASSUME NEW n \in Complete, BeingDeleted(n), NEW f \in ToSet(plist(n).files)
               PROVE  disk'[f] \in {NULL, pkgdb[n].contents}
    BY <1>1, <1>11, <1>13 DEF Untouched
  <2>1. disk[f] \in {NULL, pkgdb[n].contents} /\ f \in File
    BY <1>15 DEF FilesKnown, Untouched
  <2> QED
    BY <1>8, <2>1
<1>22. AllComplete'
  <2> SUFFICES ASSUME NEW n \in Installed \ Complete
               PROVE  Unfilled(n)'
    BY <1>11 DEF AllComplete
  <2>1. Unfilled(n)
    BY DEF FilesKnown, AllComplete
  <2> QED
    BY <1>1, <1>10, <2>1 DEF Unfilled
<1>23. Begun'
  BY <1>10, <1>12 DEF Begun
<1> QED
  BY <1>16, <1>17, <1>18, <1>19, <1>20, <1>21, <1>22, <1>23 DEF FilesKnown

(* +CONTENTS goes last.                                                    *)
LEMMA RemoveMetaDataFiles ==
  ASSUME StructInv, FilesKnown, RemoveMetaData, UNCHANGED tasks
  PROVE  FilesKnown'
<1>1. /\ Deleting /\ deletion.pc = "remove" /\ deletion.list # << >> /\ this \in Installed
      /\ deletion.files = << >> /\ pkgdb[this].contents # NULL
      /\ Installed' = Installed
      /\ deletion'.pc = "rmdir" /\ UNCHANGED <<byfile, disk>> /\ TypeOK
  BY RemoveMetaDataEffect DEF RemoveMetaData, StructInv
<1>2. PICK d : d = this /\ d = this'
  BY RemoveMetaDataEffect
<1>3. pkgdb'[d].contents = NULL /\ \A n \in Installed \ {d} : pkgdb'[n] = pkgdb[n]
  BY <1>2, RemoveMetaDataEffect DEF EmptyDirectory
<1>4. /\ Complete' = Complete \ {d}
      /\ \A n \in Complete' : pkgdb'[n] = pkgdb[n] /\ plist(n)' = plist(n)
  BY <1>1, <1>3 DEF Complete, plist
<1>5. Calls' = Calls /\ Adding' = Adding /\ task' = task
  BY DEF Calls, Adding, task
<1>6. Adding => task.pc = "rename" /\ task.other_version # NULL
  BY <1>1, DeletesOther
<1>7. \A n : n # d => BeingDeleted(n)' = BeingDeleted(n)
  BY <1>1, <1>2, <1>5 DEF BeingDeleted
<1>8. \A n, f : ~Gone(n, f)'
  BY <1>1, <1>5, <1>6 DEF Gone
<1>9. \A f : Gone(d, f)
  BY <1>1, <1>2, ToSetEmpty DEF Gone
<1>10. Present'
  <2> SUFFICES ASSUME NEW n \in Complete', NEW f \in ToSet(plist(n).files)
               PROVE  \/ disk[f] = pkgdb[n].contents
                      \/ BeingDeleted(n)'
                      \/ \E u \in Calls : u.install_logdir = n /\ Pending(u, f)
    BY <1>1, <1>4, <1>5 DEF Present, Pending
  <2>1. n \in Complete /\ n # d
    BY <1>4
  <2> QED
    BY <1>7, <2>1 DEF FilesKnown, Present
<1>11. Accounted'
  <2> SUFFICES ASSUME NEW f \in File, disk[f] # NULL
               PROVE  \E n \in Complete' : pkgdb[n].contents = disk[f] /\ f \in ToSet(plist(n).files)
    BY <1>1, <1>4, <1>8 DEF Accounted
  <2>1. PICK n \in Complete : /\ pkgdb[n].contents = disk[f]
                              /\ f \in ToSet(plist(n).files) /\ ~Gone(n, f)
    BY DEF FilesKnown, Accounted
  <2> QED
    BY <1>4, <1>9, <2>1
<1>12. Indexed' /\ NukesOwn'
  BY <1>1, <1>5, <1>6 DEF FilesKnown, Indexed, NukesOwn
<1>13. Free'
  BY <1>1, <1>5 DEF FilesKnown, Free, ToExtract
<1>14. OtherGone'
  BY <1>1, <1>5 DEF FilesKnown, OtherGone, HasReplaced
<1>15. Untouched'
  <2> SUFFICES ASSUME NEW n \in Complete', BeingDeleted(n)', NEW f \in ToSet(plist(n).files)
               PROVE  disk[f] \in {NULL, pkgdb[n].contents}
    BY <1>1, <1>4 DEF Untouched
  <2>1. n \in Complete /\ n # d
    BY <1>4
  <2> QED
    BY <1>7, <2>1 DEF FilesKnown, Untouched
<1>16. AllComplete'
  <2> SUFFICES ASSUME NEW n \in Installed, n \notin Complete'
               PROVE  Unfilled(n)'
    BY <1>1 DEF AllComplete
  <2>1. CASE n = d
    BY <1>1, <1>2, <2>1 DEF Unfilled
  <2>2. CASE n # d
    <3>1. Unfilled(n)
      BY <1>4, <2>2 DEF FilesKnown, AllComplete
    <3> QED
      BY <1>1, <1>5, <3>1 DEF Unfilled
  <2> QED
    BY <2>1, <2>2
<1>17. Begun'
  BY <1>5, <1>6 DEF Begun
<1> QED
  BY <1>10, <1>11, <1>12, <1>13, <1>14, <1>15, <1>16, <1>17 DEF FilesKnown

LEMMA RmdirFiles ==
  ASSUME StructInv, FilesKnown, Rmdir, UNCHANGED tasks
  PROVE  FilesKnown'
<1>1. /\ Deleting /\ deletion.pc = "rmdir" /\ deletion.list # << >> /\ this \in Installed
      /\ pkgdb[this].contents = NULL
      /\ deletion'.pc = "next" /\ UNCHANGED <<byfile, disk>>
  BY RmdirEffect DEF Rmdir
<1>2. PICK d : d = this
  OBVIOUS
<1>3. Installed' = Installed \ {d} /\ \A n \in Installed \ {d} : pkgdb'[n] = pkgdb[n]
  BY <1>2, RmdirEffect
<1>4. /\ Complete' = Complete /\ d \notin Complete
      /\ \A n \in Complete : pkgdb'[n] = pkgdb[n] /\ plist(n)' = plist(n)
  BY <1>1, <1>2, <1>3 DEF Complete, plist
<1>5. Calls' = Calls /\ Adding' = Adding /\ task' = task
  BY DEF Calls, Adding, task
<1>6. Adding => task.pc = "rename" /\ task.other_version # NULL
  BY <1>1, DeletesOther
<1>7. \A n : BeingDeleted(n)' = BeingDeleted(n)
  BY <1>1, <1>5 DEF BeingDeleted
<1>8. \A n, f : ~Gone(n, f)'
  BY <1>1, <1>5, <1>6 DEF Gone
<1>9. Present' /\ Untouched'
  BY <1>1, <1>4, <1>5, <1>7 DEF FilesKnown, Present, Untouched, Pending
<1>10. Accounted'
  BY <1>1, <1>4, <1>8 DEF FilesKnown, Accounted
<1>11. Indexed' /\ NukesOwn'
  BY <1>1, <1>5, <1>6 DEF FilesKnown, Indexed, NukesOwn
<1>12. Free'
  BY <1>1, <1>5 DEF FilesKnown, Free, ToExtract
<1>13. OtherGone'
  BY <1>3, <1>5 DEF FilesKnown, OtherGone, HasReplaced
<1>14. AllComplete'
  <2> SUFFICES ASSUME NEW n \in Installed \ Complete, n # d
               PROVE  Unfilled(n)'
    BY <1>3, <1>4 DEF AllComplete
  <2>1. Unfilled(n)
    BY DEF FilesKnown, AllComplete
  <2> QED
    BY <1>1, <1>2, <1>5, <2>1 DEF Unfilled
<1>15. Begun'
  BY <1>5, <1>6 DEF Begun
<1> QED
  BY <1>9, <1>10, <1>11, <1>12, <1>13, <1>14, <1>15 DEF FilesKnown

LEMMA AddStepFiles ==
  ASSUME StructInv, StructInv', ConflictInv, Clean, FilesKnown, FilesClean', AddStep
  PROVE  FilesKnown'
BY DependsFiles, CheckFiles, MkdirFiles, WriteFiles, PreserveFiles, DeleteOtherFiles, RenameFiles,
   InstallFiles, ExtractFiles, NukeFiles, NukePkgdbFiles, GivesUpFiles DEF AddStep

LEMMA DeleteStepFiles ==
  ASSUME StructInv, ConflictInv, Clean, FilesKnown, DeleteStep, UNCHANGED tasks
  PROVE  FilesKnown'
<1>1. CASE EndDelete
  BY <1>1, EndDeleteFiles DEF EndDelete, Deleting, database
<1> QED
  BY <1>1, DeinstallFiles, DeleteFileFiles, RemoveDependFiles, RemoveMetaDataFiles, RmdirFiles
     DEF DeleteStep

(* A command begins or ends.                                               *)
LEMMA IdleFiles ==
  ASSUME StructInv, FilesKnown, UNCHANGED <<byfile, disk>>, Installed' = Installed,
         \A n \in Installed : pkgdb'[n].contents = pkgdb[n].contents,
         ~Adding, ~Deleting, deletion'.pc \in {"none", "next"},
         \A t \in Calls' : t.pc = "check", Adding' => task' \in Calls'
  PROVE  FilesKnown'
<1>1. Calls = {} /\ (Adding' => task'.pc = "check")
  BY TheCalls DEF StructInv
<1>2. \A n : ~BeingDeleted(n) /\ ~BeingDeleted(n)'
  BY <1>1 DEF BeingDeleted, Deleting
<1>3. \A n, f : ~Gone(n, f)'
  BY <1>1 DEF Gone
<1>4. \A t \in Calls' : ~ToExtract(t) /\ ~HasReplaced(t)
  BY DEF ToExtract, HasReplaced
<1>5. \A n : ~Unfilled(n)
  BY <1>1 DEF Unfilled, Deleting
<1>6. Begun'
  BY <1>1 DEF Begun
<1> QED
  BY <1>1, <1>2, <1>3, <1>4, <1>5, <1>6, QuietFiles

LEMMA PkgAddCommandFiles ==
  ASSUME StructInv, FilesKnown, PkgAddCommand
  PROVE  FilesKnown'
<1>1. ~Adding /\ ~Deleting /\ UNCHANGED <<pkgdb, byfile, disk, deletion>>
  BY NothingRuns DEF PkgAddCommand, Idle, database
<1>2. PICK p \in scenario.packages, opts \in scenario.add_options : tasks' = <<Task(p, "A" \in opts)>>
  BY DEF PkgAddCommand
<1>3. PICK t : t = Task(p, "A" \in opts) /\ t.pc = "check"
  <2>1. \A a : Task(p, a).pc = "check"
    BY DEF Task
  <2> QED
    BY <2>1, Zenon
<1>4. Calls' = {t} /\ task' = t
  BY <1>2, <1>3 DEF Calls, task
<1>5. Installed' = Installed
  BY <1>1 DEF Installed
<1> QED
  BY <1>1, <1>3, <1>4, <1>5, IdleFiles DEF Deleting

(* What begins nothing but a deletion.                                     *)
LEMMA OtherCommandFiles ==
  ASSUME StructInv, FilesKnown, FilesClean',
         PkgDeleteCommand \/ PkgAdminCommand \/ RebuildTree \/ AddOrDeleteEnds
  PROVE  FilesKnown'
<1>1. ~Adding /\ ~Deleting /\ tasks' = tasks /\ TypeOK
  BY NothingRuns DEF PkgDeleteCommand, PkgAdminCommand, RebuildTree, AddOrDeleteEnds, Idle, volatile,
     StructInv
<1>2. ~Adding' /\ Calls' = {}
  BY <1>1, TheCalls DEF Adding, Calls
<1>3. CASE PkgDeleteCommand
  <2>1. PICK n \in Complete, opts \in scenario.delete_options : StartDelete({n}, opts)
    BY <1>3 DEF PkgDeleteCommand
  <2>2. {n} \in SUBSET Name /\ opts \in SUBSET Options
    BY <1>1, ScenariosAssumption DEF TypeOK, StateType, DatabaseType, Complete, Options
  <2>3. deletion'.pc \in {"none", "next"}
    BY <1>1, <2>1, <2>2, StartDeleteEffect
  <2>4. UNCHANGED <<pkgdb, byfile, disk>> /\ Installed' = Installed
    BY <1>3 DEF PkgDeleteCommand, database, Installed
  <2> QED
    BY <1>1, <1>2, <2>3, <2>4, IdleFiles
<1>4. CASE PkgAdminCommand \/ RebuildTree
  <2>1. UNCHANGED <<byfile, disk, deletion>>
    BY <1>4 DEF PkgAdminCommand, RebuildTree, volatile, FilesClean
  <2>2. /\ Installed' = Installed
        /\ \A n \in Installed : pkgdb'[n].contents = pkgdb[n].contents
    BY <1>4, PkgAdminCommandStruct, RebuildTreeStruct
  <2> QED
    BY <1>1, <1>2, <2>1, <2>2, IdleFiles DEF Deleting
<1>5. CASE AddOrDeleteEnds
  <2>1. UNCHANGED <<pkgdb, byfile, disk, deletion>> /\ Installed' = Installed
    BY <1>5 DEF AddOrDeleteEnds, database, Installed
  <2> QED
    BY <1>1, <1>2, <1>5, <2>1, IdleFiles DEF Deleting
<1> QED
  BY <1>3, <1>4, <1>5

(* Only the child can be killed without a doubt about the files.           *)
LEMMA KillFiles ==
  ASSUME StructInv, FilesKnown, FilesClean', Kill
  PROVE  FilesKnown'
<1>1. Deleting /\ Adding /\ UNCHANGED <<pkgdb, byfile, disk, tasks>> /\ deletion' = NoDeletion
  BY DEF Kill, interrupted, FilesClean, database
<1> QED
  BY <1>1, EndDeleteFiles

LEMMA StutterFiles ==
  ASSUME FilesKnown, UNCHANGED vars
  PROVE  FilesKnown'
<1>1. UNCHANGED <<pkgdb, byfile, disk, deletion, tasks>>
  BY DEF vars, database
<1>2. Calls' = Calls /\ Adding' = Adding /\ task' = task /\ Installed' = Installed
      /\ Complete' = Complete /\ this' = this
  BY <1>1 DEF Calls, Adding, task, Installed, Complete, this
<1>3. /\ \A n : plist(n)' = plist(n) /\ (BeingDeleted(n)' <=> BeingDeleted(n))
                /\ (Unfilled(n)' <=> Unfilled(n))
      /\ \A n, f : Gone(n, f)' <=> Gone(n, f)
  BY <1>1, <1>2 DEF plist, BeingDeleted, Unfilled, Gone
<1>4. (Present /\ Accounted /\ Indexed)'
  BY <1>1, <1>2, <1>3 DEF FilesKnown, Present, Accounted, Indexed, Pending
<1>5. (Free /\ OtherGone /\ Untouched /\ NukesOwn)'
  BY <1>1, <1>2, <1>3 DEF FilesKnown, Free, OtherGone, Untouched, NukesOwn, ToExtract, HasReplaced
<1>6. (AllComplete /\ Begun)'
  BY <1>1, <1>2, <1>3 DEF FilesKnown, AllComplete, Begun
<1> QED
  BY <1>4, <1>5, <1>6 DEF FilesKnown

-----------------------------------------------------------------------------
(* While no command runs *)

LEMMA TheOwners ==
  ASSUME TypeOK, NEW f
  PROVE  owners(f, Complete) =
           {pkgdb[n].contents : n \in {m \in Complete : f \in ToSet(plist(m).files)}}
<1>1. \A m \in Complete : Range(plist(m).files) = ToSet(plist(m).files)
  <2> SUFFICES ASSUME NEW m \in Complete
               PROVE  Range(plist(m).files) = ToSet(plist(m).files)
    OBVIOUS
  <2>1. pkgdb[m].contents \in Pkg
    BY DEF TypeOK, StateType, DatabaseType, Complete, Directory
  <2> QED
    BY <2>1, Plists, ToSetSeq DEF plist
<1> QED
  BY <1>1 DEF owners

LEMMA FilesWhenIdle ==
  ASSUME StructInv, FilesKnown, ~Adding, ~Deleting
  PROVE  Installed = Complete /\ AllFilesThere /\ \A f \in File : byfile[f] = disk[f]
<1>1. Calls = {} /\ TypeOK /\ deletion.pc = "none"
  BY TheCalls DEF StructInv, Deleting
<1>2. \A n : ~BeingDeleted(n) /\ ~Unfilled(n) /\ \A f : ~Gone(n, f)
  BY <1>1 DEF BeingDeleted, Unfilled, Gone
<1>3. Installed = Complete
  BY <1>2 DEF FilesKnown, AllComplete, Complete
<1>4. ASSUME NEW f \in File
      PROVE  owners(f, Complete) = {disk[f]} \ {NULL}
  <2>1. \A n \in Complete : f \in ToSet(plist(n).files) =>
          disk[f] = pkgdb[n].contents /\ disk[f] # NULL
    BY <1>1, <1>2 DEF FilesKnown, Present, Complete
  <2>2. disk[f] # NULL =>
          \E n \in Complete : f \in ToSet(plist(n).files) /\ pkgdb[n].contents = disk[f]
    BY DEF FilesKnown, Accounted
  <2>3. owners(f, Complete) =
           {pkgdb[n].contents : n \in {m \in Complete : f \in ToSet(plist(m).files)}}
    BY <1>1, TheOwners
  <2> QED
    BY <2>1, <2>2, <2>3
<1>5. \A f \in File : byfile[f] = disk[f]
  BY <1>2 DEF FilesKnown, Indexed
<1> QED
  BY <1>3, <1>4, <1>5 DEF AllFilesThere

(* pkg_admin rebuild makes a new index; that all files are there is for    *)
(* the check in the model to say.                                          *)
LEMMA RebuildFiles ==
  ASSUME StructInv, FilesInv, FilesClean', Rebuild
  PROVE  FilesKnown'
<1>1. ~Adding /\ ~Deleting /\ UNCHANGED <<pkgdb, disk, deletion, tasks>> /\ TypeOK
  BY NothingRuns DEF Rebuild, volatile, StructInv
<1>2. Installed = Complete /\ AllFilesThere
  <2>1. CASE Installed = Complete /\ AllFilesThere
    BY <2>1
  <2>2. CASE ~(Installed = Complete /\ AllFilesThere)
    <3>1. trouble' = trouble
      BY <2>2 DEF Rebuild
    <3>2. FilesKnown
      BY <3>1 DEF FilesClean, FilesInv
    <3> QED
      BY <1>1, <3>2, FilesWhenIdle
  <2> QED
    BY <2>1, <2>2
<1>3. \A f \in File : byfile'[f] = disk[f]
  <2>1. PICK visited \in Visited : \A f \in File : byfile'[f] \in entries(f, visited)
    BY DEF Rebuild
  <2>2. visited = Complete
    BY <1>2, <2>1 DEF Visited
  <2> QED
    BY <1>2, <2>1, <2>2 DEF entries, AllFilesThere
<1>4. /\ Calls' = {} /\ ~Adding' /\ Installed' = Installed /\ Complete' = Complete
      /\ deletion'.pc = "none" /\ \A n : plist(n)' = plist(n)
  BY <1>1, TheCalls DEF Calls, Adding, Deleting, Installed, Complete, plist
<1>5. \A n : ~BeingDeleted(n)' /\ \A f : ~Gone(n, f)'
  BY <1>4 DEF BeingDeleted, Gone
<1>6. \A f \in File :
        {pkgdb[n].contents : n \in {m \in Complete : f \in ToSet(plist(m).files)}}
          = {disk[f]} \ {NULL}
  BY <1>1, <1>2, TheOwners DEF AllFilesThere
<1>7. Present'
  <2> SUFFICES ASSUME NEW n \in Complete, NEW f \in ToSet(plist(n).files)
               PROVE  disk[f] = pkgdb[n].contents
    BY <1>1, <1>4 DEF Present
  <2>1. pkgdb[n].contents \in Pkg
    BY <1>1 DEF TypeOK, StateType, DatabaseType, Complete, Directory
  <2>2. f \in File
    BY <2>1, Plists, ToSetSeq DEF plist
  <2> QED
    BY <1>6, <2>2
<1>8. Accounted'
  <2> SUFFICES ASSUME NEW f \in File, disk[f] # NULL
               PROVE  \E n \in Complete : /\ pkgdb[n].contents = disk[f]
                                          /\ f \in ToSet(plist(n).files)
    BY <1>1, <1>4, <1>5 DEF Accounted
  <2>1. disk[f] \in {pkgdb[n].contents : n \in {m \in Complete : f \in ToSet(plist(m).files)}}
    BY <1>6
  <2> QED
    BY <2>1
<1>9. Indexed' /\ NukesOwn' /\ Untouched' /\ Begun'
  BY <1>1, <1>3, <1>4, <1>5 DEF Indexed, NukesOwn, Untouched, Begun
<1>10. Free' /\ OtherGone'
  BY <1>4 DEF Free, OtherGone
<1>11. AllComplete'
  BY <1>2, <1>4 DEF AllComplete
<1> QED
  BY <1>7, <1>8, <1>9, <1>10, <1>11 DEF FilesKnown

LEMMA StepFiles ==
  ASSUME StructInv, StructInv', ConflictInv, FilesInv, [Next]_vars
  PROVE  FilesInv'
<1> SUFFICES ASSUME FilesClean' PROVE FilesKnown'
  BY DEF FilesInv
<1>1. CASE Rebuild
  BY <1>1, RebuildFiles
<1>2. CASE ~Rebuild
  <2>1. FilesKnown /\ Clean
    BY <1>2, FilesCleanOnce DEF FilesInv
  <2>2. CASE AddStep
    BY <2>1, <2>2, AddStepFiles
  <2>3. CASE DeleteStep /\ UNCHANGED tasks
    BY <2>1, <2>3, DeleteStepFiles
  <2>4. CASE PkgAddCommand \/ Kill \/ UNCHANGED vars
    BY <2>1, <2>4, PkgAddCommandFiles, KillFiles, StutterFiles
  <2>5. CASE PkgDeleteCommand \/ PkgAdminCommand \/ RebuildTree \/ AddOrDeleteEnds
    BY <2>1, <2>5, OtherCommandFiles
  <2> QED
    BY <1>2, <2>2, <2>3, <2>4, <2>5 DEF Next, Step
<1> QED
  BY <1>1, <1>2

LEMMA InitFiles ==
  ASSUME InitAll
  PROVE  FilesInv
<1>1. Installed = {} /\ Complete = {} /\ ~Adding /\ Calls = {} /\ deletion.pc = "none"
  BY NoDeletionType DEF InitAll, Init, Installed, Complete, Adding, Calls
<1>2. \A f \in File : byfile[f] = NULL /\ disk[f] = NULL
  BY DEF InitAll, Init
<1>3. (Present /\ Accounted /\ Indexed)
  BY <1>1, <1>2 DEF Present, Accounted, Indexed
<1>4. Free /\ OtherGone /\ Untouched /\ NukesOwn /\ AllComplete /\ Begun
  BY <1>1 DEF Free, OtherGone, Untouched, NukesOwn, AllComplete, Begun
<1> QED
  BY <1>3, <1>4 DEF FilesInv, FilesKnown

(* When nothing has been overridden or interrupted since the last rebuild, *)
(* every file of an installed package is there and indexed under its name, *)
(* no two packages share one and nothing else is there: however packages   *)
(* are installed, updated and deleted, and whatever fails in between.      *)
THEOREM FilesAlwaysOwned == Spec => []FilesOwned
<1>1. InitAll => StructInv /\ ConflictInv /\ FilesInv
  BY InitStruct, InitConflict, InitFiles
<1>2. StructInv /\ ConflictInv /\ FilesInv /\ [Next]_vars
      => (StructInv /\ ConflictInv /\ FilesInv)'
  BY StepStruct, StepConflict, StepFiles
<1>3. ASSUME StructInv, FilesInv
      PROVE  FilesOwned
  <2> SUFFICES ASSUME Idle, FilesClean
               PROVE  \A f \in File : /\ owners(f, Complete) = {disk[f]} \ {NULL}
                                      /\ byfile[f] = disk[f]
    BY DEF FilesOwned, FilesClean
  <2>1. ~Adding /\ ~Deleting
    BY <1>3, NothingRuns DEF Idle
  <2> QED
    BY <1>3, <2>1, FilesWhenIdle DEF FilesInv, AllFilesThere
<1> QED
  BY <1>1, <1>2, <1>3, PTL DEF Spec

-----------------------------------------------------------------------------
(* No line of +REQUIRED_BY too many *)

(* As long as no line may be missing and no dependency.                    *)
LinesClean == {"lines", "tree"} \cap trouble = {}

(* Package p has a pattern that n matches.                                 *)
Requires(p, n) == \E q \in Range(Plist[p].depends) : n \in Matching[q]

(* pkg_add -U is replacing a package by itself.                            *)
Itself == Adding /\ task.install_logdir_real # NULL

(* The package whose +REQUIRED_BY a directory holds.                       *)
LinesOf(n) == IF Itself /\ n = task.install_logdir THEN task.pkg ELSE n

(* A package that meets one of its own patterns: while it is replaced by   *)
(* itself it is not there and its line is.                                 *)
OwnLine(m, n) ==
  Itself /\ n = task.install_logdir /\ m = task.pkg /\ Requires(task.pkg, task.pkg)

Rightful(m, n) ==
  \/ m \in Complete /\ Requires(pkgdb[m].contents, LinesOf(n))
  \/ OwnLine(m, n)

KnownLines == \A n \in Installed : \A m \in lines(n) : Rightful(m, n)

(* What pkg_delete has still to take out.                                  *)
DeletedLines ==
  deletion.pc = "remove" =>
    \A n \in Installed : this \in lines(n) =>
      (\E q \in Range(deletion.depends) : n \in Matching[q]) \/ OwnLine(this, n)

Unlined(p) == \A n \in Installed : p \notin lines(n)

(* A new package has no line before its turn to be registered, and the     *)
(* directory that pkg_add -U fills never has one.                          *)
Unregistered(t) ==
  /\ t.other_version = NULL /\ t.pc \notin {"check", "pkg_register_depends"} => Unlined(t.pkg)
  /\ t.install_logdir_real # NULL => Unlined(t.install_logdir)

(* Who requires the other version is content with the new one.             *)
Contented(t) ==
  /\ t.pc \in {"mkdir", "write_meta_data", "preserve_meta_data_file"}
  /\ t.other_version # NULL /\ t.install_logdir_real = NULL
  => \A m \in lines(t.other_version) : \A q \in Range(Plist[pkgdb[m].contents].depends) :
       t.other_version \in Matching[q] => t.pkg \in Matching[q]

(* What has been found for a pattern matches it.                           *)
Noted == \A t \in Calls : \A d \in Range(t.dependencies) : Requires(t.pkg, d)

Extracted ==
  Adding /\ task.pc \in {"extract_files", "mark_automatic", "pkg_register_depends"}
    /\ "lines" \notin trouble => task.pkg \in Complete

LinesKnown ==
  /\ KnownLines /\ DeletedLines
  /\ \A t \in Calls : Unregistered(t)
  /\ Adding => Contented(task)

(* The invariant: what the calls know, and which lines there are.          *)
LinesInv == Noted /\ Extracted /\ (LinesClean => LinesKnown)

LEMMA LinesCleanOnce ==
  ASSUME [Next]_vars, ~RebuildTree, LinesClean'
  PROVE  LinesClean
<1>1. CASE AddStep
  BY <1>1 DEF LinesClean, AddStep, CheckAlreadyInstalled, Check, CheckDependency,
     DependencyInstalled, DependenciesDone, Mkdir, WriteMetaData, PreserveMetaDataFile, DeleteOther,
     RenameDirectory, PreInstall, ExtractFile, PostInstall, MarkAutomatic, RegisterDepend,
     Registered, NukePkg, NukePkgdb
<1>2. CASE DeleteStep
  BY <1>2 DEF LinesClean, DeleteStep, Deinstall, DeleteFile, RemoveDepend, RemoveMetaData, Rmdir,
     EndDelete
<1>3. CASE Rebuild \/ AddOrDeleteEnds
  BY <1>3 DEF LinesClean, Rebuild, AddOrDeleteEnds
<1>4. CASE PkgAddCommand \/ PkgDeleteCommand \/ PkgAdminCommand
  BY <1>4 DEF LinesClean, PkgAddCommand, PkgDeleteCommand, PkgAdminCommand
<1>5. CASE Kill \/ UNCHANGED vars
  BY <1>5 DEF LinesClean, Kill, vars
<1> QED
  BY <1>1, <1>2, <1>3, <1>4, <1>5 DEF Next, Step

(* What a directory is to pkg_add stays if the innermost call does, or if  *)
(* no call before or after the step replaces a package by itself.          *)
Roles == \A m, n : LinesOf(n)' = LinesOf(n) /\ OwnLine(m, n)' = OwnLine(m, n)

LEMMA RolesKept ==
  ASSUME \/ tasks' = tasks
         \/ /\ Adding /\ Adding' /\ task'.pkg = task.pkg
            /\ task'.install_logdir = task.install_logdir
            /\ task'.install_logdir_real = task.install_logdir_real
         \/ ~Itself /\ ~Itself'
  PROVE  Roles
<1>1. CASE tasks' = tasks
  <2>1. task' = task /\ Adding' = Adding
    BY <1>1 DEF task, Adding
  <2> QED
    BY <2>1 DEF Roles, LinesOf, OwnLine, Itself, Requires
<1>2. CASE /\ Adding /\ Adding' /\ task'.pkg = task.pkg
           /\ task'.install_logdir = task.install_logdir
           /\ task'.install_logdir_real = task.install_logdir_real
  BY <1>2 DEF Roles, LinesOf, OwnLine, Itself, Requires
<1>3. CASE ~Itself /\ ~Itself'
  BY <1>3 DEF Roles, LinesOf, OwnLine
<1> QED
  BY <1>1, <1>2, <1>3

(* Steps that write no line.                                               *)
LEMMA LinesStay ==
  ASSUME KnownLines, Roles, Installed' \subseteq Installed,
         \A n \in Installed' : lines(n)' \subseteq lines(n),
         \A n \in Installed' : \A m \in lines(n)' : m \in Complete =>
           m \in Complete' /\ pkgdb'[m].contents = pkgdb[m].contents
  PROVE  KnownLines'
<1> SUFFICES ASSUME NEW n \in Installed', NEW m \in lines(n)'
             PROVE  Rightful(m, n)'
  BY DEF KnownLines
<1>1. n \in Installed /\ m \in lines(n) /\ Rightful(m, n)
  BY DEF KnownLines
<1>2. LinesOf(n)' = LinesOf(n) /\ OwnLine(m, n)' = OwnLine(m, n)
  BY DEF Roles
<1> QED
  BY <1>1, <1>2 DEF Rightful, Requires

(* Only what pkg_delete does ends in the middle of a removal.              *)
LEMMA NotRemoving ==
  ASSUME StructInv, AddStep
  PROVE  DeletedLines'
<1>1. deletion.pc = "none"
  BY AddStepFacts DEF Deleting
<1>2. deletion' = deletion \/ DeleteOther
  BY DEF AddStep, CheckAlreadyInstalled, Check, CheckDependency, DependencyInstalled,
     DependenciesDone, Mkdir, WriteMetaData, PreserveMetaDataFile, RenameDirectory,
     PreInstall, ExtractFile, PostInstall, MarkAutomatic, RegisterDepend, Registered, NukePkg,
     NukePkgdb
<1>3. CASE DeleteOther
  <2>1. TypeOK /\ task \in PkgTask /\ TaskOK(task)
    BY AddStepFacts
  <2>2. StartDelete({task.other_version}, {}) /\ At("preserve_meta_data_file")
    BY <1>3 DEF DeleteOther
  <2>3. {task.other_version} \in SUBSET Name /\ {} \in SUBSET Options
    BY <2>1, <2>2 DEF TaskOK, At, PkgTask
  <2> QED
    BY <2>1, <2>2, <2>3, StartDeleteEffect DEF DeletedLines
<1> QED
  BY <1>1, <1>2, <1>3 DEF DeletedLines

(* Where calls are replaced by themselves, or wait.                        *)
LEMMA NotItself ==
  ASSUME StructInv,
         Adding => task.pc \notin {"mkdir", "write_meta_data", "preserve_meta_data_file", "rename",
                                  "nuke_pkgdb"}
  PROVE  ~Itself
BY TheTask DEF StructInv, Itself, TaskOK

(* The steps of pkg_add that write no line and no +CONTENTS.               *)
QuietStep ==
  /\ AddStep
  /\ GivesUp \/ ~(Check \/ Mkdir \/ WriteMetaData \/ PreserveMetaDataFile \/ RenameDirectory
                  \/ RegisterDepend \/ NukePkgdb)

LEMMA SameLines ==
  ASSUME StructInv, QuietStep
  PROVE  Installed' = Installed /\ \A n \in Installed : /\ lines(n)' = lines(n)
                                                        /\ pkgdb'[n].contents = pkgdb[n].contents
<1>1. Installed' = Installed /\ \A n \in Installed : pkgdb'[n].contents = pkgdb[n].contents
  BY SameContents DEF QuietStep
<1>2. DatabaseType
  BY DEF StructInv, TypeOK, StateType
<1>3. \/ pkgdb' = pkgdb
      \/ \E n, b : pkgdb' = [pkgdb EXCEPT ![n].automatic = b]
  BY DEF QuietStep, AddStep, CheckAlreadyInstalled, CheckDependency,
     DependencyInstalled, DependenciesDone, DeleteOther,
     PreInstall, ExtractFile, PostInstall, MarkAutomatic,
     Registered, NukePkg, database, GivesUp
<1>4. ASSUME NEW n \in Installed
      PROVE  pkgdb'[n].required_by = pkgdb[n].required_by
  <2>1. CASE pkgdb' = pkgdb
    BY <2>1
  <2>2. ASSUME NEW k, NEW b, pkgdb' = [pkgdb EXCEPT ![k].automatic = b]
        PROVE  pkgdb'[n].required_by = pkgdb[n].required_by
    BY <1>2, <2>2 DEF DatabaseType, Directory
  <2> QED
    BY <1>3, <2>1, <2>2
<1> QED
  BY <1>1, <1>4 DEF lines

LEMMA QuietLines ==
  ASSUME StructInv, QuietStep, LinesKnown
  PROVE  LinesKnown'
<1>1. Installed' = Installed /\ \A n \in Installed : /\ lines(n)' = lines(n)
                                                     /\ pkgdb'[n].contents = pkgdb[n].contents
  BY SameLines
<1>2. Adding /\ TypeOK /\ Stack /\ task \in PkgTask /\ TaskOK(task) /\ DirOK(task)
  BY AddStepFacts DEF QuietStep, StructInv, Running
<1>3. Roles => KnownLines'
  BY <1>1, LinesStay DEF LinesKnown, Complete
<1>4. DeletedLines'
  BY NotRemoving DEF QuietStep
<1>5. \A p : Unlined(p)' = Unlined(p)
  BY <1>1 DEF Unlined
<1>6. \A t \in Waiting : /\ Unregistered(t)' /\ t \in PkgTask /\ TaskOK(t) /\ t.pc = "installed"
                         /\ t.install_logdir_real = NULL
  BY <1>2, <1>5, CallsOK, TheCalls, TheTask DEF LinesKnown, Unregistered, TaskOK
<1>7. CASE /\ tasks' = Tail(tasks)
           /\ task.pc \in {"check", "depends", "installed", "pkg_register_depends"}
  <2>1. Calls' = Waiting /\ (Adding' => task' \in Waiting)
    BY <1>2, <1>7, CallsPop, Pop
  <2>2. ~Itself /\ ~Itself'
    BY <1>6, <1>7, <2>1, NotItself DEF Itself
  <2>3. Adding' => Contented(task)'
    BY <1>6, <2>1 DEF Contented
  <2> QED
    BY <1>3, <1>4, <1>6, <2>1, <2>2, <2>3, RolesKept DEF LinesKnown
<1>8. ASSUME NEW t \in PkgTask, tasks' = <<t>> \o Tail(tasks), Like(t),
             t.other_version = NULL /\ t.pc \notin {"check", "pkg_register_depends"} =>
               task.pc \notin {"check", "pkg_register_depends"},
             \/ t.pc \notin {"mkdir", "write_meta_data", "preserve_meta_data_file"}
             \/ t.other_version = NULL
             \/ task.pc = "preserve_meta_data_file"
      PROVE  LinesKnown'
  <2>1. Calls' = {t} \cup Waiting /\ task' = t /\ Adding' /\ task \in Calls
    BY <1>2, <1>8, CallsPut
  <2>2. Roles
    BY <1>2, <1>8, <2>1, RolesKept DEF Like
  <2>3. Unregistered(t)'
    BY <1>5, <1>8, <2>1 DEF LinesKnown, Unregistered, Like
  <2>4. Contented(t)'
    <3> SUFFICES ASSUME t.pc \in {"mkdir", "write_meta_data", "preserve_meta_data_file"},
                        t.other_version # NULL, t.install_logdir_real = NULL
                 PROVE  \A m \in lines(t.other_version)' :
                          \A q \in Range(Plist[pkgdb'[m].contents].depends) :
                            t.other_version \in Matching[q] => t.pkg \in Matching[q]
      BY DEF Contented
    <3>1. task.other_version \in Installed /\ Contented(task) /\ t.other_version = task.other_version
          /\ t.pkg = task.pkg /\ task.install_logdir_real = NULL
      BY <1>2, <1>8 DEF DirOK, LinesKnown, Like
    <3>2. \A m \in lines(task.other_version) : m \in Installed
      BY <1>2, <1>8, <3>1 DEF LinesKnown, KnownLines, Rightful, OwnLine, Itself, Complete, Like
    <3> QED
      BY <1>1, <1>8, <3>1, <3>2 DEF Contented
  <2> QED
    BY <1>3, <1>4, <1>6, <2>1, <2>2, <2>3, <2>4 DEF LinesKnown
<1>9. CASE Continues({"depends", "installed"}, {"depends", "installed"})
  BY <1>8, <1>9 DEF Continues
<1>10. CASE Continues({"depends"}, {"mkdir"}) /\ task.other_version = NULL
  BY <1>8, <1>10 DEF Continues, Like
<1>11. CASE Continues({"depends"}, {"pre_install"})
  BY <1>8, <1>11 DEF Continues
<1>12. CASE Continues({"depends", "installed"}, {"nuke_pkgdb"})
  BY <1>8, <1>12 DEF Continues
<1>13. CASE Continues({"preserve_meta_data_file"}, {"preserve_meta_data_file", "rename"})
  BY <1>8, <1>13 DEF Continues
<1>14. CASE Continues({"pre_install", "extract_files", "mark_automatic", "pkg_register_depends",
                       "nuke_pkg"},
                      {"extract_files", "mark_automatic", "pkg_register_depends",
                       "nuke_pkg", "nuke_pkgdb"})
  <2>1. task.pc = "pkg_register_depends" => tasks' = Tail(tasks)
    BY DEF QuietStep, AddStep, CheckAlreadyInstalled, CheckDependency,
       DependencyInstalled, DependenciesDone, DeleteOther,
       PreInstall, ExtractFile, PostInstall, MarkAutomatic,
       Registered, Return, NukePkg, At, GivesUp
  <2> QED
    BY <1>7, <1>8, <1>14, <2>1 DEF Continues
<1>16. CASE Continues({"mkdir", "write_meta_data", "preserve_meta_data_file"}, {"nuke_pkgdb"})
  BY <1>8, <1>16 DEF Continues
<1>15. CASE /\ task.pc = "depends"
            /\ \E p \in wanted(scenario, task.pkg), t \in PkgTask :
                 /\ tasks' = <<Task(p, TRUE), t>> \o Tail(tasks)
                 /\ t.pc = "installed" /\ Like(t)
  <2>1. PICK p \in wanted(scenario, task.pkg), t \in PkgTask :
                 /\ tasks' = <<Task(p, TRUE), t>> \o Tail(tasks)
                 /\ t.pc = "installed" /\ Like(t)
    BY <1>15
  <2>2. p \in scenario.packages
    BY BestMatching DEF wanted
  <2>3. PICK u \in PkgTask : u = Task(p, TRUE) /\ u.pc = "check" /\ u.install_logdir_real = NULL
    BY <1>2, <2>2, NewTask DEF Task
  <2>4. Calls' = {u, t} \cup Waiting /\ task' = u /\ Adding' /\ task \in Calls
    BY <1>2, <2>1, <2>3, CallsPush
  <2>5. ~Itself /\ ~Itself'
    BY <1>15, <2>3, <2>4, NotItself DEF Itself
  <2>6. Unregistered(t)' /\ Unregistered(u)' /\ Contented(u)'
    BY <1>2, <1>5, <1>15, <2>1, <2>3, <2>4 DEF LinesKnown, Unregistered, Contented, Like, TaskOK
  <2> QED
    BY <1>3, <1>4, <1>6, <2>4, <2>5, <2>6, RolesKept DEF LinesKnown
<1> QED
  BY <1>7, <1>9, <1>10, <1>11, <1>12, <1>13, <1>14, <1>15, <1>16, WhereItGoes
     DEF QuietStep

(* What a package is called in the lines.                                  *)
LEMMA NamedSo ==
  ASSUME StructInv, ContentsOK, NEW p \in Pkg, p \in Complete
  PROVE  pkgdb[p].contents = p
<1>1. pkgdb[p].contents \in Pkg
  BY DEF Complete, StructInv, TypeOK, StateType, DatabaseType, Directory
<1> QED
  BY <1>1, PkgAssumption DEF ContentsOK

LEMMA RegisterDependLines ==
  ASSUME StructInv, ContentsOK, LinesKnown, Noted, Extracted, RegisterDepend, LinesClean'
  PROVE  LinesKnown'
<1>1. /\ Adding /\ TypeOK /\ Stack /\ task \in PkgTask /\ TaskOK(task)
      /\ task.pc = "pkg_register_depends" /\ task.dependencies # << >>
      /\ task.dependencies \in Seq(Name) /\ task.pkg \in Pkg /\ task \in Calls
  BY AddStepFacts, TheCalls DEF AddStep, RegisterDepend, At, PkgTask
<1>2. PICK n : n = Head(task.dependencies)
  OBVIOUS
<1>3. Requires(task.pkg, n)
  <2>1. n \in Range(task.dependencies)
    BY <1>1, <1>2 DEF Range
  <2> QED
    BY <1>1, <2>1 DEF Noted
<1>4. task.pkg \in Complete /\ pkgdb[task.pkg].contents = task.pkg
  BY <1>1, NamedSo DEF Extracted, RegisterDepend, LinesClean
<1>5. /\ Installed' = Installed
      /\ \A k \in Installed : /\ pkgdb'[k].contents = pkgdb[k].contents
                              /\ lines(k)' = lines(k) \/ (k = n /\ lines(k)' = lines(k) \cup {task.pkg})
  <2>1. DatabaseType
    BY DEF StructInv, TypeOK, StateType
  <2>2. CASE pkgdb' = pkgdb
    BY <2>2 DEF Installed, lines
  <2>3. CASE n \in Installed /\ pkgdb' = [pkgdb EXCEPT ![n].required_by = @ \cup {task.pkg}]
    BY <2>1, <2>3 DEF DatabaseType, Directory, Installed, lines
  <2> QED
    BY <1>2, <2>2, <2>3 DEF RegisterDepend
<1>6. PICK t \in PkgTask : tasks' = <<t>> \o Tail(tasks) /\ Like(t) /\ t.pc = "pkg_register_depends"
  BY RegisterGoesOn
<1>7. Calls' = {t} \cup Waiting /\ task' = t /\ Adding'
  BY <1>1, <1>6, CallsPut
<1>8. ~Itself /\ ~Itself' /\ task.install_logdir_real = NULL
  BY <1>1, <1>6, <1>7, NotItself DEF Itself, Like, TaskOK
<1>9. ASSUME NEW k \in Installed', NEW m \in lines(k)'
      PROVE  Rightful(m, k)'
  <2>1. CASE m \in lines(k)
    <3>1. Rightful(m, k) /\ k \in Installed
      BY <1>5, <1>9, <2>1 DEF LinesKnown, KnownLines
    <3> QED
      BY <1>5, <1>8, <3>1 DEF Rightful, Complete, LinesOf, OwnLine, Requires
  <2>2. CASE k = n /\ m = task.pkg
    BY <1>3, <1>4, <1>5, <1>8, <2>2 DEF Rightful, Complete, LinesOf, Requires
  <2> QED
    BY <1>5, <1>9, <2>1, <2>2
<1>10. KnownLines'
  BY <1>9 DEF KnownLines
<1>11. Unregistered(t)' /\ Contented(t)'
  BY <1>6, <1>8 DEF Unregistered, Contented, Like
<1>12. ASSUME NEW u \in Waiting
       PROVE  Unregistered(u)'
  <2>1. u.pkg # task.pkg
    BY <1>1, Brought
  <2>2. Unregistered(u) /\ u.pc = "installed" /\ u.install_logdir_real = NULL
    BY <1>1, CallsOK, TheTask DEF LinesKnown, TaskOK
  <2>3. Unlined(u.pkg) => Unlined(u.pkg)'
    BY <1>5, <2>1 DEF Unlined
  <2> QED
    BY <2>2, <2>3 DEF Unregistered
<1> QED
  BY <1>7, <1>10, <1>11, <1>12, NotRemoving DEF LinesKnown, AddStep

LEMMA NukePkgdbLines ==
  ASSUME StructInv, LinesKnown, NukePkgdb, LinesClean'
  PROVE  LinesKnown'
<1>1. /\ Adding /\ TypeOK /\ Stack /\ task \in PkgTask /\ TaskOK(task)
      /\ task \in Calls /\ task.other_version = NULL
      /\ tasks' = Tail(tasks) /\ Installed' = Installed \ {task.pkg}
      /\ \A n \in Installed \ {task.pkg} : pkgdb'[n] = pkgdb[n]
  BY NukePkgdbEffect, TheCalls DEF StructInv, LinesClean
<1>2. /\ task.pc \in {"nuke_pkg", "nuke_pkgdb"}
      /\ task.install_logdir_real = NULL
  BY <1>1, NukePkgdbEffect, PkgAssumption DEF TaskOK, PkgTask, Name
<1>3. Unlined(task.pkg)
  BY <1>1, <1>2 DEF LinesKnown, Unregistered
<1>4. Calls' = Waiting /\ (Adding' => task' \in Waiting)
  BY <1>1, CallsPop, Pop
<1>5. \A t \in Waiting : /\ t \in Calls /\ t.pc = "installed" /\ t.install_logdir_real = NULL
  BY <1>1, CallsOK, TheTask DEF TaskOK
<1>6. ~Itself /\ ~Itself'
  BY <1>2, <1>4, <1>5 DEF Itself
<1>7. \A n \in Installed' : lines(n)' = lines(n) /\ n \in Installed
  BY <1>1 DEF lines
<1>8. KnownLines'
  <2>1. \A n \in Installed' : \A m \in lines(n)' : m \in Complete =>
           m \in Complete' /\ pkgdb'[m].contents = pkgdb[m].contents
    BY <1>1, <1>3, <1>7 DEF Unlined, Complete
  <2> QED
    BY <1>6, <1>7, <2>1, RolesKept, LinesStay DEF LinesKnown
<1>9. \A p : Unlined(p) => Unlined(p)'
  BY <1>7 DEF Unlined
<1>10. \A t \in Waiting : Unregistered(t)'
  BY <1>5, <1>9 DEF LinesKnown, Unregistered
<1>11. Adding' => Contented(task)'
  BY <1>4, <1>5 DEF Contented
<1> QED
  BY <1>4, <1>8, <1>10, <1>11, NotRemoving DEF LinesKnown, AddStep

(* The new directory, in which there is nothing yet.                       *)
LEMMA MkdirLines ==
  ASSUME StructInv, LinesKnown, Mkdir, ~GivesUp
  PROVE  LinesKnown'
<1>1. /\ Adding /\ TypeOK /\ Stack /\ task \in PkgTask /\ TaskOK(task) /\ DirOK(task)
      /\ task.pc = "mkdir" /\ task \in Calls
  BY AddStepFacts, TheCalls DEF AddStep, Mkdir, At, StructInv, Running
<1>2. PICK d : d = task.install_logdir
  OBVIOUS
<1>3. /\ Installed' = Installed \cup {d} /\ \A n \in Installed : pkgdb'[n] = pkgdb[n]
      /\ d \notin Installed => pkgdb'[d] = EmptyDirectory
  BY <1>2, MkdirEffect DEF Installed
<1>4. \A n \in Installed' : (n \in Installed /\ lines(n)' = lines(n)) \/ lines(n)' = {}
  BY <1>3 DEF lines, EmptyDirectory
<1>5. PICK t \in PkgTask : tasks' = <<t>> \o Tail(tasks) /\ Like(t) /\ t.pc = "write_meta_data"
  BY <1>1, MkdirEffect, GoesOn DEF Place
<1>6. Calls' = {t} \cup Waiting /\ task' = t /\ Adding'
  BY <1>1, <1>5, CallsPut
<1>7. Roles
  BY <1>1, <1>5, <1>6, RolesKept DEF Like
<1>8. \A p : Unlined(p) => Unlined(p)'
  BY <1>4 DEF Unlined
<1>9. \A m \in Complete : m \in Complete' /\ pkgdb'[m].contents = pkgdb[m].contents
  BY <1>3 DEF Complete
<1>10. KnownLines'
  <2> SUFFICES ASSUME NEW n \in Installed', NEW m \in lines(n)'
               PROVE  Rightful(m, n)'
    BY DEF KnownLines
  <2>1. n \in Installed /\ m \in lines(n) /\ Rightful(m, n)
    BY <1>4 DEF LinesKnown, KnownLines
  <2>2. LinesOf(n)' = LinesOf(n) /\ OwnLine(m, n)' = OwnLine(m, n)
    BY <1>7 DEF Roles
  <2> QED
    BY <1>9, <2>1, <2>2 DEF Rightful, Requires
<1>11. \A u \in Waiting : Unregistered(u)'
  BY <1>1, <1>8, TheCalls DEF LinesKnown, Unregistered
<1>12. Unregistered(t)'
  BY <1>1, <1>5, <1>8 DEF LinesKnown, Unregistered, Like
<1>13. Contented(t)'
  <2> SUFFICES ASSUME t.other_version # NULL, t.install_logdir_real = NULL
               PROVE  \A m \in lines(t.other_version)' :
                        \A q \in Range(Plist[pkgdb'[m].contents].depends) :
                          t.other_version \in Matching[q] => t.pkg \in Matching[q]
    BY DEF Contented
  <2>1. task.other_version \in Installed /\ Contented(task) /\ t.other_version = task.other_version
        /\ t.pkg = task.pkg /\ task.install_logdir_real = NULL
    BY <1>1, <1>5 DEF DirOK, LinesKnown, Like
  <2>2. \A m \in lines(t.other_version) : m \in Complete
    BY <2>1 DEF LinesKnown, KnownLines, Rightful, OwnLine, Itself
  <2>3. lines(t.other_version)' = lines(t.other_version)
    BY <1>3, <2>1 DEF lines
  <2> QED
    BY <1>1, <1>9, <2>1, <2>2, <2>3 DEF Contented
<1> QED
  BY <1>6, <1>10, <1>11, <1>12, <1>13, NotRemoving DEF LinesKnown, AddStep

LEMMA WriteMetaDataLines ==
  ASSUME StructInv, ContentsOK, LinesKnown, WriteMetaData, ~GivesUp
  PROVE  LinesKnown'
<1>1. /\ Adding /\ TypeOK /\ Stack /\ task \in PkgTask /\ TaskOK(task) /\ DirOK(task)
      /\ task.pc = "write_meta_data" /\ task \in Calls /\ task.pkg \in Pkg
  BY AddStepFacts, TheCalls DEF AddStep, WriteMetaData, At, StructInv, Running, PkgTask
<1>2. PICK d : d = task.install_logdir
  OBVIOUS
<1>3. /\ Installed' = Installed /\ d \in Installed /\ Complete' = Complete \cup {d}
      /\ pkgdb'[d].contents = task.pkg
      /\ \A n \in Installed \ {d} : pkgdb'[n] = pkgdb[n]
  BY <1>2, WriteMetaDataEffect
<1>4. PICK t \in PkgTask : /\ tasks' = <<t>> \o Tail(tasks) /\ Like(t)
                           /\ t.pc = IF task.other_version = NULL THEN "pre_install"
                                     ELSE "preserve_meta_data_file"
  BY WriteMetaDataEffect
<1>5. lines(d)' = lines(d)
  BY <1>1, <1>2, <1>3 DEF WriteMetaData, GivesUp, StructInv, TypeOK, StateType, DatabaseType, Directory, lines
<1>6. \A n \in Installed : lines(n)' = lines(n)
  BY <1>3, <1>5 DEF lines
<1>7. Calls' = {t} \cup Waiting /\ task' = t /\ Adding'
  BY <1>1, <1>4, CallsPut
<1>8. Roles
  BY <1>1, <1>4, <1>7, RolesKept DEF Like
<1>9. ASSUME NEW n \in Installed, NEW m \in lines(n), m \in Complete
      PROVE  m \in Complete' /\ pkgdb'[m].contents = pkgdb[m].contents
  <2>1. CASE m # d
    BY <1>3, <1>9, <2>1 DEF Complete
  <2>2. CASE m = d
    <3>1. task.install_logdir_real = NULL
      BY <1>1, <1>2, <1>9, <2>2 DEF LinesKnown, Unregistered, Unlined
    <3>2. d = task.pkg
      BY <1>1, <1>2, <3>1 DEF TaskOK
    <3> QED
      BY <1>1, <1>3, <1>9, <2>2, <3>2, NamedSo
  <2> QED
    BY <2>1, <2>2
<1>10. KnownLines'
  BY <1>3, <1>6, <1>8, <1>9, LinesStay DEF LinesKnown
<1>11. \A p : Unlined(p)' = Unlined(p)
  BY <1>3, <1>6 DEF Unlined
<1>12. \A u \in Waiting : Unregistered(u)'
  BY <1>1, <1>11, TheCalls DEF LinesKnown, Unregistered
<1>13. Unregistered(t)'
  BY <1>1, <1>4, <1>11 DEF LinesKnown, Unregistered, Like
<1>14. Contented(t)'
  <2> SUFFICES ASSUME t.other_version # NULL, t.install_logdir_real = NULL
               PROVE  \A m \in lines(t.other_version)' :
                        \A q \in Range(Plist[pkgdb'[m].contents].depends) :
                          t.other_version \in Matching[q] => t.pkg \in Matching[q]
    BY DEF Contented
  <2>1. t.other_version \in Installed /\ Contented(task) /\ t.other_version = task.other_version
        /\ t.pkg = task.pkg /\ task.install_logdir_real = NULL
    BY <1>1, <1>4 DEF DirOK, LinesKnown, Like
  <2>2. \A m \in lines(t.other_version) : m \in Complete
    BY <2>1 DEF LinesKnown, KnownLines, Rightful, OwnLine, Itself
  <2>3. lines(t.other_version)' = lines(t.other_version)
    BY <1>6, <2>1
  <2> QED
    BY <1>1, <1>9, <2>1, <2>2, <2>3 DEF Contented
<1> QED
  BY <1>7, <1>10, <1>12, <1>13, <1>14, NotRemoving DEF LinesKnown, AddStep

(* What rename(2) of +REQUIRED_BY does.                                    *)
LEMMA PreserveMoves ==
  ASSUME StructInv, PreserveMetaDataFile, ~GivesUp, NEW old, NEW new, old = task.other_version,
         new = task.install_logdir
  PROVE  /\ \A n \in Installed \ {old, new} : lines(n)' = lines(n)
         /\ \/ lines(old)' = lines(old) /\ lines(new)' = lines(new)
            \/ new # old /\ lines(old)' = {} /\ lines(new)' = lines(old)
<1>1. /\ old \in Installed /\ new \in Installed /\ task \in PkgTask /\ task.preserve # << >>
      /\ \A n \in Installed \ {old, new} : pkgdb'[n] = pkgdb[n]
  BY PreserveEffect
<1>2. PICK file : file = Head(task.preserve)
  OBVIOUS
<1>3. pkgdb' = IF new = old \/ pkgdb[old][file] = EmptyDirectory[file] THEN pkgdb
               ELSE [pkgdb EXCEPT ![new][file] = pkgdb[old][file],
                                  ![old][file] = EmptyDirectory[file]]
  BY <1>2, PreserveEffect DEF PreserveMetaDataFile, GivesUp
<1>4. pkgdb \in [Installed -> Directory] /\ EmptyDirectory.required_by = {}
  BY DEF StructInv, TypeOK, StateType, DatabaseType, EmptyDirectory
<1>5. CASE pkgdb' = pkgdb
  BY <1>5 DEF lines
<1>6. CASE pkgdb' # pkgdb
  <2>1. /\ new # old
        /\ pkgdb'[new] = [pkgdb[new] EXCEPT ![file] = pkgdb[old][file]]
        /\ pkgdb'[old] = [pkgdb[old] EXCEPT ![file] = EmptyDirectory[file]]
    BY <1>1, <1>3, <1>4, <1>6
  <2>2. pkgdb[new] \in Directory /\ pkgdb[old] \in Directory
    BY <1>1, <1>4
  <2>3. CASE file = "required_by"
    <3>1. lines(old)' = {} /\ lines(new)' = lines(old)
      BY <1>4, <2>1, <2>2, <2>3 DEF Directory, lines
    <3> QED
      BY <1>1, <2>1, <3>1 DEF lines
  <2>4. CASE file # "required_by"
    <3>1. lines(old)' = lines(old) /\ lines(new)' = lines(new)
      BY <2>1, <2>2, <2>4 DEF Directory, lines
    <3> QED
      BY <1>1, <3>1 DEF lines
  <2> QED
    BY <2>3, <2>4
<1> QED
  BY <1>5, <1>6

LEMMA PreserveLines ==
  ASSUME StructInv, ContentsOK, LinesKnown, PreserveMetaDataFile, ~GivesUp
  PROVE  LinesKnown'
<1>1. /\ Adding /\ TypeOK /\ Stack /\ task \in PkgTask /\ TaskOK(task)
      /\ task.pc = "preserve_meta_data_file" /\ task \in Calls /\ task.pkg \in Pkg
      /\ task.other_version # NULL /\ ~Deleting
  BY AddStepFacts, TheCalls, PreserveEffect DEF AddStep, PkgTask, TaskOK
<1>2. PICK old : old = task.other_version
  OBVIOUS
<1>3. PICK new : new = task.install_logdir
  OBVIOUS
<1>4. /\ old \in Installed /\ new \in Installed /\ Installed' = Installed
      /\ \A n \in Installed : pkgdb'[n].contents = pkgdb[n].contents
      /\ pkgdb[new].contents = task.pkg
  BY <1>2, <1>3, PreserveEffect
<1>5. /\ \A n \in Installed \ {old, new} : lines(n)' = lines(n)
      /\ \/ lines(old)' = lines(old) /\ lines(new)' = lines(new)
         \/ new # old /\ lines(old)' = {} /\ lines(new)' = lines(old)
  BY <1>2, <1>3, PreserveMoves
<1>6. PICK t \in PkgTask : tasks' = <<t>> \o Tail(tasks) /\ Like(t) /\ t.pc = task.pc
  <2>1. PICK t : t = [task EXCEPT !.preserve = Tail(@)]
    OBVIOUS
  <2>2. Tail(task.preserve) \in Seq({"required_by", "preserve", "automatic"})
    BY <1>1, PreserveEffect DEF PkgTask
  <2>3. t \in PkgTask /\ t.pc = task.pc /\ Like(t)
    BY <1>1, <2>1, <2>2 DEF PkgTask, Like
  <2> QED
    BY <1>1, <2>1, <2>3 DEF PreserveMetaDataFile, GivesUp
<1>7. Calls' = {t} \cup Waiting /\ task' = t /\ Adding'
  BY <1>1, <1>6, CallsPut
<1>8. \A m, n : LinesOf(n)' = LinesOf(n) /\ OwnLine(m, n)' = OwnLine(m, n)
  BY <1>1, <1>6, <1>7, RolesKept DEF Like, Roles
<1>9. \A m \in Complete : m \in Complete' /\ pkgdb'[m].contents = pkgdb[m].contents
  BY <1>4 DEF Complete
<1>10. ASSUME NEW n \in Installed, NEW m \in lines(old), new # old
       PROVE  Rightful(m, new)'
  <2>1. Rightful(m, old)
    BY <1>4, <1>10 DEF LinesKnown, KnownLines
  <2>2. m \in Complete /\ Requires(pkgdb[m].contents, old)
    BY <1>3, <1>10, <2>1 DEF Rightful, OwnLine, LinesOf
  <2>3. Requires(pkgdb[m].contents, LinesOf(new))
    <3>1. CASE task.install_logdir_real = NULL
      <4>1. new = task.pkg /\ LinesOf(new) = task.pkg
        BY <1>1, <1>3, <3>1 DEF TaskOK, LinesOf, Itself
      <4>2. Contented(task)
        BY <1>1 DEF LinesKnown
      <4> QED
        BY <1>1, <1>2, <1>10, <2>2, <3>1, <4>1, <4>2 DEF Contented, Requires
    <3>2. CASE task.install_logdir_real # NULL
      <4>1. LinesOf(new) = task.pkg /\ old = task.pkg
        BY <1>1, <1>2, <1>3, <3>2 DEF TaskOK, LinesOf, Itself
      <4> QED
        BY <2>2, <4>1
    <3> QED
      BY <3>1, <3>2
  <2> QED
    BY <1>8, <1>9, <2>2, <2>3 DEF Rightful, Requires
<1>11. KnownLines'
  <2> SUFFICES ASSUME NEW n \in Installed', NEW m \in lines(n)'
               PROVE  Rightful(m, n)'
    BY DEF KnownLines
  <2>1. CASE n = new /\ new # old /\ m \in lines(old)
    BY <1>4, <1>10, <2>1
  <2>2. CASE m \in lines(n)
    <3>1. Rightful(m, n)
      BY <1>4, <2>2 DEF LinesKnown, KnownLines
    <3> QED
      BY <1>8, <1>9, <3>1 DEF Rightful, Requires
  <2> QED
    BY <1>4, <1>5, <2>1, <2>2
<1>12. \A p : Unlined(p) => Unlined(p)'
  BY <1>4, <1>5 DEF Unlined
<1>13. \A u \in Waiting : Unregistered(u)'
  BY <1>1, <1>12, TheCalls DEF LinesKnown, Unregistered
<1>14. Unregistered(t)'
  BY <1>1, <1>6, <1>12 DEF LinesKnown, Unregistered, Like
<1>15. Contented(t)'
  <2> SUFFICES ASSUME t.install_logdir_real = NULL
               PROVE  \A m \in lines(t.other_version)' :
                        \A q \in Range(Plist[pkgdb'[m].contents].depends) :
                          t.other_version \in Matching[q] => t.pkg \in Matching[q]
    BY DEF Contented
  <2>1. Contented(task) /\ t.other_version = old
        /\ t.pkg = task.pkg /\ task.install_logdir_real = NULL
    BY <1>1, <1>2, <1>6 DEF LinesKnown, Like
  <2>2. \A m \in lines(old) : m \in Complete
    BY <1>4, <2>1 DEF LinesKnown, KnownLines, Rightful, OwnLine, Itself
  <2>3. lines(old)' \subseteq lines(old)
    BY <1>5
  <2> QED
    BY <1>1, <1>2, <1>9, <2>1, <2>2, <2>3 DEF Contented
<1> QED
  BY <1>7, <1>11, <1>13, <1>14, <1>15, NotRemoving DEF LinesKnown, AddStep

LEMMA RenameLines ==
  ASSUME StructInv, LinesKnown, RenameDirectory, LinesClean'
  PROVE  LinesKnown'
<1>1. /\ Adding /\ TypeOK /\ Stack /\ task \in PkgTask /\ TaskOK(task)
      /\ task.pc = "rename" /\ task \in Calls /\ task.pkg \in Pkg
      /\ task.other_version # NULL
  BY AddStepFacts, TheCalls, RenameEffect DEF AddStep, PkgTask
<1>2. PICK d : d = task.install_logdir
  OBVIOUS
<1>3. PICK p \in Pkg : p = task.pkg
  BY <1>1
<1>4. PICK t \in PkgTask : /\ tasks' = <<t>> \o Tail(tasks) /\ t.pc = "depends" /\ t.pkg = p
                           /\ t.other_version = task.other_version /\ t.install_logdir_real = NULL
  BY <1>3, RenamedTask
<1>5. Calls' = {t} \cup Waiting /\ task' = t /\ Adding'
  BY <1>1, <1>4, CallsPut
<1>6. Unregistered(t)' /\ Contented(t)' /\ ~Itself'
  BY <1>1, <1>4, <1>5 DEF Unregistered, Contented, Itself
<1>7. ASSUME KnownLines', \A u : Unlined(u) /\ u # p => Unlined(u)'
      PROVE  LinesKnown'
  <2>1. \A u \in Waiting : Unregistered(u)'
    <3> SUFFICES ASSUME NEW u \in Waiting
                 PROVE  Unregistered(u)'
      OBVIOUS
    <3>1. u.pkg # p /\ u.pc = "installed" /\ u.install_logdir_real = NULL /\ Unregistered(u)
      BY <1>1, <1>3, Brought, CallsOK, TheTask DEF LinesKnown, TaskOK
    <3> QED
      BY <1>7, <3>1 DEF Unregistered
  <2> QED
    BY <1>5, <1>6, <1>7, <2>1, NotRemoving DEF LinesKnown, AddStep
<1>8. CASE task.install_logdir_real = NULL
  <2>1. pkgdb' = pkgdb /\ Installed' = Installed
    BY <1>8 DEF RenameDirectory, Installed
  <2>2. KnownLines'
    <3>1. Roles
      BY <1>6, <1>8, RolesKept DEF Itself
    <3> QED
      BY <2>1, <3>1, LinesStay DEF LinesKnown, lines, Complete
  <2> QED
    BY <1>7, <2>1, <2>2 DEF Unlined, lines
<1>9. CASE task.install_logdir_real # NULL /\ task.install_logdir_real \in Installed
  <2>1. p \in Installed /\ task.other_version = p /\ d # p
    BY <1>1, <1>2, <1>3, <1>9, NewDirectory DEF TaskOK
  <2>2. "lines" \in trouble'
    BY <1>2, <2>1 DEF RenameDirectory
  <2> QED
    BY <2>2 DEF LinesClean
<1>10. CASE task.install_logdir_real # NULL /\ task.install_logdir_real \notin Installed
  <2>1. /\ p \notin Installed /\ d \in Installed /\ d # p /\ pkgdb[d].contents = p
        /\ Installed' = (Installed \ {d}) \cup {p} /\ pkgdb'[p] = pkgdb[d]
        /\ \A n \in Installed \ {d} : pkgdb'[n] = pkgdb[n]
    BY <1>1, <1>2, <1>3, <1>10, RenameEffect
  <2>2. Unlined(d) /\ Itself
    BY <1>1, <1>2, <1>10 DEF LinesKnown, Unregistered, Itself
  <2>3. lines(p)' = lines(d) /\ \A n \in Installed \ {d} : lines(n)' = lines(n)
    BY <2>1 DEF lines
  <2>4. \A m \in Complete \ {d} : m \in Complete' /\ pkgdb'[m].contents = pkgdb[m].contents
    BY <2>1 DEF Complete
  <2>5. p \in Complete' /\ pkgdb'[p].contents = p
    BY <2>1, PkgAssumption DEF Complete, Name
  <2>6. \A n : LinesOf(n)' = n
    BY <1>6 DEF LinesOf
  <2>7. ASSUME NEW m \in lines(p)'
        PROVE  Rightful(m, p)'
    <3>1. m \in lines(d) /\ Rightful(m, d) /\ m # d
      BY <2>1, <2>2, <2>3 DEF LinesKnown, KnownLines, Unlined
    <3>2. CASE m \in Complete /\ Requires(pkgdb[m].contents, LinesOf(d))
      <4>1. LinesOf(d) = p
        BY <1>2, <1>3, <2>2 DEF LinesOf
      <4> QED
        BY <2>4, <2>6, <3>1, <3>2, <4>1 DEF Rightful, Requires
    <3>3. CASE OwnLine(m, d)
      BY <1>3, <2>5, <2>6, <3>3 DEF Rightful, OwnLine, Requires
    <3> QED
      BY <3>1, <3>2, <3>3 DEF Rightful
  <2>8. ASSUME NEW n \in Installed \ {d}, NEW m \in lines(n)'
        PROVE  Rightful(m, n)'
    <3>1. m \in lines(n) /\ Rightful(m, n) /\ m # d
      BY <2>2, <2>3, <2>8 DEF LinesKnown, KnownLines, Unlined
    <3>2. m \in Complete /\ Requires(pkgdb[m].contents, n)
      BY <1>2, <2>8, <3>1 DEF Rightful, OwnLine, LinesOf
    <3> QED
      BY <2>4, <2>6, <3>1, <3>2 DEF Rightful, Requires
  <2>9. KnownLines'
    BY <2>1, <2>7, <2>8 DEF KnownLines
  <2>10. \A u : Unlined(u) => Unlined(u)'
    BY <2>1, <2>3 DEF Unlined
  <2> QED
    BY <1>7, <2>9, <2>10
<1> QED
  BY <1>8, <1>9, <1>10

LEMMA CheckLines ==
  ASSUME StructInv, LinesKnown, Check, LinesClean'
  PROVE  LinesKnown'
<1>1. /\ Adding /\ TypeOK /\ Stack /\ task \in PkgTask /\ TaskOK(task)
      /\ task.pc = "check" /\ ~AlreadyInstalled /\ pkgdb' = pkgdb /\ Installed' = Installed
      /\ task \in Calls /\ task.pkg \in Pkg
  BY AddStepFacts, TheCalls DEF AddStep, Check, At, database, Installed, PkgTask
<1>2. ~Itself
  BY <1>1, NotItself
<1>3. /\ \A n \in Installed : lines(n)' = lines(n)
      /\ \A p : Unlined(p)' = Unlined(p)
      /\ Complete' = Complete
  BY <1>1 DEF lines, Unlined, Complete
<1>4. \A n \in Installed : \A m \in lines(n) : m \in Complete /\ Requires(pkgdb[m].contents, n)
  BY <1>2 DEF LinesKnown, KnownLines, Rightful, OwnLine, LinesOf
<1>5. \A t \in Waiting : Unregistered(t)' /\ t.pc = "installed" /\ t.install_logdir_real = NULL
  BY <1>1, <1>3, CallsOK, TheTask DEF LinesKnown, Unregistered, TaskOK
<1>6. ASSUME \A n \in Installed : LinesOf(n)' = n
      PROVE  KnownLines'
  BY <1>1, <1>3, <1>4, <1>6 DEF KnownLines, Rightful, Requires
<1>7. CASE tasks' = Tail(tasks)
  <2>1. Calls' = Waiting /\ (Adding' => task' \in Waiting)
    BY <1>1, <1>7, CallsPop, Pop
  <2>2. ~Itself' /\ (Adding' => Contented(task)')
    BY <1>5, <2>1 DEF Itself, Contented
  <2> QED
    BY <1>5, <1>6, <2>1, <2>2, NotRemoving DEF LinesKnown, LinesOf, AddStep
<1>8. CASE tasks' = << >>
  <2>1. Calls' = {} /\ ~Adding'
    BY <1>8 DEF Calls, Adding
  <2> QED
    BY <1>6, <2>1, NotRemoving DEF LinesKnown, LinesOf, Itself, AddStep
<1>9. ASSUME NEW other \in others, CheckPasses(other), Checked(other),
             trouble' = trouble \cup overridden(other)
      PROVE  LinesKnown'
  <2>1. PICK p \in Pkg : p = task.pkg
    BY <1>1
  <2>2. /\ other \in Name \cup {NULL}
        /\ other # NULL => other \in Installed /\ other.base = p.base
        /\ replaces_itself => other = p
    BY <1>1, <1>9, <2>1, OtherVersion
  <2>3. task.install_logdir = p
    BY <1>1, <2>1 DEF TaskOK
  <2>4. PICK t : t = [task EXCEPT
                   !.pc = IF other = NULL THEN "depends" ELSE "mkdir",
                   !.other_version = other,
                   !.install_logdir = IF replaces_itself THEN Temporary(@) ELSE @,
                   !.install_logdir_real = IF replaces_itself THEN task.pkg ELSE NULL]
    OBVIOUS
  <2>5. /\ t \in PkgTask /\ t.pkg = p /\ t.other_version = other
        /\ t.pc = IF other = NULL THEN "depends" ELSE "mkdir"
        /\ t.install_logdir = IF replaces_itself THEN Temporary(p) ELSE p
        /\ t.install_logdir_real = IF replaces_itself THEN p ELSE NULL
        /\ tasks' = <<t>> \o Tail(tasks)
    <3>1. Temporary(p) \in Name
      BY NameParts
    <3> QED
      BY <1>1, <1>9, <2>1, <2>2, <2>3, <2>4, <3>1 DEF Checked, PkgTask, Place
  <2>6. Calls' = {t} \cup Waiting /\ task' = t /\ Adding'
    BY <1>1, <2>5, CallsPut
  <2>7. replaces_itself => Temporary(p) \notin Installed
    BY <1>9, <2>1 DEF CheckPasses, CheckFails, EarlyFails
  <2>8. KnownLines'
    BY <1>6, <2>5, <2>6, <2>7 DEF LinesOf, Itself
  <2>9. replaces_itself => Unlined(Temporary(p))
    BY <1>4, <2>7 DEF Unlined, Complete
  <2>10. other = NULL => Unlined(p)
    <3> SUFFICES ASSUME other = NULL
                 PROVE  p \notin Installed
      BY <1>4 DEF Unlined, Complete
    <3>1. ~replaces_itself
      BY <2>1, <2>2, PkgAssumption DEF Name
    <3>2. other_versions = {}
      <4>1. NULL \notin Installed
        BY PkgAssumption DEF StructInv, TypeOK, StateType, DatabaseType
      <4>2. other_versions \subseteq Installed
        BY <3>1, BestMatching DEF other_versions
      <4> QED
        BY <1>9, <4>1, <4>2 DEF others
    <3>3. best_matching(BasePattern(p), Installed) = {}
      BY <2>1, <3>1, <3>2 DEF other_versions
    <3>4. Installed \in SUBSET Name
      BY DEF StructInv, TypeOK, StateType, DatabaseType
    <3> QED
      BY <3>3, <3>4, NoneInstalled
  <2>11. Unregistered(t)'
    BY <1>3, <2>5, <2>9, <2>10, PkgAssumption DEF Unregistered, Name
  <2>12. Contented(t)'
    <3> SUFFICES ASSUME other # NULL, ~replaces_itself, NEW m \in lines(other)',
                        NEW q \in Range(Plist[pkgdb'[m].contents].depends), other \in Matching[q]
                 PROVE  p \in Matching[q]
      BY <2>1, <2>5, PkgAssumption DEF Contented, Name
    <3>1. other \in Installed /\ m \in lines(other) /\ m \in Complete
          /\ q \in Range(plist(m).depends)
      BY <1>1, <1>3, <1>4, <2>2 DEF plist
    <3>2. "tree" \notin overridden(other)
      BY <1>9 DEF LinesClean
    <3>3. ~disappointed(m, other)
      BY <3>1, <3>2 DEF overridden
    <3> QED
      BY <2>1, <3>1, <3>3 DEF disappointed
  <2> QED
    BY <1>5, <2>6, <2>8, <2>11, <2>12, NotRemoving DEF LinesKnown, AddStep
<1> QED
  BY <1>7, <1>8, <1>9 DEF Check, Return

LEMMA AddStepLines ==
  ASSUME StructInv, ContentsOK, LinesKnown, Noted, Extracted, AddStep, LinesClean'
  PROVE  LinesKnown'
BY QuietLines, CheckLines, MkdirLines, WriteMetaDataLines, PreserveLines, RenameLines,
   RegisterDependLines, NukePkgdbLines DEF QuietStep

(* The calls are as they were, and no line is new.                         *)
LEMMA DeleteKeepsCalls ==
  ASSUME StructInv, LinesKnown, Deleting, tasks' = tasks, Installed' \subseteq Installed,
         \A n \in Installed' : lines(n)' \subseteq lines(n), KnownLines', DeletedLines'
  PROVE  LinesKnown'
<1>1. Calls' = Calls /\ Adding' = Adding /\ task' = task
  BY DEF Calls, Adding, task
<1>2. \A p : Unlined(p) => Unlined(p)'
  BY DEF Unlined
<1>3. \A t \in Calls : Unregistered(t)'
  BY <1>2 DEF LinesKnown, Unregistered
<1>4. Adding => Contented(task)'
  BY <1>1 DEF StructInv, Running, Contented
<1> QED
  BY <1>1, <1>3, <1>4 DEF LinesKnown

(* What is removed is not the directory with somebody else's lines.        *)
LEMMA DeinstallLines ==
  ASSUME StructInv, ContentsOK, LinesKnown, Deinstall, tasks' = tasks
  PROVE  LinesKnown'
<1>1. /\ Deleting /\ deletion.pc = "next" /\ deletion.list # << >> /\ deletion \in Deletion
      /\ pkgdb' = pkgdb /\ Installed' = Installed
  BY DEF Deinstall, Deleting, database, StructInv, TypeOK, Installed
<1>2. \A m, n : LinesOf(n)' = LinesOf(n) /\ OwnLine(m, n)' = OwnLine(m, n)
  BY RolesKept DEF Roles
<1>3. \A n \in Installed : lines(n)' = lines(n)
  BY <1>1 DEF lines
<1>4. KnownLines'
  BY <1>1, <1>2, <1>3, LinesStay DEF LinesKnown, Complete, Roles
<1>5. CASE deletion' = [deletion EXCEPT !.list = remaining(TRUE)]
  <2>1. deletion'.pc = "next"
    BY <1>1, <1>5 DEF Deletion
  <2> QED
    BY <1>1, <1>3, <1>4, <2>1, DeleteKeepsCalls DEF DeletedLines
<1>6. CASE this \in Complete /\ deletion' = [deletion EXCEPT !.pc = "remove",
                                        !.files = plist(this).files,
                                        !.depends = plist(this).depends]
  <2>1. /\ deletion'.list = deletion.list /\ this' = this
        /\ deletion'.depends = Plist[pkgdb[this].contents].depends
    BY <1>1, <1>6 DEF Deletion, this, plist
  <2>2. ASSUME NEW n \in Installed, this \in lines(n)
        PROVE  (\E q \in Range(deletion'.depends) : n \in Matching[q]) \/ OwnLine(this, n)
    <3>1. OwnLine(this, n) \/ Requires(pkgdb[this].contents, LinesOf(n))
      BY <2>2 DEF LinesKnown, KnownLines, Rightful
    <3>2. CASE LinesOf(n) = n
      BY <2>1, <3>1, <3>2 DEF Requires
    <3>3. CASE LinesOf(n) # n
      <4>1. Itself /\ n = task.install_logdir /\ LinesOf(n) = task.pkg
        BY <3>3 DEF LinesOf
      <4>2. task \in PkgTask /\ TaskOK(task)
        BY <4>1, TheTask DEF StructInv, Itself
      <4>3. this = task.pkg /\ task.pkg \in Pkg
        BY <1>1, <4>1, <4>2, DeletesOther DEF Itself, TaskOK, PkgTask
      <4>4. pkgdb[this].contents = task.pkg
        BY <1>6, <4>3, NamedSo
      <4> QED
        BY <3>1, <4>1, <4>3, <4>4 DEF OwnLine
    <3> QED
      BY <3>2, <3>3
  <2>3. DeletedLines'
    BY <1>1, <1>2, <1>3, <2>1, <2>2 DEF DeletedLines
  <2> QED
    BY <1>1, <1>3, <1>4, <2>3, DeleteKeepsCalls
<1> QED
  BY <1>5, <1>6 DEF Deinstall

(* pkg_delete goes on with the files, or ends, or is killed.               *)
LEMMA DeleteFileLines ==
  ASSUME StructInv, LinesKnown, Deleting, pkgdb' = pkgdb, tasks' = tasks,
         \/ deletion' = NoDeletion
         \/ DeleteFile
  PROVE  LinesKnown'
<1>1. Installed' = Installed /\ \A n \in Installed : lines(n)' = lines(n)
  BY DEF Installed, lines
<1>2. \A m, n : LinesOf(n)' = LinesOf(n) /\ OwnLine(m, n)' = OwnLine(m, n)
  BY RolesKept DEF Roles
<1>3. KnownLines'
  BY <1>1, <1>2, LinesStay DEF LinesKnown, Complete, Roles
<1>4. CASE deletion' = NoDeletion
  <2>1. deletion'.pc = "none"
    BY <1>4, NoDeletionType
  <2> QED
    BY <1>1, <1>3, <2>1, DeleteKeepsCalls DEF DeletedLines
<1>5. CASE DeleteFile
  <2>1. deletion.pc = "remove" /\ deletion \in Deletion
    BY <1>5 DEF DeleteFile, StructInv, TypeOK
  <2>2. PICK f : f = Tail(deletion.files)
    OBVIOUS
  <2>3. deletion' = [deletion EXCEPT !.files = f]
    BY <1>5, <2>2 DEF DeleteFile
  <2>4. this' = this /\ deletion'.depends = deletion.depends
    BY <2>1, <2>3 DEF Deletion, this
  <2>5. DeletedLines'
    BY <1>1, <1>2, <2>1, <2>4 DEF LinesKnown, DeletedLines
  <2> QED
    BY <1>1, <1>3, <2>5, DeleteKeepsCalls
<1> QED
  BY <1>4, <1>5

LEMMA RemoveDependLines ==
  ASSUME StructInv, LinesKnown, RemoveDepend, tasks' = tasks
  PROVE  LinesKnown'
<1>1. /\ Deleting /\ deletion.pc = "remove" /\ deletion.depends # << >> /\ deletion \in Deletion
      /\ DatabaseType
  BY DEF RemoveDepend, Deleting, StructInv, TypeOK, StateType
<1>2. PICK q, p, d : q = Head(deletion.depends) /\ p = this /\ d = Tail(deletion.depends)
  OBVIOUS
<1>3. pkgdb' = without_line(q, p) /\ deletion' = [deletion EXCEPT !.depends = d]
  BY <1>2 DEF RemoveDepend
<1>4. /\ Installed' = Installed
      /\ \A n \in Installed : /\ pkgdb'[n].contents = pkgdb[n].contents
                              /\ lines(n)' \subseteq lines(n)
  BY <1>1, <1>3, WithoutLine
<1>5. \A n \in Installed : n \in Matching[q] => p \notin lines(n)'
  BY <1>1, <1>3 DEF without_line, lines, DatabaseType, Directory
<1>6. \A m, n : LinesOf(n)' = LinesOf(n) /\ OwnLine(m, n)' = OwnLine(m, n)
  BY RolesKept DEF Roles
<1>7. KnownLines'
  BY <1>4, <1>6, LinesStay DEF LinesKnown, Complete, Roles
<1>8. this' = p /\ deletion'.depends = d /\ deletion'.pc = "remove"
  BY <1>1, <1>2, <1>3 DEF Deletion, this
<1>9. \A e \in Range(deletion.depends) : e = q \/ e \in Range(d)
  <2>1. deletion.depends \in Seq(Pattern)
    BY <1>1 DEF Deletion
  <2>2. /\ d \in Seq(Pattern) /\ ToSet(deletion.depends) = {q} \cup ToSet(d)
        /\ Range(deletion.depends) = ToSet(deletion.depends)
    BY <1>1, <1>2, <2>1, ToSetSeq
  <2>3. Range(d) = ToSet(d)
    BY <2>2, ToSetSeq
  <2> QED
    BY <2>2, <2>3
<1>10. DeletedLines'
  <2> SUFFICES ASSUME NEW n \in Installed, p \in lines(n)'
               PROVE  (\E e \in Range(d) : n \in Matching[e]) \/ OwnLine(p, n)
    BY <1>4, <1>6, <1>8 DEF DeletedLines
  <2>1. (\E e \in Range(deletion.depends) : n \in Matching[e]) \/ OwnLine(p, n)
    BY <1>1, <1>2, <1>4 DEF LinesKnown, DeletedLines
  <2> QED
    BY <1>5, <1>9, <2>1
<1> QED
  BY <1>1, <1>4, <1>7, <1>10, DeleteKeepsCalls

(* Who has no line any more may go.                                        *)
LEMMA RemoveMetaDataLines ==
  ASSUME StructInv, LinesKnown, RemoveMetaData, tasks' = tasks
  PROVE  LinesKnown'
<1>1. PICK d : d = this
  OBVIOUS
<1>2. /\ Deleting /\ deletion.pc = "remove" /\ d \in Installed /\ Installed' = Installed
      /\ pkgdb'[d] = EmptyDirectory /\ \A n \in Installed \ {d} : pkgdb'[n] = pkgdb[n]
      /\ deletion'.pc = "rmdir"
  BY <1>1, RemoveMetaDataEffect
<1>3. \A n \in Installed : lines(n)' \subseteq lines(n)
  BY <1>2 DEF lines, EmptyDirectory
<1>4. \A m, n : LinesOf(n)' = LinesOf(n) /\ OwnLine(m, n)' = OwnLine(m, n)
  BY RolesKept DEF Roles
<1>5. \A n \in Installed : d \in lines(n) => OwnLine(d, n)
  <2>1. Range(deletion.depends) = {}
    BY DEF RemoveMetaData, Range
  <2> QED
    BY <1>1, <1>2, <2>1 DEF LinesKnown, DeletedLines
<1>6. KnownLines'
  <2> SUFFICES ASSUME NEW n \in Installed, NEW m \in lines(n)'
               PROVE  Rightful(m, n)'
    BY <1>2 DEF KnownLines
  <2>1. m \in lines(n) /\ Rightful(m, n)
    BY <1>3 DEF LinesKnown, KnownLines
  <2>2. CASE m = d
    BY <1>4, <1>5, <2>1, <2>2 DEF Rightful
  <2>3. CASE m # d
    BY <1>2, <1>4, <2>1, <2>3 DEF Rightful, Complete, Requires
  <2> QED
    BY <2>2, <2>3
<1> QED
  BY <1>2, <1>3, <1>6, DeleteKeepsCalls DEF DeletedLines

LEMMA RmdirLines ==
  ASSUME StructInv, LinesKnown, Rmdir, tasks' = tasks
  PROVE  LinesKnown'
<1>1. PICK d : d = this
  OBVIOUS
<1>2. /\ Deleting /\ pkgdb[d].contents = NULL /\ Installed' = Installed \ {d}
      /\ \A n \in Installed \ {d} : pkgdb'[n] = pkgdb[n]
      /\ deletion'.pc = "next"
  BY <1>1, RmdirEffect
<1>3. \A n \in Installed' : lines(n)' = lines(n)
  BY <1>2 DEF lines
<1>4. \A m \in Complete : m \in Complete' /\ pkgdb'[m].contents = pkgdb[m].contents
  BY <1>2 DEF Complete
<1>5. KnownLines'
  BY <1>2, <1>3, <1>4, RolesKept, LinesStay DEF LinesKnown
<1> QED
  BY <1>2, <1>3, <1>5, DeleteKeepsCalls DEF DeletedLines

LEMMA DeleteStepLines ==
  ASSUME StructInv, ContentsOK, LinesKnown, DeleteStep, tasks' = tasks
  PROVE  LinesKnown'
<1>1. CASE EndDelete
  BY <1>1, DeleteFileLines DEF EndDelete, Deleting, database
<1>2. CASE DeleteFile
  BY <1>2, DeleteFileLines DEF DeleteFile, Deleting
<1> QED
  BY <1>1, <1>2, DeinstallLines, RemoveDependLines, RemoveMetaDataLines, RmdirLines DEF DeleteStep

-----------------------------------------------------------------------------
(* What a call has noted, and what it has extracted *)

LEMMA NewCalls ==
  ASSUME TypeOK, Adding, NEW t, tasks' = <<t>> \o Tail(tasks)
  PROVE  Calls' \subseteq {t} \cup Calls
<1> DEFINE S == PkgTask \cup {t}
<1>1. tasks \in Seq(S) /\ tasks # << >> /\ t \in S
  BY DEF TypeOK, Adding
<1> HIDE DEF S
<1>2. /\ Tail(tasks) \in Seq(S) /\ Len(Tail(tasks)) = Len(tasks) - 1 /\ Len(tasks) \in Nat
      /\ \A k \in 1 .. Len(tasks) - 1 : Tail(tasks)[k] = tasks[k + 1]
  BY <1>1
<1>3. Len(tasks') = Len(tasks) /\ \A k \in 1 .. Len(tasks') : k = 1 \/ tasks'[k] = tasks[k]
  BY <1>1, <1>2
<1>4. tasks'[1] = t
  BY <1>1, <1>2
<1> QED
  BY <1>3, <1>4 DEF Calls

LEMMA NewCallsTwo ==
  ASSUME TypeOK, Adding, NEW t, NEW u, tasks' = <<u, t>> \o Tail(tasks)
  PROVE  Calls' \subseteq {u, t} \cup Calls
<1> DEFINE S == PkgTask \cup {t, u}
<1>1. tasks \in Seq(S) /\ tasks # << >> /\ t \in S /\ u \in S
  BY DEF TypeOK, Adding
<1> HIDE DEF S
<1>2. /\ Tail(tasks) \in Seq(S) /\ Len(Tail(tasks)) = Len(tasks) - 1 /\ Len(tasks) \in Nat
      /\ \A k \in 1 .. Len(tasks) - 1 : Tail(tasks)[k] = tasks[k + 1]
  BY <1>1
<1>3. /\ Len(tasks') = Len(tasks) + 1
      /\ \A k \in 1 .. Len(tasks') : \/ k \in {1, 2}
                                     \/ tasks'[k] = tasks[k - 1] /\ k - 1 \in 1 .. Len(tasks)
  BY <1>1, <1>2
<1>4. tasks'[1] = u /\ tasks'[2] = t
  BY <1>1, <1>2
<1> QED
  BY <1>3, <1>4 DEF Calls

(* A call for the same package that has noted the same.                    *)
Keeps(t) ==
  tasks' = <<t>> \o Tail(tasks) /\ t.pkg = task.pkg /\ t.dependencies = task.dependencies

(* A command for the innermost call.                                       *)
LEMMA GotoKeeps ==
  ASSUME NEW pc, task \in PkgTask, Goto(pc)
  PROVE  \E t : Keeps(t) /\ t.pc = pc
<1>1. PICK t : t = [task EXCEPT !.pc = pc]
  OBVIOUS
<1>2. t.pkg = task.pkg /\ t.dependencies = task.dependencies /\ t.pc = pc
  BY <1>1 DEF PkgTask
<1> QED
  BY <1>1, <1>2 DEF Goto, Keeps

LEMMA WhatIsNoted ==
  ASSUME StructInv, AddStep
  PROVE  \/ tasks' = Tail(tasks) \/ tasks' = << >>
         \/ \E t : Keeps(t)
         \/ RegisterDepend
         \/ task.depends # << >> /\ \E best \in fulfilling : Fulfilled(best)
         \/ \E p : tasks' = <<Task(p, TRUE), [task EXCEPT !.pc = "installed"]>> \o Tail(tasks)
<1>1. task \in PkgTask /\ TaskOK(task)
  BY AddStepFacts
<1>2. ASSUME \E pc : Goto(pc)
      PROVE  \E t : Keeps(t)
  BY <1>1, <1>2, GotoKeeps
<1>3. CASE CheckAlreadyInstalled \/ Registered \/ NukePkgdb
  BY <1>3 DEF CheckAlreadyInstalled, Registered, NukePkgdb, Return
<1>4. ASSUME NEW other, Checked(other)
      PROVE  \E t : Keeps(t)
  <2>1. PICK t : t = [task EXCEPT
                   !.pc = IF other = NULL THEN "depends" ELSE "mkdir",
                   !.other_version = other,
                   !.install_logdir = IF replaces_itself THEN Temporary(@) ELSE @,
                   !.install_logdir_real = IF replaces_itself THEN task.pkg ELSE NULL]
    OBVIOUS
  <2>2. t.pkg = task.pkg /\ t.dependencies = task.dependencies
    BY <1>1, <2>1 DEF PkgTask
  <2> QED
    BY <1>4, <2>1, <2>2 DEF Checked, Keeps
<1>5. CASE Check
  BY <1>4, <1>5 DEF Check, Return
<1>6. CASE CheckDependency
  BY <1>2, <1>6 DEF CheckDependency
<1>7. CASE DependencyInstalled
  <2>1. task.depends # << >>
    BY <1>1, <1>7 DEF DependencyInstalled, At, TaskOK
  <2>2. ASSUME tasks' = <<[task EXCEPT !.pc = "depends", !.depends = Tail(@)]>> \o Tail(tasks)
        PROVE  \E t : Keeps(t)
    <3>1. PICK t : t = [task EXCEPT !.pc = "depends", !.depends = Tail(@)]
      OBVIOUS
    <3>2. t.pkg = task.pkg /\ t.dependencies = task.dependencies
      BY <1>1, <3>1 DEF PkgTask
    <3> QED
      BY <2>2, <3>1, <3>2 DEF Keeps
  <2> QED
    BY <1>2, <1>7, <2>1, <2>2 DEF DependencyInstalled, DependsFail, Return
<1>8. CASE DependenciesDone \/ Mkdir \/ DeleteOther \/ PreInstall \/ PostInstall \/ MarkAutomatic
  BY <1>2, <1>8 DEF DependenciesDone, Mkdir, DeleteOther, PreInstall, PostInstall, MarkAutomatic
<1>9. CASE WriteMetaData
  <2>1. PICK t : t = [task EXCEPT !.pc = "pre_install"]
    OBVIOUS
  <2>2. PICK u : u = [task EXCEPT !.pc = "preserve_meta_data_file", !.preserve = start_replacing]
    OBVIOUS
  <2>3. /\ t.pkg = task.pkg /\ t.dependencies = task.dependencies
        /\ u.pkg = task.pkg /\ u.dependencies = task.dependencies
    BY <1>1, <2>1, <2>2 DEF PkgTask
  <2> QED
    BY <1>2, <1>9, <2>1, <2>2, <2>3 DEF WriteMetaData, Keeps
<1>10. CASE PreserveMetaDataFile
  <2>1. PICK t : t = [task EXCEPT !.preserve = Tail(@)]
    OBVIOUS
  <2>2. t.pkg = task.pkg /\ t.dependencies = task.dependencies
    BY <1>1, <2>1 DEF PkgTask
  <2> QED
    BY <1>2, <1>10, <2>1, <2>2 DEF PreserveMetaDataFile, Keeps
<1>11. CASE RenameDirectory
  <2>1. PICK t : t = [task EXCEPT !.pc = "depends",
                                  !.install_logdir = IF task.install_logdir_real = NULL THEN @
                                                     ELSE task.install_logdir_real,
                                  !.install_logdir_real = NULL]
    OBVIOUS
  <2>2. t.pkg = task.pkg /\ t.dependencies = task.dependencies
    BY <1>1, <2>1 DEF PkgTask
  <2> QED
    BY <1>11, <2>1, <2>2 DEF RenameDirectory, Keeps
<1>12. CASE ExtractFile
  <2>1. PICK t : t = [task EXCEPT !.files = Tail(@)]
    OBVIOUS
  <2>2. PICK u : u = [task EXCEPT !.pc = "nuke_pkg", !.files = Plist[task.pkg].files]
    OBVIOUS
  <2>3. /\ t.pkg = task.pkg /\ t.dependencies = task.dependencies
        /\ u.pkg = task.pkg /\ u.dependencies = task.dependencies
    BY <1>1, <2>1, <2>2 DEF PkgTask
  <2> QED
    BY <1>12, <2>1, <2>2, <2>3 DEF ExtractFile, Keeps
<1>13. CASE NukePkg
  <2>1. PICK t : t = [task EXCEPT !.files = Tail(@)]
    OBVIOUS
  <2>2. t.pkg = task.pkg /\ t.dependencies = task.dependencies
    BY <1>1, <2>1 DEF PkgTask
  <2> QED
    BY <1>13, <2>1, <2>2 DEF NukePkg, Keeps
<1> QED
  BY <1>3, <1>5, <1>6, <1>7, <1>8, <1>9, <1>10, <1>11, <1>12, <1>13 DEF AddStep

LEMMA AddStepNoted ==
  ASSUME StructInv, Noted, AddStep
  PROVE  Noted'
<1>1. /\ Adding /\ TypeOK /\ Stack /\ task \in PkgTask /\ TaskOK(task)
      /\ task \in Calls /\ task.pkg \in Pkg /\ task.dependencies \in Seq(Name)
  BY AddStepFacts, TheCalls DEF PkgTask
<1>2. ASSUME NEW t, tasks' = <<t>> \o Tail(tasks), t.pkg = task.pkg,
             \A d \in Range(t.dependencies) :
               d \in Range(task.dependencies) \/ Requires(task.pkg, d)
      PROVE  Noted'
  <2>1. Calls' \subseteq {t} \cup Calls
    BY <1>1, <1>2, NewCalls
  <2>2. \A d \in Range(t.dependencies) : Requires(t.pkg, d)
    BY <1>1, <1>2 DEF Noted
  <2> QED
    BY <2>1, <2>2 DEF Noted, Requires
<1>3. CASE tasks' = Tail(tasks) \/ tasks' = << >>
  <2>1. Calls' \subseteq Calls
    BY <1>1, <1>3, CallsPop DEF Calls
  <2> QED
    BY <2>1 DEF Noted, Requires
<1>4. CASE \E t : Keeps(t)
  BY <1>2, <1>4 DEF Keeps
<1>5. CASE RegisterDepend
  <2>1. PICK ds : ds = Tail(task.dependencies)
    OBVIOUS
  <2>2. ds \in Seq(Name) /\ Range(ds) \subseteq Range(task.dependencies)
    <3>1. /\ ds \in Seq(Name) /\ ToSet(ds) \subseteq ToSet(task.dependencies)
          /\ Range(task.dependencies) = ToSet(task.dependencies)
      BY <1>1, <1>5, <2>1, ToSetSeq DEF RegisterDepend
    <3>2. Range(ds) = ToSet(ds)
      BY <3>1, ToSetSeq
    <3> QED
      BY <3>1, <3>2
  <2>3. PICK t : t = [task EXCEPT !.dependencies = ds]
    OBVIOUS
  <2>4. t.pkg = task.pkg /\ t.dependencies = ds /\ tasks' = <<t>> \o Tail(tasks)
    BY <1>1, <1>5, <2>1, <2>3 DEF RegisterDepend, PkgTask
  <2> QED
    BY <1>2, <2>2, <2>4
<1>6. ASSUME task.depends # << >>, NEW best \in fulfilling, Fulfilled(best)
      PROVE  Noted'
  <2>1. PICK ds : ds = (IF best \in Range(task.dependencies) THEN task.dependencies
                        ELSE Append(task.dependencies, best))
    OBVIOUS
  <2>2. best \in Installed /\ best \in Matching[pattern]
    BY <1>6, BestMatching DEF fulfilling
  <2>3. best \in Name
    BY <1>1, <2>2 DEF TypeOK, StateType, DatabaseType
  <2>4. \A d \in Range(ds) : d \in Range(task.dependencies) \/ d = best
    <3>1. CASE best \in Range(task.dependencies)
      BY <2>1, <3>1
    <3>2. CASE best \notin Range(task.dependencies)
      <4>1. /\ ds \in Seq(Name) /\ Len(ds) = Len(task.dependencies) + 1
            /\ \A k \in 1 .. Len(task.dependencies) : ds[k] = task.dependencies[k]
            /\ ds[Len(ds)] = best /\ Len(task.dependencies) \in Nat
        BY <1>1, <2>1, <2>3, <3>2, AppendProperties
      <4>2. \A k \in 1 .. Len(ds) : k \in 1 .. Len(task.dependencies) \/ k = Len(ds)
        BY <4>1
      <4> QED
        BY <1>1, <4>1, <4>2 DEF Range
    <3> QED
      BY <3>1, <3>2
  <2>5. Requires(task.pkg, best)
    <3>1. task.depends \in Seq(Pattern) /\ Plist[task.pkg].depends \in Seq(Pattern)
      BY <1>1, Plists DEF PkgTask
    <3>2. pattern \in ToSet(Plist[task.pkg].depends)
      BY <1>1, <1>6, <3>1, ToSetSeq DEF pattern, TaskOK
    <3>3. pattern \in Range(Plist[task.pkg].depends)
      BY <3>1, <3>2, ToSetSeq
    <3> QED
      BY <2>2, <3>3 DEF Requires
  <2>6. PICK q : q = Tail(task.depends)
    OBVIOUS
  <2>7. PICK t : t = [task EXCEPT !.pc = "depends", !.depends = q, !.dependencies = ds]
    OBVIOUS
  <2>8. t.pkg = task.pkg /\ t.dependencies = ds /\ tasks' = <<t>> \o Tail(tasks)
    BY <1>1, <1>6, <2>1, <2>6, <2>7 DEF Fulfilled, PkgTask
  <2> QED
    BY <1>2, <2>4, <2>5, <2>8
<1>7. ASSUME NEW p,
             tasks' = <<Task(p, TRUE), [task EXCEPT !.pc = "installed"]>> \o Tail(tasks)
      PROVE  Noted'
  <2>1. PICK t : t = [task EXCEPT !.pc = "installed"]
    OBVIOUS
  <2>2. t.pkg = task.pkg /\ t.dependencies = task.dependencies
    BY <1>1, <2>1 DEF PkgTask
  <2>3. PICK u : u = Task(p, TRUE) /\ u.dependencies = << >>
    <3>1. \A a : Task(p, a).dependencies = << >>
      BY DEF Task
    <3> QED
      BY <3>1, Zenon
  <2>4. Calls' \subseteq {u, t} \cup Calls
    <3>1. tasks' = <<u, t>> \o Tail(tasks)
      BY <1>7, <2>1, <2>3
    <3> QED
      BY <1>1, <3>1, NewCallsTwo
  <2>5. Range(u.dependencies) = {}
    <3>1. Range(<< >>) = {}
      BY DEF Range
    <3> QED
      BY <2>3, <3>1
  <2> QED
    BY <1>1, <2>2, <2>4, <2>5 DEF Noted, Requires
<1> QED
  BY <1>3, <1>4, <1>5, <1>6, <1>7, WhatIsNoted

LEMMA AddStepExtracted ==
  ASSUME StructInv, Extracted, AddStep
  PROVE  Extracted'
<1>1. Adding /\ TypeOK /\ Stack /\ task \in PkgTask /\ TaskOK(task)
  BY AddStepFacts
<1>2. CASE tasks' = Tail(tasks) \/ tasks' = << >>
  <2>1. Adding' => task' \in Waiting
    BY <1>1, <1>2, Pop DEF Adding
  <2> QED
    BY <1>1, <2>1, CallsOK DEF Extracted
<1>3. ASSUME NEW t \in PkgTask, tasks' = <<t>> \o Tail(tasks),
             t.pc \notin {"extract_files", "mark_automatic", "pkg_register_depends"}
      PROVE  Extracted'
  BY <1>1, <1>3, CallsPut DEF Extracted
<1>4. CASE Check
  BY <1>1, <1>2, <1>3, <1>4, CheckedTask DEF Check, At, Return
<1>5. CASE Mkdir
  BY <1>1, <1>3, <1>5, GoesOn DEF Mkdir, Place
<1>6. CASE WriteMetaData /\ ~GivesUp
  BY <1>3, <1>6, WriteMetaDataEffect
<1>10. CASE GivesUp
  BY <1>1, <1>3, <1>10, GoesOn DEF GivesUp, Place
<1>7. CASE RenameDirectory
  BY <1>3, <1>7, RenamedTask
<1>8. CASE NukePkgdb
  BY <1>2, <1>8 DEF NukePkgdb, Return
<1>9. CASE ~(Check \/ Mkdir \/ WriteMetaData \/ RenameDirectory \/ NukePkgdb)
  <2>1. CASE Continues({"pre_install", "extract_files", "mark_automatic", "pkg_register_depends",
                       "nuke_pkg"},
                      {"extract_files", "mark_automatic", "pkg_register_depends",
                       "nuke_pkg", "nuke_pkgdb"})
    <3>1. PICK t \in PkgTask : /\ tasks' = <<t>> \o Tail(tasks) /\ t.pkg = task.pkg
                               /\ task.pc \in {"pre_install", "extract_files", "mark_automatic",
                                               "pkg_register_depends", "nuke_pkg"}
      BY <2>1 DEF Continues, Like
    <3>2. task' = t
      BY <1>1, <3>1, CallsPut
    <3>3. CASE task.pc = "nuke_pkg"
      <4>1. NukePkg
        BY <3>3, <1>9 DEF AddStep, CheckAlreadyInstalled, Check, CheckDependency,
           DependencyInstalled, DependenciesDone, PreserveMetaDataFile, DeleteOther,
           PreInstall, ExtractFile, PostInstall, MarkAutomatic, RegisterDepend, Registered, At
      <4> QED
        BY <1>3, <4>1, NukeGoesOn
    <3>4. CASE task.pc = "pre_install"
      <4>1. PreInstall
        BY <3>4, <1>9 DEF AddStep, CheckAlreadyInstalled, Check, CheckDependency,
           DependencyInstalled, DependenciesDone, PreserveMetaDataFile, DeleteOther,
           NukePkg, ExtractFile, PostInstall, MarkAutomatic, RegisterDepend, Registered, At
      <4>2. CASE Goto("nuke_pkgdb")
        BY <1>1, <1>3, <4>2, GoesOn DEF Place
      <4>3. CASE task.pkg \in Complete
        <5>1. Complete' = Complete
          BY <4>1 DEF PreInstall, database, Complete, Installed
        <5> QED
          BY <3>1, <3>2, <4>3, <5>1 DEF Extracted
      <4> QED
        BY <4>1, <4>2, <4>3 DEF PreInstall, unrecorded, Extracted
    <3>5. CASE task.pc \notin {"pre_install", "nuke_pkg"}
      <4>1. "lines" \notin trouble => task.pkg \in Complete
        BY <1>1, <3>1, <3>5 DEF Extracted
      <4>2. Complete' = Complete /\ trouble \subseteq trouble'
        BY <1>9, SameContents DEF Complete, AddStep, CheckAlreadyInstalled, CheckDependency,
           DependencyInstalled, DependenciesDone, PreserveMetaDataFile, DeleteOther, PreInstall,
           ExtractFile, PostInstall, MarkAutomatic, RegisterDepend, Registered, NukePkg
      <4> QED
        BY <3>1, <3>2, <4>1, <4>2 DEF Extracted
    <3> QED
      BY <3>3, <3>4, <3>5
  <2>2. ASSUME NEW p \in wanted(scenario, task.pkg), NEW t \in PkgTask,
               tasks' = <<Task(p, TRUE), t>> \o Tail(tasks)
        PROVE  Extracted'
    <3>1. p \in scenario.packages
      BY BestMatching DEF wanted
    <3>2. PICK u \in PkgTask : u = Task(p, TRUE) /\ u.pc = "check"
      BY <1>1, <3>1, NewTask DEF Task
    <3>3. task' = u
      BY <1>1, <2>2, <3>2, CallsPush
    <3> QED
      BY <3>2, <3>3 DEF Extracted
  <2>3. ASSUME NEW P, NEW Q, Continues(P, Q),
               {"extract_files", "mark_automatic", "pkg_register_depends"} \cap Q = {}
        PROVE  Extracted'
    BY <1>3, <2>3 DEF Continues
  <2> QED
    BY <1>2, <1>9, <2>1, <2>2, <2>3, WhereItGoes
<1> QED
  BY <1>4, <1>5, <1>6, <1>7, <1>8, <1>9, <1>10

(* Steps of the others leave the calls alone, or begin or end them.        *)
LEMMA OtherNoted ==
  ASSUME StructInv, Noted, Extracted,
         \/ tasks' = tasks /\ (Deleting \/ ~Adding)
         \/ tasks' = tasks /\ pkgdb' = pkgdb /\ trouble' = trouble
         \/ tasks' = << >>
         \/ PkgAddCommand
  PROVE  Noted' /\ Extracted'
<1>1. CASE tasks' = tasks
  <2>1. Calls' = Calls /\ Adding' = Adding /\ task' = task
    BY <1>1 DEF Calls, Adding, task
  <2>2. CASE Deleting \/ ~Adding
    BY <2>1, <2>2 DEF Noted, Extracted, Requires, StructInv, Running
  <2>3. CASE pkgdb' = pkgdb /\ trouble' = trouble
    BY <2>1, <2>3 DEF Noted, Extracted, Requires, Complete, Installed
  <2>4. CASE PkgAddCommand
    BY <1>1, <2>4, NothingRuns, <2>2 DEF PkgAddCommand, Idle
  <2>5. CASE tasks' = << >>
    BY <1>1, <2>5, <2>2 DEF Adding
  <2> QED
    BY <2>2, <2>3, <2>4, <2>5
<1>2. CASE tasks' = << >>
  BY <1>2 DEF Noted, Extracted, Calls, Adding
<1>3. CASE PkgAddCommand
  <2>1. PICK p \in scenario.packages, opts \in scenario.add_options : tasks' = <<Task(p, "A" \in opts)>>
    BY <1>3 DEF PkgAddCommand
  <2>2. PICK t : t = Task(p, "A" \in opts) /\ t.pc = "check" /\ t.dependencies = << >>
    <3>1. \A a : Task(p, a).pc = "check" /\ Task(p, a).dependencies = << >>
      BY DEF Task
    <3> QED
      BY <3>1, Zenon
  <2>3. Calls' = {t} /\ task' = t
    BY <2>1, <2>2 DEF Calls, task
  <2>4. Range(t.dependencies) = {}
    <3>1. Range(<< >>) = {}
      BY DEF Range
    <3> QED
      BY <2>2, <3>1
  <2> QED
    BY <2>2, <2>3, <2>4 DEF Noted, Extracted
<1> QED
  BY <1>1, <1>2, <1>3

(* A command begins, or ends.                                              *)
LEMMA IdleLines ==
  ASSUME StructInv, LinesKnown, ~Adding, pkgdb' = pkgdb, deletion'.pc # "remove", ~Itself',
         \A t \in Calls' : t.pc = "check" /\ t.install_logdir_real = NULL,
         Adding' => task' \in Calls'
  PROVE  LinesKnown'
<1>1. Installed' = Installed /\ \A n \in Installed : lines(n)' = lines(n)
  BY DEF Installed, lines
<1>2. ~Itself
  BY DEF Itself
<1>3. KnownLines'
  BY <1>1, <1>2, RolesKept, LinesStay DEF LinesKnown, Complete
<1> QED
  BY <1>3 DEF LinesKnown, DeletedLines, Unregistered, Contented

LEMMA CommandLines ==
  ASSUME StructInv, LinesKnown, LinesClean',
         PkgAddCommand \/ PkgDeleteCommand \/ PkgAdminCommand \/ Rebuild \/ AddOrDeleteEnds
  PROVE  LinesKnown'
<1>1. ~Adding /\ ~Deleting /\ TypeOK
  BY NothingRuns DEF PkgAddCommand, PkgDeleteCommand, PkgAdminCommand, Rebuild, AddOrDeleteEnds,
     Idle, StructInv
<1>2. CASE PkgAddCommand
  <2>1. PICK p \in scenario.packages, opts \in scenario.add_options : tasks' = <<Task(p, "A" \in opts)>>
    BY <1>2 DEF PkgAddCommand
  <2>2. PICK t : t = Task(p, "A" \in opts) /\ t.pc = "check" /\ t.install_logdir_real = NULL
    <3>1. \A a : Task(p, a).pc = "check" /\ Task(p, a).install_logdir_real = NULL
      BY DEF Task
    <3> QED
      BY <3>1, Zenon
  <2>3. Calls' = {t} /\ task' = t
    BY <2>1, <2>2 DEF Calls, task
  <2>4. pkgdb' = pkgdb /\ deletion' = deletion
    BY <1>2 DEF PkgAddCommand, database
  <2> QED
    BY <1>1, <2>2, <2>3, <2>4, IdleLines DEF Itself, Deleting
<1>3. ASSUME tasks' = tasks, pkgdb' = pkgdb, deletion'.pc # "remove"
      PROVE  LinesKnown'
  <2>1. Calls' = {} /\ ~Adding'
    BY <1>1, <1>3, TheCalls DEF Calls, Adding
  <2> QED
    BY <1>1, <1>3, <2>1, IdleLines DEF Itself
<1>4. CASE PkgDeleteCommand
  <2>1. PICK n \in Complete, opts \in scenario.delete_options : StartDelete({n}, opts)
    BY <1>4 DEF PkgDeleteCommand
  <2>2. {n} \in SUBSET Name /\ opts \in SUBSET Options
    BY <1>1, ScenariosAssumption DEF TypeOK, StateType, DatabaseType, Complete, Options
  <2>3. deletion'.pc \in {"none", "next"}
    BY <1>1, <2>1, <2>2, StartDeleteEffect
  <2> QED
    BY <1>3, <1>4, <2>3 DEF PkgDeleteCommand, database
<1>5. CASE PkgAdminCommand
  <2>1. pkgdb' = pkgdb /\ deletion' = deletion /\ tasks' = tasks
    BY <1>5 DEF PkgAdminCommand, LinesClean, volatile
  <2> QED
    BY <1>1, <1>3, <2>1 DEF Deleting
<1>6. CASE Rebuild \/ AddOrDeleteEnds
  <2>1. pkgdb' = pkgdb /\ deletion' = deletion /\ tasks' = tasks
    BY <1>6 DEF Rebuild, AddOrDeleteEnds, volatile, database
  <2> QED
    BY <1>1, <1>3, <2>1 DEF Deleting
<1> QED
  BY <1>2, <1>4, <1>5, <1>6

(* pkg_admin rebuild-tree writes the lines anew.                           *)
LEMMA RebuildTreeLines ==
  ASSUME StructInv, RebuildTree
  PROVE  LinesKnown'
<1>1. ~Adding /\ deletion.pc = "none" /\ tasks' = tasks /\ deletion' = deletion /\ TypeOK
  BY NothingRuns DEF RebuildTree, volatile, StructInv
<1>2. Calls' = {} /\ ~Adding' /\ ~Itself'
  BY <1>1, TheCalls DEF Calls, Adding, Itself
<1>3. PICK visited \in Visited :
        pkgdb' = [n \in Installed |->
                   [pkgdb[n] EXCEPT !.required_by = {m \in visited : DependsOn(m, n)}]]
  BY DEF RebuildTree
<1>4. /\ Installed' = Installed
      /\ \A n \in Installed : pkgdb'[n].contents = pkgdb[n].contents
  BY RebuildTreeStruct
<1>5. visited \subseteq Complete
  BY <1>3 DEF Visited
<1>6. \A n \in Installed : lines(n)' = {m \in visited : DependsOn(m, n)}
  BY <1>1, <1>3 DEF lines, TypeOK, StateType, DatabaseType, Directory
<1>7. KnownLines'
  <2> SUFFICES ASSUME NEW n \in Installed, NEW m \in visited, DependsOn(m, n)
               PROVE  Rightful(m, n)'
    BY <1>4, <1>6 DEF KnownLines
  <2>1. m \in Complete /\ Requires(pkgdb[m].contents, n)
    BY <1>5, BestMatching DEF DependsOn, Requires, plist
  <2>2. m \in Complete' /\ pkgdb'[m].contents = pkgdb[m].contents
    BY <1>4, <2>1 DEF Complete
  <2>3. LinesOf(n)' = n
    BY <1>2 DEF LinesOf
  <2> QED
    BY <2>1, <2>2, <2>3 DEF Rightful, Requires
<1> QED
  BY <1>1, <1>2, <1>7 DEF LinesKnown, DeletedLines

LEMMA LinesUnchanged ==
  ASSUME LinesKnown, UNCHANGED vars
  PROVE  LinesKnown'
<1>1. UNCHANGED <<pkgdb, deletion, tasks>>
  BY DEF vars, database
<1>2. /\ Calls' = Calls /\ Adding' = Adding /\ task' = task /\ Installed' = Installed
      /\ Complete' = Complete /\ this' = this /\ \A n \in Installed : lines(n)' = lines(n)
  BY <1>1 DEF Calls, Adding, task, Installed, Complete, this, lines
<1>3. Roles
  BY <1>1, RolesKept
<1>4. KnownLines'
  BY <1>1, <1>2, <1>3, LinesStay DEF LinesKnown
<1>5. DeletedLines'
  BY <1>1, <1>2, <1>3 DEF LinesKnown, DeletedLines, Roles
<1>6. \A t \in Calls : Unregistered(t)'
  BY <1>2 DEF LinesKnown, Unregistered, Unlined
<1>7. Adding => Contented(task)'
  BY <1>1, <1>2 DEF LinesKnown, Contented, lines
<1> QED
  BY <1>2, <1>4, <1>5, <1>6, <1>7 DEF LinesKnown

LEMMA StepLines ==
  ASSUME StructInv, ContentsOK, LinesInv, [Next]_vars
  PROVE  LinesInv'
<1>1. Noted' /\ Extracted'
  <2>1. CASE AddStep
    BY <2>1, AddStepNoted, AddStepExtracted DEF LinesInv
  <2>2. CASE DeleteStep /\ tasks' = tasks
    BY <2>2, OtherNoted DEF LinesInv, DeleteStep, Deinstall, DeleteFile, RemoveDepend,
       RemoveMetaData, Rmdir, EndDelete, Deleting
  <2>3. CASE PkgAddCommand
    BY <2>3, OtherNoted DEF LinesInv
  <2>4. CASE PkgDeleteCommand \/ PkgAdminCommand \/ RebuildTree \/ Rebuild \/ AddOrDeleteEnds
    BY <2>4, OtherNoted, NothingRuns DEF LinesInv, PkgDeleteCommand, PkgAdminCommand, RebuildTree,
       Rebuild, AddOrDeleteEnds, Idle, volatile
  <2>5. CASE Kill \/ UNCHANGED vars
    BY <2>5, OtherNoted DEF LinesInv, Kill, vars, database
  <2> QED
    BY <2>1, <2>2, <2>3, <2>4, <2>5 DEF Next, Step
<1> SUFFICES ASSUME LinesClean' PROVE LinesKnown'
  BY <1>1 DEF LinesInv
<1>2. CASE RebuildTree
  BY <1>2, RebuildTreeLines
<1>3. CASE ~RebuildTree
  <2>1. LinesKnown /\ Noted /\ Extracted
    BY <1>3, LinesCleanOnce DEF LinesInv
  <2>2. CASE AddStep
    BY <2>1, <2>2, AddStepLines
  <2>3. CASE DeleteStep /\ tasks' = tasks
    BY <2>1, <2>3, DeleteStepLines
  <2>4. CASE PkgAddCommand \/ PkgDeleteCommand \/ PkgAdminCommand \/ Rebuild \/ AddOrDeleteEnds
    BY <2>1, <2>4, CommandLines
  <2>5. CASE Kill
    BY <2>1, <2>5, DeleteFileLines DEF Kill, interrupted, LinesClean, database
  <2>6. CASE UNCHANGED vars
    BY <2>1, <2>6, LinesUnchanged
  <2> QED
    BY <1>3, <2>2, <2>3, <2>4, <2>5, <2>6 DEF Next, Step
<1> QED
  BY <1>2, <1>3

LEMMA InitLines ==
  ASSUME InitAll
  PROVE  LinesInv
<1>1. Installed = {} /\ ~Adding /\ Calls = {} /\ deletion.pc = "none"
  BY NoDeletionType DEF InitAll, Init, Installed, Adding, Calls
<1> QED
  BY <1>1 DEF LinesInv, Noted, Extracted, LinesKnown, KnownLines, DeletedLines

(* When nothing has been overridden or interrupted since the last          *)
(* rebuild-tree, a line of +REQUIRED_BY is that of an installed package    *)
(* with a pattern that the package with the line matches: whatever was     *)
(* updated, deleted or given up in between.                                *)
THEOREM LinesNeverStray == Spec => []NoStrayLines
<1>1. InitAll => StructInv /\ ConflictInv /\ LinesInv
  BY InitStruct, InitConflict, InitLines
<1>2. StructInv /\ ConflictInv /\ LinesInv /\ [Next]_vars
      => (StructInv /\ ConflictInv /\ LinesInv)'
  BY StepStruct, StepConflict, StepLines DEF ConflictInv
<1>3. ASSUME StructInv, LinesInv
      PROVE  NoStrayLines
  <2> SUFFICES ASSUME Idle, LinesClean, NEW n \in Installed, NEW m \in lines(n)
               PROVE  m \in Complete /\ \E q \in Range(plist(m).depends) : n \in Matching[q]
    BY DEF NoStrayLines, LinesClean
  <2>1. ~Itself
    BY <1>3, NothingRuns DEF Idle, Itself
  <2> QED
    BY <1>3, <2>1 DEF LinesInv, LinesKnown, KnownLines, Rightful, LinesOf, OwnLine, Requires, plist
<1> QED
  BY <1>1, <1>2, <1>3, PTL DEF Spec
===============================================================================
