-------------------------- MODULE Tj3StagingProofs --------------------------
(***************************************************************************)
(* tj3_collect_project() for any project: whatever its members' paths and  *)
(* however tj3 writes them, a diagnostic comes back to the document it is  *)
(* about, no directory is left, and no report leaves the directory.        *)
(***************************************************************************)
EXTENDS Tj3Staging, SequenceTheorems, WellFoundedInduction, TLAPS

\* The paths of the documents are canonical: sequences of proper names, and two
\* documents never have the same.
PathsCanonical ==
  /\ PathOf \in [Docs -> Seq(STRING)]
  /\ \A d \in Docs : \A i \in 1 .. Len(PathOf[d]) : PathOf[d][i] \notin {".", "/"}
  /\ \A d, e \in Docs : PathOf[d] # <<>> /\ PathOf[d] = PathOf[e] => d = e

\* tj3's messages may hold anything but the marker of an error.
MessagesPlain ==
  /\ \A msg \in Messages : (\E S : msg \in Seq(S)) /\ \A i \in 1 .. Len(msg) : msg[i].kind # "Error"
  /\ LineNos \subseteq Nat

-----------------------------------------------------------------------------
(* Least and greatest elements.                                            *)

LEMMA LeastIs ==
  ASSUME NEW S, S \subseteq Int, NEW m \in S, \A j \in S : m <= j
  PROVE  Least(S) = m
<1>1. Least(S) \in S /\ \A j \in S : Least(S) <= j
  BY DEF Least
<1>2. Least(S) <= m /\ m <= Least(S) /\ Least(S) \in Int /\ m \in Int
  BY <1>1
<1> QED BY ONLY <1>2

LEMMA GreatestIs ==
  ASSUME NEW S, S \subseteq Int, NEW m \in S, \A j \in S : j <= m
  PROVE  Greatest(S) = m
<1>1. Greatest(S) \in S /\ \A j \in S : j <= Greatest(S)
  BY DEF Greatest
<1>2. Greatest(S) <= m /\ m <= Greatest(S) /\ Greatest(S) \in Int /\ m \in Int
  BY <1>1
<1> QED BY ONLY <1>2

\* A bounded set of numbers has a greatest one.
LEMMA GreatestExists ==
  ASSUME NEW n \in Nat, NEW S, S \subseteq 0 .. n, S # {}
  PROVE  Greatest(S) \in S
<1> DEFINE T == {n - k : k \in S}
           R == OpToRel(<, Nat)
<1>0. \A k \in S : k \in Int /\ 0 <= k /\ k <= n
  OBVIOUS
<1>1. T \subseteq Nat /\ T # {}
  <2>1. \A k \in S : n - k \in Nat
    BY <1>0
  <2> QED BY <2>1
<1>2. IsWellFoundedOn(R, Nat)
  BY NatLessThanWellFounded
<1>3. \A x, y \in Nat : y < x => <<y, x>> \in R
  BY DEF OpToRel
<1> HIDE DEF R, T
<1>4. PICK x \in T : \A y \in T : ~(<<y, x>> \in R)
  BY <1>1, <1>2, WFMin
<1>5. \A y \in T : x <= y
  <2> SUFFICES ASSUME NEW y \in T PROVE x <= y
    OBVIOUS
  <2>1. x \in Nat /\ y \in Nat /\ ~(y < x)
    BY <1>1, <1>3, <1>4
  <2> QED BY ONLY <2>1
<1>6. PICK m \in S : x = n - m
  BY DEF T
<1>7. \A k \in S : k <= m
  <2> SUFFICES ASSUME NEW k \in S PROVE k <= m
    OBVIOUS
  <2>1. n - m <= n - k
    BY <1>5, <1>6 DEF T
  <2>2. k \in Int /\ m \in Int
    BY <1>0
  <2> QED BY ONLY <2>1, <2>2, n \in Nat
<1>8. S \subseteq Int
  BY <1>0
<1>9. Greatest(S) = m
  BY <1>7, <1>8, GreatestIs
<1> QED BY <1>9

-----------------------------------------------------------------------------
(* Sequences of names.                                                     *)

\* The literals are strings; they are listed because the provers do not know it.
Name  == STRING \cup {".", "/", "tmp", "tjlsp", "private", "usr", "main"}
Names == Seq(Name)

LEMMA TailFacts ==
  ASSUME NEW p \in Names, NEW n \in Nat, n <= Len(p)
  PROVE  /\ Without(p, n) \in Names /\ Len(Without(p, n)) = Len(p) - n
         /\ \A i \in 1 .. Len(p) - n : Without(p, n)[i] = p[n + i]
<1>1. \A i \in n + 1 .. Len(p) : p[i] \in Name
  BY ElementOfSeq DEF Names
<1>2. Len(p) \in Nat
  BY DEF Names
<1> QED BY <1>1, <1>2, SubSeqProperties DEF Without, Names

LEMMA HeadFacts ==
  ASSUME NEW p \in Names, NEW n \in Nat, n <= Len(p)
  PROVE  /\ SubSeq(p, 1, n) \in Names /\ Len(SubSeq(p, 1, n)) = n
         /\ \A i \in 1 .. n : SubSeq(p, 1, n)[i] = p[i]
<1>1. \A i \in 1 .. n : p[i] \in Name
  BY ElementOfSeq DEF Names
<1> QED BY <1>1, SubSeqProperties DEF Names

\* A path below a directory starts with it, and is what remains without it.
LEMMA Below ==
  ASSUME NEW dir \in Names, NEW rel \in Names, rel # <<>>
  PROVE  /\ dir \o rel \in Names /\ StartsWith(dir \o rel, dir)
         /\ Without(dir \o rel, Len(dir)) = rel
<1> DEFINE p == dir \o rel
<1>1. Len(dir) \in Nat /\ Len(rel) \in Nat /\ Len(rel) > 0
  BY DEF Names
<1>2. /\ p \in Names /\ Len(p) = Len(dir) + Len(rel)
      /\ \A i \in 1 .. Len(dir) + Len(rel) : p[i] = IF i <= Len(dir) THEN dir[i] ELSE rel[i - Len(dir)]
  BY ConcatProperties DEF Names
<1> HIDE DEF p
<1>3. SubSeq(p, 1, Len(dir)) = dir
  <2>1. /\ SubSeq(p, 1, Len(dir)) \in Names /\ Len(SubSeq(p, 1, Len(dir))) = Len(dir)
        /\ \A i \in 1 .. Len(dir) : SubSeq(p, 1, Len(dir))[i] = p[i]
    BY <1>1, <1>2, HeadFacts
  <2>2. \A i \in 1 .. Len(dir) : p[i] = dir[i]
    BY <1>1, <1>2
  <2> QED BY <2>1, <2>2, SeqEqual DEF Names
<1>4. Without(p, Len(dir)) = rel
  <2>1. /\ Without(p, Len(dir)) \in Names /\ Len(Without(p, Len(dir))) = Len(rel)
        /\ \A i \in 1 .. Len(rel) : Without(p, Len(dir))[i] = p[Len(dir) + i]
    <3>1. Len(dir) <= Len(p) /\ Len(p) - Len(dir) = Len(rel)
      BY ONLY <1>1, <1>2
    <3>2. /\ Without(p, Len(dir)) \in Names /\ Len(Without(p, Len(dir))) = Len(p) - Len(dir)
          /\ \A i \in 1 .. Len(p) - Len(dir) : Without(p, Len(dir))[i] = p[Len(dir) + i]
      BY <1>1, <1>2, <3>1, TailFacts
    <3> QED BY <3>1, <3>2
  <2>2. \A i \in 1 .. Len(rel) : p[Len(dir) + i] = rel[i]
    BY <1>1, <1>2
  <2> QED BY <2>1, <2>2, SeqEqual DEF Names
<1>5. StartsWith(p, dir)
  BY <1>1, <1>2, <1>3 DEF StartsWith
<1> QED BY <1>2, <1>4, <1>5 DEF p

\* Leading "." components are skipped, one or none.
LEMMA NoDots ==
  ASSUME NEW rel \in Names, rel # <<>>, rel[1] # "."
  PROVE  SkipDots(rel) = rel
<1> DEFINE K == {n \in 0 .. Len(rel) : \A i \in 1 .. n : rel[i] = "."}
<1>1. Len(rel) \in Nat /\ Len(rel) > 0
  BY DEF Names
<1>2. 0 \in K /\ K \subseteq Int
  BY <1>1
<1>3. \A j \in K : j <= 0
  BY <1>1
<1>4. Greatest(K) = 0
  BY <1>2, <1>3, GreatestIs
<1>5. /\ Without(rel, 0) \in Names /\ Len(Without(rel, 0)) = Len(rel)
      /\ \A i \in 1 .. Len(rel) : Without(rel, 0)[i] = rel[i]
  BY <1>1, TailFacts
<1>6. Without(rel, 0) = rel
  BY <1>5, SeqEqual DEF Names
<1> QED BY <1>4, <1>6 DEF SkipDots

LEMMA OneDot ==
  ASSUME NEW rel \in Names, rel # <<>>, rel[1] # "."
  PROVE  <<".">> \o rel \in Names /\ SkipDots(<<".">> \o rel) = rel
<1> DEFINE p == <<".">> \o rel
           K == {n \in 0 .. Len(p) : \A i \in 1 .. n : p[i] = "."}
<1>0. Len(rel) \in Nat /\ Len(rel) > 0
  BY DEF Names
<1>1. <<".">> \in Names /\ Len(<<".">>) = 1
  BY DEF Names, Name
<1>2. /\ p \in Names /\ Len(p) = 1 + Len(rel) /\ p[1] = "." /\ p[2] = rel[1]
  BY <1>0, <1>1, ConcatProperties DEF Names
<1>3. Without(p, 1) = rel
  BY <1>1, Below
<1> HIDE DEF p
<1>4. 1 \in K /\ K \subseteq Int
  BY <1>0, <1>2
<1>5. \A j \in K : j <= 1
  <2> SUFFICES ASSUME NEW j \in K, j > 1 PROVE FALSE
    BY <1>4
  <2> QED BY <1>2
<1>6. Greatest(K) = 1
  BY <1>4, <1>5, GreatestIs
<1>7. SkipDots(p) = rel
  BY <1>3, <1>6 DEF SkipDots
<1> QED BY <1>2, <1>7 DEF p


-----------------------------------------------------------------------------
(* The members' paths below their common directory.                        *)

Members(M) == M \subseteq Docs /\ \A d \in M : PathOf[d] # <<>>

LEMMA PathFacts ==
  ASSUME PathsCanonical, NEW M, Members(M), NEW d \in M
  PROVE  /\ PathOf[d] \in Names /\ Len(PathOf[d]) \in Nat /\ Len(PathOf[d]) > 0
         /\ \A i \in 1 .. Len(PathOf[d]) : PathOf[d][i] \notin {".", "/"}
<1>1. d \in Docs /\ PathOf[d] \in Seq(STRING) /\ PathOf[d] # <<>>
  BY DEF PathsCanonical, Members
<1>2. PathOf[d] \in Names
  BY <1>1, SeqMonotonic DEF Names, Name
<1> QED BY <1>1, <1>2 DEF PathsCanonical, Names

Common(M) == common_dir_len({PathOf[e] : e \in M})

\* The common directory is a proper prefix of every member's path, the same for
\* all of them.
LEMMA CommonFacts ==
  ASSUME PathsCanonical, NEW M, Members(M), M # {}
  PROVE  /\ Common(M) \in Nat
         /\ \A d \in M : Common(M) < Len(PathOf[d])
         /\ \A d, e \in M : \A i \in 1 .. Common(M) : PathOf[d][i] = PathOf[e][i]
<1> DEFINE P == {PathOf[e] : e \in M}
           p == CHOOSE q \in P : TRUE
           K == {k \in 0 .. Len(p) - 1 : \A q \in P : k < Len(q) /\ SubSeq(q, 1, k) = SubSeq(p, 1, k)}
           c == Greatest(K)
<1>1. p \in P
  OBVIOUS
<1>2. \A q \in P : q \in Names /\ Len(q) \in Nat /\ Len(q) > 0
  BY PathFacts
<1>3. Common(M) = c
  BY DEF Common, common_dir_len
<1> HIDE DEF P, p
<1>4. 0 \in K
  <2>1. \A q \in P : SubSeq(q, 1, 0) = <<>>
    BY SubSeqEmpty
  <2> QED BY <1>1, <1>2, <2>1
<1>5. K \subseteq 0 .. Len(p) - 1 /\ Len(p) - 1 \in Nat
  BY <1>1, <1>2
<1> HIDE DEF c
<1>6. c \in K
  <2>1. K # {}
    BY <1>4
  <2> HIDE DEF K
  <2> QED BY <1>5, <2>1, GreatestExists DEF c
<1>7. c \in Nat /\ \A q \in P : c < Len(q) /\ SubSeq(q, 1, c) = SubSeq(p, 1, c)
  BY <1>5, <1>6
<1>8. \A q \in P : \A i \in 1 .. c : q[i] = p[i]
  <2> SUFFICES ASSUME NEW q \in P, NEW i \in 1 .. c PROVE q[i] = p[i]
    OBVIOUS
  <2>1. c <= Len(q) /\ c <= Len(p)
    BY <1>1, <1>2, <1>7
  <2>2. SubSeq(q, 1, c)[i] = q[i] /\ SubSeq(p, 1, c)[i] = p[i]
    BY <1>1, <1>2, <1>7, <2>1, HeadFacts
  <2> QED BY <1>7, <2>2
<1>9. \A d \in M : PathOf[d] \in P
  BY DEF P
<1> HIDE DEF K
<1> QED BY <1>3, <1>7, <1>8, <1>9

\* Every member gets a name of its own in the staging directory, and no name
\* starts with a component that SkipDots would remove.
LEMMA RelpathFacts ==
  ASSUME PathsCanonical, NEW M, Members(M), NEW d \in M
  PROVE  /\ relpath(d, M) \in Names /\ relpath(d, M) # <<>>
         /\ relpath(d, M)[1] \notin {".", "/"}
<1>1. PathOf[d] \in Names /\ Common(M) \in Nat /\ Len(PathOf[d]) \in Nat /\ Common(M) < Len(PathOf[d])
  BY PathFacts, CommonFacts
<1>2. relpath(d, M) = Without(PathOf[d], Common(M))
  BY DEF relpath, Without, Common
<1>3. /\ relpath(d, M) \in Names /\ Len(relpath(d, M)) = Len(PathOf[d]) - Common(M)
      /\ relpath(d, M)[1] = PathOf[d][Common(M) + 1]
  <2>1. Common(M) <= Len(PathOf[d]) /\ 1 \in 1 .. Len(PathOf[d]) - Common(M)
    BY ONLY <1>1
  <2> QED BY <1>1, <1>2, <2>1, TailFacts
<1>4. Common(M) + 1 \in 1 .. Len(PathOf[d]) /\ Len(PathOf[d]) - Common(M) # 0
  BY ONLY <1>1
<1>5. relpath(d, M) # <<>>
  BY <1>3, <1>4 DEF Names
<1> QED BY <1>3, <1>4, <1>5, PathFacts

LEMMA RelpathsDistinct ==
  ASSUME PathsCanonical, NEW M, Members(M), NEW d \in M, NEW e \in M, relpath(d, M) = relpath(e, M)
  PROVE  d = e
<1> DEFINE c == Common(M)
<1>1. c \in Nat /\ c < Len(PathOf[d]) /\ c < Len(PathOf[e])
      /\ \A i \in 1 .. c : PathOf[d][i] = PathOf[e][i]
  BY CommonFacts
<1>2. PathOf[d] \in Names /\ PathOf[e] \in Names /\ Len(PathOf[d]) \in Nat /\ Len(PathOf[e]) \in Nat
  BY PathFacts
<1>3. Without(PathOf[d], c) = Without(PathOf[e], c)
  BY DEF relpath, Without, Common
<1> HIDE DEF c
<1>4. c <= Len(PathOf[d]) /\ c <= Len(PathOf[e])
  BY ONLY <1>1, <1>2
<1>5. /\ Len(Without(PathOf[d], c)) = Len(PathOf[d]) - c
      /\ \A i \in 1 .. Len(PathOf[d]) - c : Without(PathOf[d], c)[i] = PathOf[d][c + i]
  BY <1>1, <1>2, <1>4, TailFacts
<1>6. /\ Len(Without(PathOf[e], c)) = Len(PathOf[e]) - c
      /\ \A i \in 1 .. Len(PathOf[e]) - c : Without(PathOf[e], c)[i] = PathOf[e][c + i]
  BY <1>1, <1>2, <1>4, TailFacts
<1>7. Len(PathOf[d]) = Len(PathOf[e])
  <2>1. Len(PathOf[d]) - c = Len(PathOf[e]) - c
    BY <1>3, <1>5, <1>6
  <2> QED BY ONLY <1>1, <1>2, <2>1
<1>8. \A i \in 1 .. Len(PathOf[d]) : PathOf[d][i] = PathOf[e][i]
  <2> SUFFICES ASSUME NEW i \in 1 .. Len(PathOf[d]) PROVE PathOf[d][i] = PathOf[e][i]
    OBVIOUS
  <2>1. CASE i <= c
    BY <1>1, <2>1
  <2>2. CASE i > c
    <3> DEFINE k == i - c
    <3>1. k \in 1 .. Len(PathOf[d]) - c /\ k \in 1 .. Len(PathOf[e]) - c /\ c + k = i
      BY ONLY <1>1, <1>2, <1>7, <2>2, i \in 1 .. Len(PathOf[d])
    <3> HIDE DEF k
    <3>2. Without(PathOf[d], c)[k] = PathOf[d][i] /\ Without(PathOf[e], c)[k] = PathOf[e][i]
      BY <1>5, <1>6, <3>1
    <3> QED BY <1>3, <3>2
  <2> QED BY <1>1, <2>1, <2>2
<1>9. PathOf[d] = PathOf[e]
  BY <1>2, <1>7, <1>8, SeqEqual DEF Names
<1> QED BY <1>9 DEF PathsCanonical, Members

-----------------------------------------------------------------------------
(* The way back: from what tj3 writes to the document.                     *)

StagingPaths == Members(members) /\ real \in {<<>>, RealTmp}

\* What map_reported_path() compares with the members' names.
Reported(p) ==
  IF ~p.abs THEN p.comps
  ELSE IF StartsWith(p.comps, TmpDir) THEN Without(p.comps, Len(TmpDir))
  ELSE IF real # <<>> /\ StartsWith(p.comps, real) THEN Without(p.comps, Len(real))
  ELSE <<"/">> \o p.comps

LEMMA MapDef ==
  ASSUME NEW p
  PROVE  map_reported_path(p) = {d \in members : relpath(d, members) = SkipDots(Reported(p))}
BY DEF map_reported_path, Reported

LEMMA DirFacts ==
  /\ TmpDir \in Names /\ RealTmp \in Names /\ Len(TmpDir) = 2 /\ Len(RealTmp) = 3
  /\ TmpDir[1] = "tmp" /\ RealTmp[1] = "private" /\ RealTmp # <<>>
BY DEF TmpDir, RealTmp, Names, Name

\* A path below the canonical directory is not below the one tj3 was given.
LEMMA RealIsElsewhere ==
  ASSUME NEW rel \in Names
  PROVE  ~StartsWith(RealTmp \o rel, TmpDir)
<1> DEFINE p == RealTmp \o rel
<1>1. p \in Names /\ Len(p) = 3 + Len(rel) /\ Len(rel) \in Nat /\ p[1] = "private"
  <2>1. Len(rel) \in Nat
    BY DEF Names
  <2>2. /\ p \in Names /\ Len(p) = 3 + Len(rel)
        /\ \A i \in 1 .. 3 + Len(rel) : p[i] = IF i <= 3 THEN RealTmp[i] ELSE rel[i - 3]
    <3>1. RealTmp \in Names /\ Len(RealTmp) = 3
      BY DirFacts
    <3>2. /\ p \in Names /\ Len(p) = Len(RealTmp) + Len(rel)
          /\ \A i \in 1 .. Len(RealTmp) + Len(rel) :
               p[i] = IF i <= Len(RealTmp) THEN RealTmp[i] ELSE rel[i - Len(RealTmp)]
      BY <3>1, ConcatProperties DEF Names
    <3> QED BY <3>1, <3>2
  <2>3. 1 \in 1 .. 3 + Len(rel)
    BY ONLY <2>1
  <2> QED BY <2>1, <2>2, <2>3, DirFacts
<1> HIDE DEF p
<1>2. SubSeq(p, 1, 2)[1] = "private"
  BY <1>1, HeadFacts
<1> QED BY <1>2, DirFacts DEF StartsWith, p

\* However tj3 writes the path of a staged file, with a leading ".", absolute,
\* or through the link by which the directory is reached, it names that file.
LEMMA ReportedIsName ==
  ASSUME PathsCanonical, StagingPaths, NEW d \in members, NEW p \in Written(relpath(d, members))
  PROVE  SkipDots(Reported(p)) = relpath(d, members)
<1> DEFINE rel == relpath(d, members)
<1>1. rel \in Names /\ rel # <<>> /\ rel[1] \notin {".", "/"}
  BY RelpathFacts DEF StagingPaths
<1>2. \/ p = [abs |-> FALSE, comps |-> rel] \/ p = [abs |-> FALSE, comps |-> <<".">> \o rel]
      \/ p = [abs |-> TRUE, comps |-> TmpDir \o rel] \/ p = [abs |-> TRUE, comps |-> TmpDir \o <<".">> \o rel]
      \/ real # <<>> /\ p = [abs |-> TRUE, comps |-> RealTmp \o rel]
  BY DEF Written
<1> HIDE DEF rel
<1>3. <<".">> \o rel \in Names /\ SkipDots(<<".">> \o rel) = rel /\ SkipDots(rel) = rel
  BY <1>1, NoDots, OneDot
<1>4. CASE p = [abs |-> FALSE, comps |-> rel]
  BY <1>3, <1>4 DEF Reported, rel
<1>5. CASE p = [abs |-> FALSE, comps |-> <<".">> \o rel]
  BY <1>3, <1>5 DEF Reported, rel
<1>6. CASE p = [abs |-> TRUE, comps |-> TmpDir \o rel]
  <2>1. StartsWith(TmpDir \o rel, TmpDir) /\ Without(TmpDir \o rel, Len(TmpDir)) = rel
    BY <1>1, DirFacts, Below
  <2>2. Reported(p) = rel
    BY <1>6, <2>1 DEF Reported
  <2> QED BY <1>3, <2>2 DEF rel
<1>7. CASE p = [abs |-> TRUE, comps |-> TmpDir \o <<".">> \o rel]
  <2> DEFINE dotted == <<".">> \o rel
  <2>1. TmpDir \o <<".">> \o rel = TmpDir \o dotted
    <3>1. <<".">> \in Names
      BY DEF Names, Name
    <3> QED BY <1>1, <3>1, DirFacts, ConcatAssociative DEF Names
  <2>2. dotted # <<>>
    <3>1. Len(dotted) = 1 + Len(rel) /\ Len(rel) \in Nat
      BY <1>1 DEF Names
    <3> QED BY <3>1, <1>3 DEF Names
  <2>3. StartsWith(TmpDir \o dotted, TmpDir) /\ Without(TmpDir \o dotted, Len(TmpDir)) = dotted
    BY <1>3, <2>2, DirFacts, Below
  <2>4. Reported(p) = dotted
    BY <1>7, <2>1, <2>3 DEF Reported
  <2> QED BY <1>3, <2>4 DEF rel
<1>8. CASE real # <<>> /\ p = [abs |-> TRUE, comps |-> RealTmp \o rel]
  <2>1. real = RealTmp
    BY <1>8 DEF StagingPaths
  <2>2. StartsWith(RealTmp \o rel, RealTmp) /\ Without(RealTmp \o rel, Len(RealTmp)) = rel
    BY <1>1, DirFacts, Below
  <2>3. Reported(p) = rel
    BY <1>1, <1>8, <2>1, <2>2, RealIsElsewhere DEF Reported
  <2> QED BY <1>3, <2>3 DEF rel
<1> QED BY <1>2, <1>4, <1>5, <1>6, <1>7, <1>8

LEMMA MapsBack ==
  ASSUME PathsCanonical, StagingPaths, NEW d \in members, NEW p \in Written(relpath(d, members))
  PROVE  map_reported_path(p) = {d}
<1>1. map_reported_path(p) = {e \in members : relpath(e, members) = relpath(d, members)}
  BY MapDef, ReportedIsName
<1>2. \A e \in members : relpath(e, members) = relpath(d, members) => e = d
  BY RelpathsDistinct DEF StagingPaths
<1> QED BY <1>1, <1>2

\* A file outside the staging directory is no member.
LEMMA OutsideIsNobody ==
  ASSUME PathsCanonical, StagingPaths
  PROVE  map_reported_path([abs |-> TRUE, comps |-> <<"usr", "main">>]) = {}
<1> DEFINE p == [abs |-> TRUE, comps |-> <<"usr", "main">>]
           q == <<"/", "usr", "main">>
<1>1. <<"usr", "main">> \in Names /\ Len(<<"usr", "main">>) = 2 /\ <<"usr", "main">>[1] = "usr"
  BY DEF Names, Name
<1>2. ~StartsWith(<<"usr", "main">>, TmpDir) /\ ~StartsWith(<<"usr", "main">>, RealTmp)
  <2>1. Len(TmpDir) = 2 /\ Len(RealTmp) = 3
    BY DirFacts
  <2> QED BY <1>1, <2>1 DEF StartsWith
<1>3. Reported(p) = <<"/">> \o <<"usr", "main">>
  BY <1>2 DEF Reported, StagingPaths
<1>4. Reported(p) = q /\ q \in Names /\ q # <<>> /\ q[1] = "/"
  <2>2. q \in Names /\ Len(q) = 3 /\ q[1] = "/" /\ q[2] = "usr" /\ q[3] = "main"
    BY DEF Names, Name
  <2>1. <<"/">> \o <<"usr", "main">> = q
    <3> DEFINE a == <<"/">>  b == <<"usr", "main">>
    <3>1. a \in Names /\ Len(a) = 1 /\ a[1] = "/" /\ b[1] = "usr" /\ b[2] = "main"
      BY DEF Names, Name
    <3> HIDE DEF q, a
    <3>2. /\ a \o b \in Names /\ Len(a \o b) = 1 + 2
          /\ \A i \in 1 .. 1 + 2 : (a \o b)[i] = IF i <= 1 THEN a[i] ELSE b[i - 1]
      BY <1>1, <3>1, ConcatProperties DEF Names
    <3> HIDE DEF b
    <3>3. (a \o b)[1] = "/" /\ (a \o b)[2] = "usr" /\ (a \o b)[3] = "main"
      BY <3>1, <3>2
    <3>4. Len(a \o b) = Len(q) /\ \A i \in 1 .. Len(a \o b) : (a \o b)[i] = q[i]
      BY <2>2, <3>2, <3>3
    <3>5. a \o b = q
      BY <2>2, <3>2, <3>4, SeqEqual DEF Names
    <3> QED BY <3>5 DEF a, b
  <2> QED BY <1>3, <2>1, <2>2
<1>5. SkipDots(q) = q
  BY <1>4, NoDots
<1>6. \A e \in members : relpath(e, members)[1] # "/"
  BY RelpathFacts DEF StagingPaths
<1>7. \A e \in members : relpath(e, members) # q
  BY <1>4, <1>6
<1> QED BY <1>4, <1>5, <1>7, MapDef

-----------------------------------------------------------------------------
(* Lines of stderr.                                                        *)

\* A line of the form <path>:<number>: <severity>: <message>.
Placed(atoms, n, sev) ==
  /\ n \in Nat /\ n >= 4 /\ DOMAIN atoms = 1 .. n
  /\ atoms[1].kind = "path" /\ atoms[2].kind = ":" /\ atoms[3].kind = "number"
  /\ atoms[4].kind = sev /\ sev \in {"Error", "Warning"}
  /\ \A i \in 5 .. n : atoms[i].kind # "Error"

\* Its marker is the first one after the number, also when the message holds
\* further markers or colons.
LEMMA ParsePlaced ==
  ASSUME NEW atoms, NEW n, NEW sev, Placed(atoms, n, sev)
  PROVE  parse_diagnostic_line(atoms) =
           {[doc |-> d, line |-> IF atoms[3].n > 0 THEN atoms[3].n - 1 ELSE 0, severity |-> sev]
              : d \in map_reported_path(atoms[1].path)}
<1> DEFINE errors == Positions(atoms, {"Error"})
           found  == IF errors # {} THEN errors ELSE Positions(atoms, {"Warning"})
           marker == Least(found)
           colons == {i \in Positions(atoms, {":", "Error", "Warning"}) : i < marker}
           colon  == Greatest(colons)
<1>1. n \in Nat /\ n >= 4 /\ DOMAIN atoms = 1 .. n
  BY DEF Placed
<1>2. 4 \in found /\ found \subseteq Int /\ \A j \in found : 4 <= j
  <2>1. CASE sev = "Error"
    BY <1>1, <2>1 DEF Positions, Placed
  <2>2. CASE sev = "Warning"
    <3>1. errors = {}
      <4> SUFFICES ASSUME NEW i \in 1 .. n, atoms[i].kind = "Error" PROVE FALSE
        BY <1>1 DEF Positions
      <4>1. i = 1 \/ i = 2 \/ i = 3 \/ i = 4 \/ i \in 5 .. n
        BY ONLY <1>1, i \in 1 .. n
      <4> QED BY <4>1, <2>2 DEF Placed
    <3>2. found = Positions(atoms, {"Warning"})
      BY <3>1
    <3>3. 4 \in Positions(atoms, {"Warning"})
      BY <1>1, <2>2 DEF Positions, Placed
    <3>4. \A j \in Positions(atoms, {"Warning"}) : j \in Int /\ 4 <= j
      <4> SUFFICES ASSUME NEW j \in 1 .. n, atoms[j].kind = "Warning" PROVE j \in Int /\ 4 <= j
        BY <1>1 DEF Positions
      <4>1. j # 1 /\ j # 2 /\ j # 3
        BY DEF Placed
      <4> QED BY ONLY <1>1, <4>1, j \in 1 .. n
    <3> QED BY <3>2, <3>3, <3>4
  <2> QED BY <2>1, <2>2 DEF Placed
<1> HIDE DEF found
<1>3. marker = 4
  BY <1>2, LeastIs
<1>4. 2 \in colons /\ \A i \in colons : i = 2
  <2>1. 2 \in colons
    BY <1>1, <1>3 DEF Positions, Placed
  <2> SUFFICES ASSUME NEW i \in 1 .. n, i < 4, atoms[i].kind \in {":", "Error", "Warning"} PROVE i = 2
    BY <1>1, <1>3, <2>1 DEF Positions
  <2>2. i # 1 /\ i # 3
    BY DEF Placed
  <2> QED BY ONLY <1>1, <2>2, i \in 1 .. n, i < 4
<1> HIDE DEF marker, colons
<1>5. colon = 2
  BY <1>4, GreatestIs
<1> HIDE DEF colon
<1>6. /\ ~(found = {} \/ colons = {})
      /\ ~(\/ atoms[colon].kind # ":" \/ marker # colon + 2 \/ atoms[colon + 1].kind # "number"
           \/ colon # 2 \/ atoms[1].kind # "path")
  BY <1>2, <1>3, <1>4, <1>5 DEF Placed
<1>7. colon + 1 = 3 /\ atoms[marker].kind = sev
  BY <1>3, <1>5 DEF Placed
<1>8. parse_diagnostic_line(atoms) =
        IF found = {} \/ colons = {} THEN {}
        ELSE IF atoms[colon].kind # ":" \/ marker # colon + 2 \/ atoms[colon + 1].kind # "number"
                \/ colon # 2 \/ atoms[1].kind # "path" THEN {}
        ELSE {[doc |-> d, line |-> IF atoms[colon + 1].n > 0 THEN atoms[colon + 1].n - 1 ELSE 0,
               severity |-> atoms[marker].kind] : d \in map_reported_path(atoms[1].path)}
  BY DEF parse_diagnostic_line, colon, colons, marker, found
<1>9. parse_diagnostic_line(atoms) =
        {[doc |-> d, line |-> IF atoms[colon + 1].n > 0 THEN atoms[colon + 1].n - 1 ELSE 0,
          severity |-> atoms[marker].kind] : d \in map_reported_path(atoms[1].path)}
  BY <1>6, <1>8
<1> QED BY <1>7, <1>9

\* The diagnostics of a line that tj3 may write are what it says.
Faithful(line) == parse_diagnostic_line(line.atoms) = line.truth

LEMMA PlacedFaithful ==
  ASSUME PathsCanonical, MessagesPlain, StagingPaths, staged \subseteq members, NEW line \in PlacedLines
  PROVE  Faithful(line)
<1>0. PICK d \in staged : line \in
        {PlacedLine(d, p, n, sev, msg) : p \in Written(relpath(d, members)), n \in LineNos,
                                         sev \in {"Error", "Warning"}, msg \in Messages}
  BY DEF PlacedLines
<1>1. PICK p \in Written(relpath(d, members)), n \in LineNos,
           sev \in {"Error", "Warning"}, msg \in Messages : line = PlacedLine(d, p, n, sev, msg)
  BY <1>0
<1>2. PICK M : msg \in Seq(M)
  BY DEF MessagesPlain
<1> DEFINE A1 == [kind |-> "path", path |-> p]
           A3 == [kind |-> "number", n |-> n]
           front == <<A1, Atom(":"), A3, Atom(sev)>>
           S == {A1, Atom(":"), A3, Atom(sev)} \cup M
           a == front \o msg
<1>3. front \in Seq(S) /\ Len(front) = 4
  OBVIOUS
<1>4. msg \in Seq(S)
  <2>1. M \subseteq S
    OBVIOUS
  <2> QED BY <1>2, <2>1, SeqMonotonic
<1>5. front[1] = A1 /\ front[2] = Atom(":") /\ front[3] = A3 /\ front[4] = Atom(sev)
  OBVIOUS
<1>6. A1.kind = "path" /\ A1.path = p /\ A3.kind = "number" /\ A3.n = n /\ Atom(":").kind = ":" /\ Atom(sev).kind = sev
  BY DEF Atom
<1> HIDE DEF S, front, A1, A3
<1>7. /\ a \in Seq(S) /\ Len(a) = Len(front) + Len(msg)
      /\ \A i \in 1 .. Len(front) + Len(msg) : a[i] = IF i <= Len(front) THEN front[i] ELSE msg[i - Len(front)]
  BY <1>3, <1>4, ConcatProperties
<1> HIDE DEF a
<1>8. Len(msg) \in Nat /\ \A i \in 1 .. Len(msg) : msg[i].kind # "Error"
  BY <1>2 DEF MessagesPlain
<1> DEFINE len == 4 + Len(msg)
<1>9. len \in Nat /\ len >= 4 /\ DOMAIN a = 1 .. len
  BY <1>3, <1>7, <1>8
<1>10. a[1] = A1 /\ a[2] = Atom(":") /\ a[3] = A3 /\ a[4] = Atom(sev)
  BY <1>3, <1>5, <1>7, <1>8
<1>11. \A i \in 5 .. len : a[i].kind # "Error"
  <2> SUFFICES ASSUME NEW i \in 5 .. len PROVE a[i].kind # "Error"
    OBVIOUS
  <2>1. i \in 1 .. Len(front) + Len(msg) /\ ~(i <= Len(front)) /\ i - Len(front) \in 1 .. Len(msg)
    BY <1>3, <1>8
  <2>2. a[i] = msg[i - Len(front)]
    BY <1>7, <2>1
  <2> QED BY <1>8, <2>1, <2>2
<1>12. Placed(a, len, sev)
  BY <1>6, <1>9, <1>10, <1>11 DEF Placed
<1>13. parse_diagnostic_line(a) =
         {[doc |-> e, line |-> IF n > 0 THEN n - 1 ELSE 0, severity |-> sev] : e \in map_reported_path(p)}
  BY <1>6, <1>10, <1>12, ParsePlaced
<1>14. map_reported_path(p) = {d}
  BY MapsBack
<1>15. (IF n > 0 THEN n - 1 ELSE 0) = (IF n = 0 THEN 0 ELSE n - 1)
  BY DEF MessagesPlain
<1>16. parse_diagnostic_line(a) = {[doc |-> d, line |-> IF n = 0 THEN 0 ELSE n - 1, severity |-> sev]}
  BY <1>13, <1>14, <1>15
<1>17. line.atoms = a /\ line.truth = {[doc |-> d, line |-> IF n = 0 THEN 0 ELSE n - 1, severity |-> sev]}
  BY <1>1 DEF PlacedLine, a, front, A1, A3
<1> QED BY <1>16, <1>17 DEF Faithful

\* A line without a marker, or without a colon before it, is skipped.
LEMMA ParseSkips ==
  ASSUME NEW atoms, NEW found, NEW marker,
         found = IF Positions(atoms, {"Error"}) # {} THEN Positions(atoms, {"Error"})
                 ELSE Positions(atoms, {"Warning"}),
         marker = Least(found),
         \/ found = {}
         \/ {i \in Positions(atoms, {":", "Error", "Warning"}) : i < marker} = {}
  PROVE  parse_diagnostic_line(atoms) = {}
BY DEF parse_diagnostic_line

LEMMA OtherFaithful ==
  ASSUME PathsCanonical, StagingPaths, NEW line \in OtherLines
  PROVE  Faithful(line)
<1> DEFINE main == [kind |-> "path", path |-> [abs |-> FALSE, comps |-> <<"main">>]]
           other == [abs |-> TRUE, comps |-> <<"usr", "main">>]
           usr == [kind |-> "path", path |-> other]
           a1 == <<main, Atom("Error"), Atom("text")>>
           a2 == <<usr, Atom(":"), [kind |-> "number", n |-> 1], Atom("Error"), Atom("text")>>
           a3 == <<Atom("text")>>
<1>1. line.truth = {} /\ (line.atoms = a1 \/ line.atoms = a2 \/ line.atoms = a3)
  <2>1. OtherLines = {[atoms |-> a, truth |-> {}] : a \in {a1, a2, a3}}
    BY Zenon DEF OtherLines
  <2> HIDE DEF a1, a2, a3
  <2>2. PICK a \in {a1, a2, a3} : line = [atoms |-> a, truth |-> {}]
    BY <2>1
  <2> QED BY <2>2
<1>2. parse_diagnostic_line(a1) = {}
  <2>1. DOMAIN a1 = 1 .. 3 /\ a1[1].kind = "path" /\ a1[2].kind = "Error" /\ a1[3].kind = "text"
    BY DEF Atom
  <2> HIDE DEF a1
  <2>2. Positions(a1, {"Error"}) = {2}
    BY <2>1 DEF Positions
  <2>3. Least({2}) = 2
    BY LeastIs
  <2>4. {i \in Positions(a1, {":", "Error", "Warning"}) : i < 2} = {}
    BY <2>1 DEF Positions
  <2> QED BY <2>2, <2>3, <2>4, ParseSkips
<1>3. parse_diagnostic_line(a2) = {}
  <2>1. /\ DOMAIN a2 = 1 .. 5 /\ a2[1] = usr /\ a2[2].kind = ":" /\ a2[3].kind = "number"
        /\ a2[4].kind = "Error" /\ a2[5].kind = "text"
    BY DEF Atom
  <2>2. usr.kind = "path" /\ usr.path = other
    OBVIOUS
  <2> HIDE DEF a2, usr, other
  <2>3. Placed(a2, 5, "Error")
    BY <2>1, <2>2 DEF Placed
  <2>4. map_reported_path(other) = {}
    BY OutsideIsNobody DEF other
  <2>5. map_reported_path(a2[1].path) = {}
    BY <2>1, <2>2, <2>4
  <2> QED BY <2>3, <2>5, ParsePlaced
<1>4. parse_diagnostic_line(a3) = {}
  <2>1. DOMAIN a3 = 1 .. 1 /\ a3[1].kind = "text"
    BY DEF Atom
  <2> HIDE DEF a3
  <2>2. Positions(a3, {"Error"}) = {} /\ Positions(a3, {"Warning"}) = {}
    BY <2>1 DEF Positions
  <2> QED BY <2>2, ParseSkips
<1> HIDE DEF a1, a2, a3
<1> QED BY <1>1, <1>2, <1>3, <1>4 DEF Faithful

\* What a line means depends on the members and the directory only.
LEMMA FaithfulStays ==
  ASSUME UNCHANGED <<members, real>>, NEW line, Faithful(line)
  PROVE  Faithful(line)'
BY DEF Faithful, parse_diagnostic_line, map_reported_path

-----------------------------------------------------------------------------
(* The run.                                                                *)

\* The lines are a sequence (of whatever lines tj3 wrote).
LinesSeq == \E S : lines \in Seq(S)

\* Until the output is read nothing is collected; each line of a running tj3 means
\* what the code will make of it.
LinesPending ==
  /\ phase \in {"idle", "staged"} => lines = <<>> /\ out = {}
  /\ phase = "running" => \A i \in 1 .. Len(lines) : Faithful(lines[i])

\* Reports are written by confined runs only.
Confinement == phase = "running" /\ child.reports => child.confined

StagingInv ==
  /\ phase \in {"idle", "staged", "running", "done"}
  /\ StagingPaths /\ staged \subseteq members /\ LinesSeq /\ LinesPending /\ Confinement
  /\ DiagnosticsFaithful /\ NothingStagedLeft /\ ReportsStayInside

\* No lines, no diagnostics.
LEMMA EmptyLines ==
  ASSUME NEW ls, ls = <<>>
  PROVE  (\E S : ls \in Seq(S)) /\ UNION {ls[i].truth : i \in DOMAIN ls} = {}
<1>1. ls \in Seq({})
  OBVIOUS
<1>2. DOMAIN ls = {}
  OBVIOUS
<1> QED BY <1>1, <1>2

LEMMA StagingInit == Init => StagingInv
<1> SUFFICES ASSUME Init PROVE StagingInv
  OBVIOUS
<1>1. LinesSeq
  BY EmptyLines DEF Init, LinesSeq
<1> QED BY <1>1 DEF Init, StagingInv, StagingPaths, Members, LinesPending, Confinement,
           DiagnosticsFaithful, NothingStagedLeft, ReportsStayInside

\* The documents of a project are gathered and written.
LEMMA StageStep ==
  ASSUME StagingInv, NEW docs \in SUBSET Docs, NEW root \in docs, NEW m, NEW written,
         NEW canonical \in BOOLEAN, Stage(docs, root, m, written, canonical)
  PROVE  StagingInv'
<1>1. /\ members' = {d \in docs : PathOf[d] # <<>>} /\ written \subseteq members'
      /\ lines' = <<>> /\ out' = {} /\ child' = Idle /\ escaped' = escaped
      /\ phase \in {"idle", "done"}
      /\ \/ /\ phase' = "staged" /\ tmp' = TRUE /\ staged' = written
            /\ real' = IF canonical THEN RealTmp ELSE <<>>
         \/ phase' = "done" /\ staged' = {} /\ real' = <<>> /\ tmp' = tmp
  BY DEF Stage
<1>2. Members(members)'
  BY <1>1 DEF Members
<1>3. real' \in {<<>>, RealTmp} /\ staged' \subseteq members' /\ phase' \in {"staged", "done"}
  BY <1>1
<1>4. LinesSeq' /\ UNION {lines'[i].truth : i \in DOMAIN lines'} = {}
  BY <1>1, EmptyLines DEF LinesSeq
<1>5. NothingStagedLeft'
  BY <1>1 DEF StagingInv, NothingStagedLeft
<1>6. DiagnosticsFaithful' /\ LinesPending' /\ Confinement'
  BY <1>1, <1>3, <1>4 DEF DiagnosticsFaithful, LinesPending, Confinement
<1> QED BY <1>1, <1>2, <1>3, <1>4, <1>5, <1>6 DEF StagingInv, StagingPaths, ReportsStayInside

\* tj3 starts, confined whenever it may write reports.
LEMMA LaunchStep ==
  ASSUME StagingInv, NEW confined \in BOOLEAN, Launch(confined) PROVE StagingInv'
<1>1. /\ phase = "staged" /\ phase' = "running" /\ lines' = lines /\ out' = out /\ members' = members
      /\ staged' = staged /\ real' = real /\ tmp' = tmp /\ escaped' = escaped
      /\ child' = [reports |-> confine, confined |-> confined] /\ confined = confine
  BY DEF Launch
<1>2. lines' = <<>> /\ Len(lines') = 0
  BY <1>1 DEF StagingInv, LinesPending
<1>3. LinesPending'
  BY <1>1, <1>2 DEF LinesPending
<1>4. Confinement'
  BY <1>1 DEF Confinement
<1> QED BY <1>1, <1>3, <1>4 DEF StagingInv, StagingPaths, Members, LinesSeq, DiagnosticsFaithful,
           NothingStagedLeft, ReportsStayInside

\* tj3 could not be started.
LEMMA NoRunStep == ASSUME StagingInv, NoRun PROVE StagingInv'
<1>1. /\ phase = "staged" /\ phase' = "done" /\ tmp' = FALSE /\ lines' = lines /\ out' = out
      /\ members' = members /\ staged' = staged /\ real' = real /\ escaped' = escaped
  BY DEF NoRun
<1>2. lines' = <<>> /\ out' = {}
  BY <1>1 DEF StagingInv, LinesPending
<1>3. LinesSeq' /\ UNION {lines'[i].truth : i \in DOMAIN lines'} = {}
  BY <1>2, EmptyLines DEF LinesSeq
<1> QED BY <1>1, <1>2, <1>3 DEF StagingInv, StagingPaths, Members, LinesPending, Confinement,
           DiagnosticsFaithful, NothingStagedLeft, ReportsStayInside

\* tj3 writes a line.
LEMMA ReportStep ==
  ASSUME PathsCanonical, MessagesPlain, StagingInv, NEW line \in PlacedLines \cup OtherLines, Report(line)
  PROVE  StagingInv'
<1>1. /\ phase = "running" /\ phase' = "running" /\ lines' = Append(lines, line) /\ members' = members
      /\ staged' = staged /\ real' = real /\ tmp' = tmp /\ child' = child /\ escaped' = escaped
  BY DEF Report
<1>2. Faithful(line)
  BY PlacedFaithful, OtherFaithful DEF StagingInv
<1>3. PICK S : lines \in Seq(S)
  BY DEF StagingInv, LinesSeq
<1>4. lines \in Seq(S \cup {line})
  BY <1>3, SeqMonotonic
<1>5. /\ lines' \in Seq(S \cup {line}) /\ Len(lines) \in Nat /\ Len(lines') = Len(lines) + 1
      /\ \A i \in 1 .. Len(lines) : lines'[i] = lines[i]
      /\ lines'[Len(lines) + 1] = line
  BY <1>1, <1>4, AppendProperties
<1>6. \A i \in 1 .. Len(lines') : Faithful(lines'[i])
  <2> SUFFICES ASSUME NEW i \in 1 .. Len(lines') PROVE Faithful(lines'[i])
    OBVIOUS
  <2>1. i \in 1 .. Len(lines) \/ i = Len(lines) + 1
    BY <1>5
  <2> QED BY <1>1, <1>2, <1>5, <2>1 DEF StagingInv, LinesPending
<1>7. LinesPending'
  BY <1>1, <1>6, FaithfulStays DEF LinesPending
<1>8. LinesSeq'
  BY <1>5 DEF LinesSeq
<1> QED BY <1>1, <1>7, <1>8 DEF StagingInv, StagingPaths, Members, Confinement, DiagnosticsFaithful,
           NothingStagedLeft, ReportsStayInside

\* tj3 writes a report.
LEMMA WriteReportStep ==
  ASSUME StagingInv, NEW inside \in BOOLEAN, WriteReport(inside) PROVE StagingInv'
<1>1. /\ phase = "running" /\ child.reports /\ (inside \/ ~child.confined)
      /\ escaped' = (escaped \/ ~inside) /\ phase' = phase /\ lines' = lines /\ out' = out
      /\ members' = members /\ staged' = staged /\ real' = real /\ tmp' = tmp /\ child' = child
  BY DEF WriteReport
<1>2. ~escaped'
  BY <1>1 DEF StagingInv, Confinement, ReportsStayInside
<1>3. LinesPending'
  BY <1>1, FaithfulStays DEF StagingInv, LinesPending
<1> QED BY <1>1, <1>2, <1>3 DEF StagingInv, StagingPaths, Members, LinesSeq, Confinement,
           DiagnosticsFaithful, NothingStagedLeft, ReportsStayInside

\* The output is parsed and the directory removed.
LEMMA FinishStep == ASSUME StagingInv, Finish PROVE StagingInv'
<1>1. /\ phase = "running" /\ phase' = "done" /\ out' = parse_diagnostics /\ tmp' = FALSE
      /\ lines' = lines /\ members' = members /\ staged' = staged /\ real' = real /\ escaped' = escaped
  BY DEF Finish
<1>2. \A i \in DOMAIN lines : parse_diagnostic_line(lines[i].atoms) = lines[i].truth
  <2>1. DOMAIN lines = 1 .. Len(lines)
    BY DEF StagingInv, LinesSeq
  <2> QED BY <1>1, <2>1 DEF StagingInv, LinesPending, Faithful
<1>3. parse_diagnostics = UNION {lines[i].truth : i \in DOMAIN lines}
  BY <1>2 DEF parse_diagnostics
<1>4. DiagnosticsFaithful'
  BY <1>1, <1>3 DEF DiagnosticsFaithful
<1> QED BY <1>1, <1>4 DEF StagingInv, StagingPaths, Members, LinesSeq, LinesPending, Confinement,
           NothingStagedLeft, ReportsStayInside

LEMMA StagingStep ==
  ASSUME PathsCanonical, MessagesPlain, StagingInv, [Next]_vars PROVE StagingInv'
<1>1. ASSUME UNCHANGED vars PROVE StagingInv'
  <2>1. LinesPending'
    BY <1>1, FaithfulStays DEF vars, StagingInv, LinesPending
  <2> QED BY <1>1, <2>1 DEF vars, StagingInv, StagingPaths, Members, LinesSeq, Confinement,
             DiagnosticsFaithful, NothingStagedLeft, ReportsStayInside
<1> QED BY <1>1, StageStep, LaunchStep, NoRunStep, ReportStep, WriteReportStep, FinishStep DEF Next

\* The members, their directory and the lines of a running tj3 fit together, for
\* any project with canonical paths.
THEOREM StagingInvariance ==
  ASSUME PathsCanonical, MessagesPlain PROVE Spec => []StagingInv
BY StagingInit, StagingStep, PTL DEF Spec

\* The diagnostics collected are those tj3 reported, each with its document, line
\* and severity: for any number of members in any directories, also of the same
\* name, and however tj3 writes their paths (parse_diagnostics, map_reported_path,
\* assign_member_relpaths).
THEOREM DiagnosticsFaithfulAlways ==
  ASSUME PathsCanonical, MessagesPlain PROVE Spec => []DiagnosticsFaithful
<1>1. StagingInv => DiagnosticsFaithful
  BY DEF StagingInv
<1> QED BY <1>1, StagingInvariance, PTL

\* tj3_collect_project() leaves no directory behind and no report outside it, on
\* every path through it (sandbox.c, remove_tree).
THEOREM StagingContained ==
  ASSUME PathsCanonical, MessagesPlain PROVE Spec => [](NothingStagedLeft /\ ReportsStayInside)
<1>1. StagingInv => NothingStagedLeft /\ ReportsStayInside
  BY DEF StagingInv
<1> QED BY <1>1, StagingInvariance, PTL
=============================================================================
