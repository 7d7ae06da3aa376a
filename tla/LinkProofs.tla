---------------------------- MODULE LinkProofs ----------------------------
(***************************************************************************)
(* RequirementsMet and OneBody for every set of source files, every order  *)
(* of them on the command line and every chain of DLLs. A manifest         *)
(* describes some source files: of a file its own, of a DLL the files that *)
(* were linked into it. A link that has met no error has gathered in its   *)
(* tables what the manifests it read say.                                  *)
(***************************************************************************)
EXTENDS Link, FiniteSetTheorems, TLAPS

-----------------------------------------------------------------------------
(* Sequences and their members. *)

IsSeq(s) == s \in Seq(Members(s))

LEMMA SeqIsSeq ==
  ASSUME NEW S, NEW s \in Seq(S)
  PROVE  /\ IsSeq(s) /\ Members(s) \subseteq S
         /\ DOMAIN s = 1..Len(s) /\ Len(s) \in Nat
<1>1. DOMAIN s = 1..Len(s) /\ Len(s) \in Nat /\ \A k \in 1..Len(s) : s[k] \in S
  OBVIOUS
<1>2. s = [k \in 1..Len(s) |-> s[k]]
  BY <1>1
<1>3. s \in [1..Len(s) -> Members(s)]
  BY <1>1, <1>2 DEF Members
<1>4. s \in Seq(Members(s))
  BY <1>1, <1>3
<1> QED
  BY <1>1, <1>4 DEF IsSeq, Members

LEMMA ConcatMembers ==
  ASSUME NEW s, NEW t, IsSeq(s), IsSeq(t)
  PROVE  IsSeq(s \o t) /\ Members(s \o t) = Members(s) \union Members(t)
<1> DEFINE S == Members(s) \union Members(t)
<1>1. s \in Seq(S) /\ t \in Seq(S)
  <2>1. s \in Seq(Members(s)) /\ t \in Seq(Members(t))
    BY DEF IsSeq
  <2>2. /\ Len(s) \in Nat /\ DOMAIN s = 1..Len(s) /\ \A k \in 1..Len(s) : s[k] \in S
        /\ Len(t) \in Nat /\ DOMAIN t = 1..Len(t) /\ \A k \in 1..Len(t) : t[k] \in S
    BY <2>1
  <2>3. s = [k \in 1..Len(s) |-> s[k]] /\ t = [k \in 1..Len(t) |-> t[k]]
    BY <2>1, <2>2
  <2> HIDE DEF S
  <2>4. s \in [1..Len(s) -> S] /\ t \in [1..Len(t) -> S]
    BY <2>2, <2>3
  <2> QED
    BY <2>2, <2>4
<1> HIDE DEF S
<1>2. /\ s \o t \in Seq(S) /\ Len(s \o t) = Len(s) + Len(t)
      /\ Len(s) \in Nat /\ Len(t) \in Nat
      /\ \A k \in 1..Len(s) : (s \o t)[k] = s[k]
      /\ \A k \in 1..Len(t) : (s \o t)[k + Len(s)] = t[k]
  BY <1>1
<1>3. Members(s) \subseteq Members(s \o t) /\ Members(t) \subseteq Members(s \o t)
  <2>1. ASSUME NEW k \in 1..Len(t) PROVE t[k] \in Members(s \o t)
    <3>1. k + Len(s) \in 1..Len(s \o t)
      BY <1>2
    <3> QED
      BY <1>2, <3>1 DEF Members
  <2>2. ASSUME NEW k \in 1..Len(s) PROVE s[k] \in Members(s \o t)
    <3>1. k \in 1..Len(s \o t)
      BY <1>2
    <3> QED
      BY <1>2, <3>1 DEF Members
  <2> QED
    BY <2>1, <2>2 DEF Members
<1>4. Members(s \o t) \subseteq S /\ IsSeq(s \o t)
  BY <1>2, SeqIsSeq, Zenon
<1> QED
  BY <1>3, <1>4 DEF S

LEMMA ConcatFour ==
  ASSUME NEW a, NEW b, NEW c, NEW d, IsSeq(a), IsSeq(b), IsSeq(c), IsSeq(d)
  PROVE  /\ IsSeq(a \o b \o c \o d)
         /\ Members(a \o b \o c \o d) = Members(a) \union Members(b) \union Members(c) \union Members(d)
<1>1. IsSeq(a \o b) /\ Members(a \o b) = Members(a) \union Members(b)
  BY ConcatMembers
<1>2. /\ IsSeq(a \o b \o c)
      /\ Members(a \o b \o c) = Members(a) \union Members(b) \union Members(c)
  BY <1>1, ConcatMembers
<1> QED
  BY <1>2, ConcatMembers

LEMMA OneMember ==
  ASSUME NEW e
  PROVE  IsSeq(<<e>>) /\ Members(<<e>>) = {e}
<1>1. <<e>> \in Seq({e}) /\ Len(<<e>>) = 1 /\ <<e>>[1] = e
  OBVIOUS
<1>2. IsSeq(<<e>>) /\ Members(<<e>>) \subseteq {e}
  BY <1>1, SeqIsSeq, Zenon
<1>3. e \in Members(<<e>>)
  BY <1>1 DEF Members
<1> QED
  BY <1>2, <1>3

LEMMA EmptyMembers == IsSeq(<<>>) /\ Members(<<>>) = {}
<1>1. \A S : <<>> \in Seq(S)
  OBVIOUS
<1>2. Len(<<>>) = 0
  OBVIOUS
<1>3. Members(<<>>) = {}
  BY <1>2 DEF Members
<1> QED
  BY <1>1, <1>3 DEF IsSeq

LEMMA PushMembers ==
  ASSUME NEW s, IsSeq(s), NEW e
  PROVE  IsSeq(<<e>> \o s) /\ Members(<<e>> \o s) = {e} \union Members(s)
BY OneMember, ConcatMembers

LEMMA TailMembers ==
  ASSUME NEW s, IsSeq(s), s # <<>>
  PROVE  IsSeq(Tail(s)) /\ Members(s) = {Head(s)} \union Members(Tail(s))
<1> DEFINE S == Members(s)
<1> HIDE DEF S
<1>1. s \in Seq(S)
  BY DEF IsSeq, S
<1>2. /\ Head(s) = s[1] /\ Tail(s) \in Seq(S) /\ Len(Tail(s)) = Len(s) - 1
      /\ Len(s) \in Nat /\ Len(s) # 0
      /\ \A k \in 1..Len(Tail(s)) : Tail(s)[k] = s[k + 1]
  BY <1>1
<1>3. ASSUME NEW k \in 1..Len(s), k # 1 PROVE s[k] \in Members(Tail(s))
  <2>1. k - 1 \in 1..Len(Tail(s)) /\ s[k] = Tail(s)[k - 1]
    BY <1>2, <1>3
  <2> QED
    BY <2>1 DEF Members
<1>4. s[1] \in Members(s)
  BY <1>2 DEF Members
<1>5. Members(Tail(s)) \subseteq Members(s)
  BY <1>2, SeqIsSeq, Zenon DEF S
<1>6. Members(s) \subseteq {Head(s)} \union Members(Tail(s))
  BY <1>2, <1>3 DEF Members
<1> QED
  BY <1>2, <1>4, <1>5, <1>6, SeqIsSeq, Zenon

LEMMA ListedMembers ==
  ASSUME NEW S, IsFiniteSet(S)
  PROVE  IsSeq(Listed(S)) /\ Members(Listed(S)) = S
<1> DEFINE n == Cardinality(S)
           Lists(f) == \A x \in S : \E k \in DOMAIN f : f[k] = x
<1>1. n \in Nat /\ ExistsBijection(1..n, S)
  BY FS_CardinalityType
<1>2. PICK g \in Bijection(1..n, S) : TRUE
  BY <1>1 DEF ExistsBijection
<1>3. g \in [1..n -> S] /\ Lists(g)
  BY <1>2 DEF Bijection, Surjection, Injection
<1>4. Listed(S) \in [1..n -> S] /\ Lists(Listed(S))
  BY <1>3, Zenon DEF Listed
<1> HIDE DEF n
<1>5. Listed(S) \in Seq(S) /\ Len(Listed(S)) = n
  BY <1>1, <1>4
<1>6. S \subseteq Members(Listed(S))
  BY <1>4, <1>5 DEF Members
<1> QED
  BY <1>5, <1>6, SeqIsSeq, Zenon

LEMMA MappedMembers ==
  ASSUME NEW n \in Nat, NEW S, NEW f \in [1..n -> S], \A x \in S : \E k \in 1..n : f[k] = x
  PROVE  IsSeq(f) /\ Members(f) = S
<1>1. f \in Seq(S) /\ Len(f) = n
  OBVIOUS
<1>2. S \subseteq Members(f)
  BY <1>1 DEF Members
<1> QED
  BY <1>1, <1>2, SeqIsSeq

LEMMA KeysAre ==
  ASSUME NEW s, IsSeq(s)
  PROVE  Keys(s) = {e[1] : e \in Members(s)}
<1>1. DOMAIN s = 1..Len(s)
  BY SeqIsSeq DEF IsSeq
<1> QED
  BY <1>1 DEF Keys, Members

(* List.assoc finds the first binding. *)
LEMMA FirstBinding ==
  ASSUME NEW s, IsSeq(s), NEW x, x \in Keys(s)
  PROVE  LET k == CHOOSE k \in DOMAIN s : s[k][1] = x /\ \A j \in 1..(k - 1) : s[j][1] # x
         IN  k \in 1..Len(s) /\ s[k][1] = x
<1> DEFINE T == {k \in DOMAIN s : s[k][1] = x}
           Less == {p \in Nat \X Nat : p[1] < p[2]}
<1>0. IsWellFoundedOn(Less, Nat)
  BY NatLessThanWellFounded, Zenon DEF OpToRel
<1>1. DOMAIN s = 1..Len(s) /\ Len(s) \in Nat
  BY SeqIsSeq DEF IsSeq
<1>2. T # {} /\ T \subseteq Nat
  BY <1>1 DEF Keys
<1>3. PICK k \in T : \A y \in T : ~(<<y, k>> \in Less)
  <2> HIDE DEF T, Less
  <2> QED
    BY <1>0, <1>2, WFMin, Zenon
<1>4. ASSUME NEW j \in 1..(k - 1) PROVE s[j][1] # x
  <2>1. k \in 1..Len(s)
    BY <1>1, <1>3
  <2>2. j \in Nat /\ k \in Nat /\ j < k /\ j \in DOMAIN s
    BY <1>1, <2>1
  <2>3. <<j, k>> \in Less
    BY <2>2
  <2> QED
    BY <1>3, <2>2, <2>3
<1>5. k \in DOMAIN s /\ s[k][1] = x /\ \A j \in 1..(k - 1) : s[j][1] # x
  BY <1>3, <1>4
<1> QED
  BY <1>1, <1>5

LEMMA AssocFound ==
  ASSUME NEW s, IsSeq(s), NEW x, x \in Keys(s)
  PROVE  Assoc(s, x) \in Members(s) /\ Assoc(s, x)[1] = x
<1> DEFINE k == CHOOSE k \in DOMAIN s : s[k][1] = x /\ \A j \in 1..(k - 1) : s[j][1] # x
<1>1. k \in 1..Len(s) /\ s[k][1] = x
  BY FirstBinding
<1>2. Assoc(s, x) = s[k]
  BY DEF Assoc
<1> HIDE DEF k
<1> QED
  BY <1>1, <1>2 DEF Members

LEMMA ConsumeIsSeq ==
  ASSUME NEW s, IsSeq(s), NEW x
  PROVE  IsSeq(Consume(s, x))
<1> DEFINE S == Members(s)
<1> HIDE DEF S
<1>1. s \in Seq(S) /\ Len(s) \in Nat /\ DOMAIN s = 1..Len(s)
  BY SeqIsSeq DEF IsSeq, S
<1>2. ASSUME NEW t \in Seq(S) PROVE Reversed(t) \in Seq(S)
  <2>1. Len(t) \in Nat /\ \A k \in 1..Len(t) : t[k] \in S
    OBVIOUS
  <2>2. \A k \in 1..Len(t) : Len(t) + 1 - k \in 1..Len(t)
    BY <2>1
  <2>3. Reversed(t) \in [1..Len(t) -> S]
    BY <2>1, <2>2 DEF Reversed
  <2> QED
    BY <2>1, <2>3
<1>3. CASE x \notin Keys(s)
  BY <1>1, <1>2, <1>3, SeqIsSeq DEF Consume
<1>4. CASE x \in Keys(s)
  <2> DEFINE k == CHOOSE k \in DOMAIN s : s[k][1] = x /\ \A j \in 1..(k - 1) : s[j][1] # x
  <2>1. k \in 1..Len(s)
    BY <1>4, FirstBinding
  <2>2. Consume(s, x) = Reversed(SubSeq(s, 1, k - 1)) \o SubSeq(s, k + 1, Len(s))
    BY <1>4, Zenon DEF Consume
  <2> HIDE DEF k
  <2>3. SubSeq(s, 1, k - 1) \in Seq(S) /\ SubSeq(s, k + 1, Len(s)) \in Seq(S)
    BY <1>1, <2>1
  <2>4. Reversed(SubSeq(s, 1, k - 1)) \in Seq(S)
    BY <1>2, <2>3, Zenon
  <2>5. Consume(s, x) \in Seq(S)
    BY <2>2, <2>3, <2>4
  <2> QED
    BY <2>5, SeqIsSeq
<1> QED
  BY <1>3, <1>4

-----------------------------------------------------------------------------
(* The lines of a manifest. *)

LEMMA ImageIsFinite ==
  ASSUME NEW S, IsFiniteSet(S), NEW f, DOMAIN f = S, NEW T, T = {f[x] : x \in S}
  PROVE  IsFiniteSet(T)
<1> DEFINE g == [x \in S |-> f[x]]
<1>1. g \in [S -> T] /\ \A t \in T : \E x \in S : g[x] = t
  OBVIOUS
<1>2. g \in Surjection(S, T)
  BY <1>1 DEF Surjection
<1> QED
  BY <1>2, FS_Surjection DEF ExistsSurjection

LEMMA MembersFinite ==
  ASSUME NEW s, IsSeq(s)
  PROVE  IsFiniteSet(Members(s))
<1>1. DOMAIN s = 1..Len(s) /\ Len(s) \in Nat
  BY SeqIsSeq DEF IsSeq
<1>2. IsFiniteSet(1..Len(s))
  BY <1>1, FS_Interval
<1> QED
  BY <1>1, <1>2, ImageIsFinite DEF Members

LEMMA LinesOfMembers ==
  ASSUME NEW c, NEW S, IsFiniteSet(S)
  PROVE  IsSeq(LinesOf(c, S)) /\ Members(LinesOf(c, S)) = {Line(c, x, NoDef) : x \in S}
<1> DEFINE T == {Line(c, x, NoDef) : x \in S}
           f == [x \in S |-> Line(c, x, NoDef)]
<1>1. IsFiniteSet(T)
  <2>1. DOMAIN f = S /\ T = {f[x] : x \in S}
    OBVIOUS
  <2> HIDE DEF T, f
  <2> QED
    BY <2>1, ImageIsFinite
<1> QED
  BY <1>1, ListedMembers DEF LinesOf

LEMMA DefLinesOfMembers ==
  ASSUME NEW c, NEW S, IsFiniteSet(S)
  PROVE  IsSeq(DefLinesOf(c, S)) /\ Members(DefLinesOf(c, S)) = {Line(c, d[1], d[2]) : d \in S}
<1> DEFINE T == {Line(c, d[1], d[2]) : d \in S}
           f == [d \in S |-> Line(c, d[1], d[2])]
<1>1. IsFiniteSet(T)
  <2>1. DOMAIN f = S /\ T = {f[x] : x \in S}
    OBVIOUS
  <2> HIDE DEF T, f
  <2> QED
    BY <2>1, ImageIsFinite
<1> QED
  BY <1>1, ListedMembers DEF DefLinesOf

(* What a set of lines says. *)
Provided(f, M) == \E l \in M : l.command = ".provides" /\ l.symbol = f
Required(f, M) == \E l \in M : l.command = ".requires" /\ l.symbol = f
Body(c, x, d, M) == \E l \in M : l.command = c /\ l.symbol = x /\ l.def = d

ManifestCommands == {".requires", ".provides", ".structure", ".predicate", ".imports", ".produces"}

(* The lines M tell a linker all that matters of the source files C.        *)
Describes(M, C) ==
  /\ C \subseteq Source
  /\ \A l \in M : l.command \in ManifestCommands
  /\ \A s \in C : \A f : Implements(f, s) => Provided(f, M)
  /\ \A f : Provided(f, M) => \E s \in C : Implements(f, s)
  /\ \A s, t \in C : \A f : Implements(f, s) /\ Implements(f, t) => s = t
  /\ \A s \in C : \A f \in Unit[s].prototypes_used : Provided(f, M) \/ Required(f, M)
  /\ \A c \in Delayable : \A s \in C : \A d \in Bodies(c, s) :
       d[1] \notin LocalDecl => Body(c, d[1], d[2], M)
  /\ \A c \in Delayable : \A x, d, e : Body(c, x, d, M) /\ Body(c, x, e, M) => d = e

(* The manifest of a source file describes it. *)
LEMMA SourceDescribed ==
  ASSUME NEW s \in Source
  PROVE  LET ls == create_manifest_file(Unit[s])
         IN  IsSeq(ls) /\ Describes(Members(ls), {s})
<1> DEFINE u == Unit[s]
           ls == create_manifest_file(u)
           M == Members(ls)
           R == {Line(".requires", x, NoDef) : x \in u.prototypes_used}
           P == {Line(".provides", x, NoDef) : x \in u.prototypes_implemented}
           S == {Line(".structure", d[1], d[2]) : d \in u.structures_defined}
           Q == {Line(".predicate", d[1], d[2]) : d \in u.nonabstract_predicates}
           F == {Line(".provides", x, NoDef) : x \in u.functypes_implemented}
           I == {Line(".imports", x, NoDef) : x \in u.modules_imported}
           N == {Line(".produces", u.module_name, NoDef)}
<1>1. /\ IsFiniteSet(u.prototypes_used) /\ IsFiniteSet(u.prototypes_implemented)
      /\ IsFiniteSet(u.functypes_implemented) /\ IsFiniteSet(u.modules_imported)
      /\ IsFiniteSet(u.structures_defined) /\ IsFiniteSet(u.nonabstract_predicates)
  <2>1. Bodies(".structure", s) = u.structures_defined
    BY DEF Bodies
  <2>2. Bodies(".predicate", s) = u.nonabstract_predicates
    BY DEF Bodies
  <2> HIDE DEF u
  <2>3. \A T \in {Unit[s].prototypes_used, Unit[s].prototypes_implemented,
                    Unit[s].functypes_implemented, Unit[s].modules_imported,
                    Bodies(".structure", s), Bodies(".predicate", s)} : IsFiniteSet(T)
    BY LinkAssumption, Zenon
  <2> QED
    BY <2>1, <2>2, <2>3 DEF u
<1>2. IsSeq(ls) /\ M = R \union P \union S \union Q \union F \union I \union N
  <2> DEFINE a == LinesOf(".requires", u.prototypes_used)
             b == LinesOf(".provides", u.prototypes_implemented)
             c == DefLinesOf(".structure", u.structures_defined)
             d == DefLinesOf(".predicate", u.nonabstract_predicates)
             e == LinesOf(".provides", u.functypes_implemented)
             g == LinesOf(".imports", u.modules_imported)
             h == <<Line(".produces", u.module_name, NoDef)>>
  <2>1. /\ IsSeq(a) /\ IsSeq(b) /\ IsSeq(e) /\ IsSeq(g)
        /\ Members(a) = R /\ Members(b) = P /\ Members(e) = F /\ Members(g) = I
    BY <1>1, LinesOfMembers, Zenon
  <2>2. IsSeq(c) /\ IsSeq(d) /\ Members(c) = S /\ Members(d) = Q
    BY <1>1, DefLinesOfMembers, Zenon
  <2>3. IsSeq(h) /\ Members(h) = N
    BY OneMember, Zenon
  <2>4. ls = a \o b \o c \o d \o e \o g \o h
    BY Zenon DEF create_manifest_file
  <2> HIDE DEF a, b, c, d, e, g, h, R, P, S, Q, F, I, N, u, ls
  <2>5. IsSeq(a \o b) /\ Members(a \o b) = R \union P
    BY <2>1, ConcatMembers
  <2>6. IsSeq(a \o b \o c) /\ Members(a \o b \o c) = R \union P \union S
    BY <2>2, <2>5, ConcatMembers
  <2>7. IsSeq(a \o b \o c \o d) /\ Members(a \o b \o c \o d) = R \union P \union S \union Q
    BY <2>2, <2>6, ConcatMembers
  <2>8. /\ IsSeq(a \o b \o c \o d \o e)
        /\ Members(a \o b \o c \o d \o e) = R \union P \union S \union Q \union F
    BY <2>1, <2>7, ConcatMembers
  <2>9. /\ IsSeq(a \o b \o c \o d \o e \o g)
        /\ Members(a \o b \o c \o d \o e \o g) = R \union P \union S \union Q \union F \union I
    BY <2>1, <2>8, ConcatMembers
  <2> QED
    BY <2>3, <2>4, <2>9, ConcatMembers
<1> HIDE DEF ls, M
<1>0. /\ \A l \in R : l.command = ".requires"
      /\ \A l \in P : l.command = ".provides" /\ l.symbol \in u.prototypes_implemented
      /\ \A l \in S : /\ l.command = ".structure"
                     /\ \E b \in u.structures_defined : b[1] = l.symbol /\ b[2] = l.def
      /\ \A l \in Q : /\ l.command = ".predicate"
                     /\ \E b \in u.nonabstract_predicates : b[1] = l.symbol /\ b[2] = l.def
      /\ \A l \in F : l.command = ".provides" /\ l.symbol \in u.functypes_implemented
      /\ \A l \in I : l.command = ".imports"
      /\ \A l \in N : l.command = ".produces"
  <2>1. \A l \in R : l.command = ".requires"
    BY DEF Line
  <2>2. \A l \in P : l.command = ".provides" /\ l.symbol \in u.prototypes_implemented
    BY DEF Line
  <2>3. \A l \in S : /\ l.command = ".structure"
                     /\ \E b \in u.structures_defined : b[1] = l.symbol /\ b[2] = l.def
    BY DEF Line
  <2>4. \A l \in Q : /\ l.command = ".predicate"
                     /\ \E b \in u.nonabstract_predicates : b[1] = l.symbol /\ b[2] = l.def
    BY DEF Line
  <2>5. \A l \in F : l.command = ".provides" /\ l.symbol \in u.functypes_implemented
    BY DEF Line
  <2>6. \A l \in I : l.command = ".imports"
    BY DEF Line
  <2>7. \A l \in N : l.command = ".produces"
    BY DEF Line
  <2> QED
    BY <2>1, <2>2, <2>3, <2>4, <2>5, <2>6, <2>7
<1>3. \A l \in M : l.command \in ManifestCommands
  <2> HIDE DEF R, P, S, Q, F, I, N
  <2> QED
    BY <1>0, <1>2 DEF ManifestCommands
<1>4. \A f : Provided(f, M) <=> Implements(f, s)
  <2>1. ASSUME NEW f, Implements(f, s) PROVE Provided(f, M)
    <3>1. Line(".provides", f, NoDef) \in M
      BY <1>2, <2>1 DEF Implements
    <3> QED
      BY <3>1 DEF Provided, Line
  <2>2. ASSUME NEW f, Provided(f, M) PROVE Implements(f, s)
    <3>1. PICK l \in M : l.command = ".provides" /\ l.symbol = f
      BY <2>2 DEF Provided
    <3> HIDE DEF R, P, S, Q, F, I, N
    <3>2. l \in P \union F
      BY <1>0, <1>2, <3>1
    <3> QED
      BY <1>0, <3>1, <3>2 DEF Implements
  <2> QED
    BY <2>1, <2>2
<1>5. \A f \in Unit[s].prototypes_used : Required(f, M)
  <2>1. ASSUME NEW f \in Unit[s].prototypes_used PROVE Required(f, M)
    <3>1. Line(".requires", f, NoDef) \in M
      BY <1>2
    <3> QED
      BY <3>1 DEF Required, Line
  <2> QED
    BY <2>1
<1>6. ASSUME NEW c \in Delayable, NEW d \in Bodies(c, s)
      PROVE  Body(c, d[1], d[2], M)
  <2>1. Line(c, d[1], d[2]) \in M
    BY <1>2, <1>6 DEF Bodies, Delayable
  <2> QED
    BY <2>1 DEF Body, Line
<1>7. ASSUME NEW c \in Delayable, NEW x, NEW d, NEW e, Body(c, x, d, M), Body(c, x, e, M)
      PROVE  d = e
  <2>1. ASSUME NEW y, Body(c, x, y, M) PROVE \E b \in Bodies(c, s) : b[1] = x /\ b[2] = y
    <3>1. PICK l \in M : l.command = c /\ l.symbol = x /\ l.def = y
      BY <2>1 DEF Body
    <3>2. CASE c = ".structure"
      <4> HIDE DEF R, P, S, Q, F, I, N
      <4>1. l \in S
        BY <1>0, <1>2, <3>1, <3>2
      <4> QED
        BY <1>0, <3>1, <3>2, <4>1 DEF Bodies
    <3>3. CASE c = ".predicate"
      <4> HIDE DEF R, P, S, Q, F, I, N
      <4>1. l \in Q
        BY <1>0, <1>2, <3>1, <3>3
      <4> QED
        BY <1>0, <3>1, <3>3, <4>1 DEF Bodies
    <3> QED
      BY <3>2, <3>3 DEF Delayable
  <2> HIDE DEF u
  <2> QED
    BY <1>7, <2>1, LinkAssumption
<1> HIDE DEF u
<1> QED
  BY <1>2, <1>3, <1>4, <1>5, <1>6, <1>7 DEF Describes, M, ls, u

-----------------------------------------------------------------------------
(* What a link has gathered when it has begun n manifests and the lines U   *)
(* of the last are still to read: I is the set of entries of impls, and     *)
(* B[c] of structs or of preds.                                             *)

(* The k-th manifest's line l has been read, without an error. *)
Settled(k, l, paths, M, I, B) ==
  /\ l.command = ".provides" =>
       /\ \E e \in I : e[1] = l.symbol /\ e[2] = paths[k]
       /\ \A j \in 1..(k - 1) : ~Provided(l.symbol, M[j])
  /\ l.command = ".requires" => \E j \in 1..k : Provided(l.symbol, M[j])
  /\ l.command \in Delayable => \E e \in B[l.command] : e[1] = l.symbol /\ e[2] = l.def

Functional(T) == \A d, e \in T : d[1] = e[1] => d[2] = e[2]
Justified(I, n, paths, M) == \A e \in I : \E j \in 1..n : e[2] = paths[j] /\ Provided(e[1], M[j])

Gathered(n, paths, M, U, I, B) ==
  /\ \A k \in 1..n : \A l \in M[k] : (k = n /\ l \in U) \/ Settled(k, l, paths, M, I, B)
  /\ Justified(I, n, paths, M)
  /\ \A c \in Delayable : Functional(B[c])

(* The entries T, gathered from T0 and from the lines m of one manifest.    *)
Extends(T0, T, c, m) ==
  /\ T0 \subseteq T
  /\ \A e \in T : e \in T0 \/ (Body(c, e[1], e[2], m) /\ \A b \in T0 : b[1] # e[1])

LEMMA BeginGathered ==
  ASSUME NEW n \in Nat, NEW paths, NEW M, NEW I, NEW B, Gathered(n, paths, M, {}, I, B)
  PROVE  Gathered(n + 1, paths, M, M[n + 1], I, B)
<1>1. \A k \in 1..(n + 1) : k = n + 1 \/ k \in 1..n
  OBVIOUS
<1>2. \A k \in 1..n : \A l \in M[k] : Settled(k, l, paths, M, I, B)
  BY DEF Gathered
<1>3. Justified(I, n + 1, paths, M)
  BY DEF Gathered, Justified
<1> QED
  BY <1>1, <1>2, <1>3 DEF Gathered

LEMMA ReadLineGathered ==
  ASSUME NEW n, NEW paths, NEW M, NEW U, NEW V, NEW l, NEW I, NEW B, NEW I2, NEW B2,
         Gathered(n, paths, M, U, I, B), U \subseteq {l} \union V,
         Settled(n, l, paths, M, I2, B2), I \subseteq I2, \A c \in Delayable : B[c] \subseteq B2[c],
         Justified(I2, n, paths, M), \A c \in Delayable : Functional(B2[c])
  PROVE  Gathered(n, paths, M, V, I2, B2)
<1>1. ASSUME NEW k \in 1..n, NEW x \in M[k], ~(k = n /\ x \in V)
      PROVE  Settled(k, x, paths, M, I2, B2)
  <2>1. CASE k = n /\ x = l
    BY <2>1
  <2>2. CASE ~(k = n /\ x = l)
    <3>1. Settled(k, x, paths, M, I, B)
      BY <1>1, <2>2 DEF Gathered
    <3> QED
      BY <3>1 DEF Settled
  <2> QED
    BY <2>1, <2>2
<1> QED
  BY <1>1 DEF Gathered

(* The first .provides of a function. *)
LEMMA ProvidesGathered ==
  ASSUME NEW n \in Nat, n # 0, NEW paths, NEW M, NEW V, NEW l \in M[n], NEW I, NEW B, NEW U,
         U = {l} \union V, Gathered(n, paths, M, U, I, B),
         l.command = ".provides", \A e \in I : e[1] # l.symbol,
         NEW I2, I2 = {<<l.symbol, paths[n]>>} \union I
  PROVE  Gathered(n, paths, M, V, I2, B)
<1>1. Provided(l.symbol, M[n])
  BY DEF Provided
<1>2. Justified(I2, n, paths, M)
  BY <1>1 DEF Gathered, Justified
<1>3. ASSUME NEW j \in 1..(n - 1) PROVE ~Provided(l.symbol, M[j])
  <2> SUFFICES ASSUME Provided(l.symbol, M[j]) PROVE FALSE
    OBVIOUS
  <2>1. PICK x \in M[j] : x.command = ".provides" /\ x.symbol = l.symbol
    BY DEF Provided
  <2>2. j \in 1..n /\ j # n
    OBVIOUS
  <2>3. Settled(j, x, paths, M, I, B)
    BY <2>2 DEF Gathered
  <2> QED
    BY <2>1, <2>3 DEF Settled
<1>4. Settled(n, l, paths, M, I2, B)
  <2>0. /\ <<l.symbol, paths[n]>> \in I2
        /\ <<l.symbol, paths[n]>>[1] = l.symbol /\ <<l.symbol, paths[n]>>[2] = paths[n]
    OBVIOUS
  <2>1. \E e \in I2 : e[1] = l.symbol /\ e[2] = paths[n]
    BY <2>0, Zenon
  <2> QED
    BY <1>3, <2>1 DEF Settled, Delayable
<1>5. \A c \in Delayable : Functional(B[c])
  BY DEF Gathered
<1>6. I \subseteq I2 /\ U \subseteq {l} \union V /\ \A c \in Delayable : B[c] \subseteq B[c]
  OBVIOUS
<1> QED
  BY <1>2, <1>4, <1>5, <1>6, ReadLineGathered

(* A .requires of a function that is in the table. *)
LEMMA RequiresGathered ==
  ASSUME NEW n \in Nat, NEW paths, NEW M, NEW V, NEW l, NEW I, NEW B, NEW U,
         U = {l} \union V, Gathered(n, paths, M, U, I, B),
         l.command = ".requires", NEW e \in I, e[1] = l.symbol
  PROVE  Gathered(n, paths, M, V, I, B)
<1>1. Justified(I, n, paths, M) /\ \A c \in Delayable : Functional(B[c])
  BY DEF Gathered
<1>2. Settled(n, l, paths, M, I, B)
  BY <1>1 DEF Justified, Settled, Delayable
<1>3. I \subseteq I /\ U \subseteq {l} \union V /\ \A c \in Delayable : B[c] \subseteq B[c]
  OBVIOUS
<1> QED
  BY <1>1, <1>2, <1>3, ReadLineGathered

(* A module line. *)
LEMMA ModuleGathered ==
  ASSUME NEW n \in Nat, NEW paths, NEW M, NEW V, NEW l, NEW I, NEW B, NEW U,
         U = {l} \union V, Gathered(n, paths, M, U, I, B),
         l.command \in {".imports", ".produces"}
  PROVE  Gathered(n, paths, M, V, I, B)
<1>1. Justified(I, n, paths, M) /\ \A c \in Delayable : Functional(B[c])
  BY DEF Gathered
<1>2. Settled(n, l, paths, M, I, B)
  BY <1>1 DEF Settled, Delayable
<1>3. I \subseteq I /\ U \subseteq {l} \union V /\ \A c \in Delayable : B[c] \subseteq B[c]
  OBVIOUS
<1> QED
  BY <1>1, <1>2, <1>3, ReadLineGathered

(* A body that the earlier manifests give too, of the same file. *)
LEMMA KnownBodyGathered ==
  ASSUME NEW n \in Nat, NEW paths, NEW M, NEW V, NEW l, NEW I, NEW B, NEW U,
         U = {l} \union V, Gathered(n, paths, M, U, I, B),
         l.command \in Delayable, NEW e \in B[l.command], e[1] = l.symbol, e[2] = l.def
  PROVE  Gathered(n, paths, M, V, I, B)
<1>1. Justified(I, n, paths, M) /\ \A c \in Delayable : Functional(B[c])
  BY DEF Gathered
<1>2. Settled(n, l, paths, M, I, B)
  BY <1>1 DEF Settled, Delayable
<1>3. I \subseteq I /\ U \subseteq {l} \union V /\ \A c \in Delayable : B[c] \subseteq B[c]
  OBVIOUS
<1> QED
  BY <1>1, <1>2, <1>3, ReadLineGathered

(* A body that the earlier manifests do not give: the entries of this       *)
(* manifest agree with it, since one manifest gives one body.               *)
LEMMA NewBodyAgrees ==
  ASSUME NEW T0, NEW T, NEW c, NEW m, Extends(T0, T, c, m), Functional(T),
         \A x, y, z : Body(c, x, y, m) /\ Body(c, x, z, m) => y = z,
         NEW e, Body(c, e[1], e[2], m), \A b \in T0 : b[1] # e[1]
  PROVE  Functional({e} \union T) /\ Extends(T0, {e} \union T, c, m)
<1>1. ASSUME NEW b \in T, b[1] = e[1] PROVE b[2] = e[2]
  <2>1. Body(c, b[1], b[2], m)
    BY <1>1 DEF Extends
  <2> QED
    BY <1>1, <2>1
<1>2. Functional({e} \union T)
  BY <1>1 DEF Functional
<1>3. Extends(T0, {e} \union T, c, m)
  BY DEF Extends
<1> QED
  BY <1>2, <1>3

(* When all the lines have been read: every line is settled. *)
LEMMA AllSettled ==
  ASSUME NEW n \in Nat, NEW paths, NEW M, NEW I, NEW B, Gathered(n, paths, M, {}, I, B),
         NEW k \in 1..n, NEW l \in M[k]
  PROVE  Settled(k, l, paths, M, I, B)
BY DEF Gathered

(* No function is provided twice. *)
LEMMA ProvidedOnce ==
  ASSUME NEW n \in Nat, NEW paths, NEW M, NEW I, NEW B, Gathered(n, paths, M, {}, I, B),
         NEW j \in 1..n, NEW k \in 1..n, NEW f, Provided(f, M[j]), Provided(f, M[k])
  PROVE  j = k
<1>1. ASSUME NEW x \in 1..n, NEW y \in 1..n, x < y, Provided(f, M[x]), Provided(f, M[y])
      PROVE  FALSE
  <2>1. PICK l \in M[y] : l.command = ".provides" /\ l.symbol = f
    BY <1>1 DEF Provided
  <2>2. x \in 1..(y - 1)
    BY <1>1
  <2>3. Settled(y, l, paths, M, I, B)
    BY AllSettled
  <2> QED
    BY <1>1, <2>1, <2>2, <2>3 DEF Settled
<1>2. j < k \/ k < j \/ j = k
  OBVIOUS
<1> QED
  BY <1>1, <1>2

(* A function that is required is provided before. *)
LEMMA RequiredProvided ==
  ASSUME NEW n \in Nat, NEW paths, NEW M, NEW I, NEW B, Gathered(n, paths, M, {}, I, B),
         NEW k \in 1..n, NEW f, Required(f, M[k])
  PROVE  \E j \in 1..n : j <= k /\ Provided(f, M[j])
<1>1. PICK l \in M[k] : l.command = ".requires" /\ l.symbol = f
  BY DEF Required
<1>2. Settled(k, l, paths, M, I, B)
  BY AllSettled
<1>3. PICK j \in 1..k : Provided(f, M[j])
  BY <1>1, <1>2 DEF Settled
<1>4. j \in 1..n /\ j <= k
  OBVIOUS
<1> QED
  BY <1>3, <1>4

InTable(T, x, y) == \E e \in T : e[1] = x /\ e[2] = y

(* A function that is provided is in the table. *)
LEMMA ProvidedListed ==
  ASSUME NEW n \in Nat, NEW paths, NEW M, NEW I, NEW B, Gathered(n, paths, M, {}, I, B),
         NEW k \in 1..n, NEW f, Provided(f, M[k])
  PROVE  InTable(I, f, paths[k])
<1>1. PICK l \in M[k] : l.command = ".provides" /\ l.symbol = f
  BY DEF Provided
<1>2. Settled(k, l, paths, M, I, B)
  BY AllSettled
<1> QED
  BY <1>1, <1>2 DEF Settled, InTable

(* A body is in the table. *)
LEMMA BodyListed ==
  ASSUME NEW n \in Nat, NEW paths, NEW M, NEW I, NEW B, Gathered(n, paths, M, {}, I, B),
         NEW k \in 1..n, NEW c \in Delayable, NEW x, NEW d, Body(c, x, d, M[k])
  PROVE  InTable(B[c], x, d)
<1>1. PICK l \in M[k] : l.command = c /\ l.symbol = x /\ l.def = d
  BY DEF Body
<1>2. Settled(k, l, paths, M, I, B)
  BY AllSettled
<1> QED
  BY <1>1, <1>2 DEF Settled, InTable

LEMMA NothingGathered ==
  ASSUME NEW paths, NEW M, NEW U, NEW I, I = {}, NEW B, \A c \in Delayable : B[c] = {}
  PROVE  Gathered(0, paths, M, U, I, B)
BY DEF Gathered, Justified, Functional

LEMMA LocalBodies ==
  ASSUME NEW c \in Delayable, NEW s \in Source, NEW t \in Source,
         NEW d \in Bodies(c, s), NEW e \in Bodies(c, t), d[1] = e[1], d[1] \in LocalDecl
  PROVE  d[2] = e[2]
BY LinkAssumption

-----------------------------------------------------------------------------
(* The invariant. *)

ManifestOf(p) == IF p \in Source THEN create_manifest_file(Unit[p]) ELSE dlls[p]
Manifests == [k \in 1..Len(cmd.paths) |-> Members(ManifestOf(cmd.paths[k]))]
Begun == Len(cmd.paths) - Len(modulepaths)
Unread == IF phase = "lines" THEN Members(lines) ELSE {}
BodiesIn == [c \in Delayable |-> Members(IF c = ".structure" THEN structs ELSE preds)]
BodiesBefore == [c \in Delayable |-> Members(IF c = ".structure" THEN structs0 ELSE preds0)]

TypeInv ==
  /\ phase \in {"idle", "modules", "lines", "exports", "emit"} /\ errors \in BOOLEAN
  /\ result \in {"none", "linked", "failed"} /\ (result = "linked" => phase = "idle")
  /\ cmd.paths \in Seq(Source \union Dll) /\ IsSeq(cmd.exports)
  /\ cmd.dllManifest \in Dll \union {"none"} /\ (phase = "emit" => cmd.dllManifest # "none")
  /\ phase # "idle" \/ result = "linked" => (cmd.isLibrary <=> cmd.dllManifest # "none")
  /\ IsSeq(modulepaths) /\ IsSeq(lines)
  /\ IsSeq(impls) /\ IsSeq(structs) /\ IsSeq(preds) /\ IsSeq(mods)
  /\ IsSeq(structs0) /\ IsSeq(preds0)

(* The manifests not begun are the last ones of the command; the lines not  *)
(* read are some of the last one begun.                                     *)
PlaceInv ==
  /\ Begun \in Nat
  /\ \A k \in 1..Len(modulepaths) : modulepaths[k] = cmd.paths[Begun + k]
  /\ phase = "lines" =>
       /\ Begun # 0 /\ manifest_path = cmd.paths[Begun]
       /\ Members(lines) \subseteq Manifests[Begun]
  /\ phase # "idle" \/ result = "linked" =>
       \A k \in 1..Begun : cmd.paths[k] \in Source \union DOMAIN dlls
  /\ phase \in {"exports", "emit"} \/ result = "linked" => modulepaths = <<>>

(* A DLL's manifest describes the source files it was made of. *)
DllInv ==
  /\ DOMAIN dlls \subseteq Dll
  /\ \A d \in DOMAIN dlls : IsSeq(dlls[d]) /\ Describes(Members(dlls[d]), contents[d])

(* No error so far: check_errors is passed before the exports. *)
Clean ==
  \/ phase \in {"modules", "lines"} /\ ~errors
  \/ phase \in {"exports", "emit"}
  \/ LinkedProgram

TablesInv ==
  /\ Clean => Gathered(Begun, cmd.paths, Manifests, Unread, Members(impls), BodiesIn)
  /\ Clean /\ phase = "lines" =>
       \A c \in Delayable : Extends(BodiesBefore[c], BodiesIn[c], c, Manifests[Begun])

LInv == TypeInv /\ PlaceInv /\ DllInv /\ TablesInv

LEMMA ManifestDescribed ==
  ASSUME DllInv, NEW p \in Source \union DOMAIN dlls
  PROVE  IsSeq(ManifestOf(p)) /\ Describes(Members(ManifestOf(p)), Contents(p))
<1>1. CASE p \in Source
  <2>1. ManifestOf(p) = create_manifest_file(Unit[p]) /\ Contents(p) = {p}
    BY <1>1 DEF ManifestOf, Contents
  <2> QED
    BY <1>1, <2>1, SourceDescribed
<1>2. CASE p \notin Source
  <2>1. ManifestOf(p) = dlls[p] /\ Contents(p) = contents[p]
    BY <1>2 DEF ManifestOf, Contents
  <2> QED
    BY <1>2, <2>1 DEF DllInv
<1> QED
  BY <1>1, <1>2

(* The manifest being read describes some files. *)
LEMMA CurrentManifest ==
  ASSUME TypeInv, PlaceInv, DllInv, phase = "lines"
  PROVE  /\ Begun \in Nat /\ Begun # 0 /\ Begun \in 1..Len(cmd.paths)
         /\ manifest_path = cmd.paths[Begun]
         /\ Members(lines) \subseteq Manifests[Begun]
         /\ Describes(Manifests[Begun], Contents(cmd.paths[Begun]))
<1>1. Len(cmd.paths) \in Nat /\ Len(modulepaths) \in Nat
  BY SeqIsSeq DEF TypeInv, IsSeq
<1>2. Begun \in Nat /\ Begun # 0 /\ Begun \in 1..Len(cmd.paths)
  BY <1>1 DEF PlaceInv, Begun
<1>3. cmd.paths[Begun] \in Source \union DOMAIN dlls
  BY <1>2 DEF PlaceInv
<1>4. Manifests[Begun] = Members(ManifestOf(cmd.paths[Begun]))
  BY <1>2, Zenon DEF Manifests
<1> QED
  BY <1>2, <1>3, <1>4, ManifestDescribed DEF PlaceInv

LEMMA DelayedIsSeq ==
  ASSUME NEW T, IsSeq(T), NEW T0, NEW l
  PROVE  IsSeq(Delayed(T, T0, l).table)
<1>1. IsSeq(<<<<l.symbol, l.def, manifest_path>>>> \o T)
  BY PushMembers
<1> QED
  BY <1>1 DEF Delayed

(* A .structure or .predicate line without an error. *)
LEMMA DelayedGathered ==
  ASSUME LInv, phase = "lines", lines # <<>>, ~errors,
         NEW c \in Delayable, Head(lines).command = c,
         NEW T, IsSeq(T), Members(T) = BodiesIn[c],
         NEW T0, IsSeq(T0), Members(T0) = BodiesBefore[c],
         ~Delayed(T, T0, Head(lines)).error,
         NEW B2, B2[c] = Members(Delayed(T, T0, Head(lines)).table),
         \A x \in Delayable \ {c} : B2[x] = BodiesIn[x]
  PROVE  /\ Gathered(Begun, cmd.paths, Manifests, Members(Tail(lines)), Members(impls), B2)
         /\ \A x \in Delayable : Extends(BodiesBefore[x], B2[x], x, Manifests[Begun])
<1> DEFINE l == Head(lines)
           n == Begun
           e == <<l.symbol, l.def, manifest_path>>
           V == Members(Tail(lines))
           U == Members(lines)
<1>1. U = {l} \union V
  BY TailMembers DEF LInv, TypeInv
<1>2. /\ n \in Nat /\ l \in Manifests[n]
      /\ Describes(Manifests[n], Contents(cmd.paths[n]))
  BY <1>1, CurrentManifest DEF LInv
<1>3. /\ Gathered(n, cmd.paths, Manifests, U, Members(impls), BodiesIn)
      /\ \A x \in Delayable : Extends(BodiesBefore[x], BodiesIn[x], x, Manifests[n])
  BY DEF LInv, TablesInv, Clean, Unread
<1>4. CASE l.symbol \in Keys(T0)
  <2> DEFINE b == Assoc(T0, l.symbol)
  <2>1. b \in Members(T0) /\ b[1] = l.symbol
    BY <1>4, AssocFound
  <2>2. b[2] = l.def /\ B2[c] = Members(T)
    BY <1>4, Zenon DEF Delayed
  <2>3. b \in BodiesIn[c]
    BY <1>3, <2>1 DEF Extends
  <2> HIDE DEF l, n, V, U, b
  <2>4. Gathered(n, cmd.paths, Manifests, V, Members(impls), BodiesIn)
    <3>1. l.command = c
      BY DEF l
    <3> QED
      BY <1>1, <1>2, <1>3, <2>1, <2>2, <2>3, <3>1, KnownBodyGathered, Zenon
  <2>5. \A x \in Delayable : B2[x] = BodiesIn[x]
    BY <2>2
  <2>6. Gathered(n, cmd.paths, Manifests, V, Members(impls), B2)
    BY <2>4, <2>5 DEF Gathered, Settled
  <2> QED
    BY <1>3, <2>5, <2>6 DEF n, V
<1>5. CASE l.symbol \notin Keys(T0)
  <2>1. \A b \in BodiesBefore[c] : b[1] # l.symbol
    BY <1>5, KeysAre
  <2>2. B2[c] = {e} \union BodiesIn[c]
    <3>1. Delayed(T, T0, l).table = <<e>> \o T
      BY <1>5 DEF Delayed
    <3> QED
      BY <3>1, PushMembers, Zenon
  <2>3. e[1] = l.symbol /\ e[2] = l.def
    OBVIOUS
  <2>4. l.command = c
    OBVIOUS
  <2>5. \A x, y, z : Body(c, x, y, Manifests[n]) /\ Body(c, x, z, Manifests[n]) => y = z
    BY <1>2, Zenon DEF Describes
  <2> HIDE DEF l, n, V, U, e
  <2>6. Body(c, e[1], e[2], Manifests[n])
    BY <1>2, <2>3, <2>4 DEF Body
  <2>7. /\ Justified(Members(impls), n, cmd.paths, Manifests)
        /\ \A x \in Delayable : Functional(BodiesIn[x])
    BY <1>3 DEF Gathered
  <2>8. Functional(B2[c]) /\ Extends(BodiesBefore[c], B2[c], c, Manifests[n])
    <3>1. /\ Extends(BodiesBefore[c], BodiesIn[c], c, Manifests[n]) /\ Functional(BodiesIn[c])
          /\ \A b \in BodiesBefore[c] : b[1] # e[1]
      BY <1>3, <2>1, <2>3, <2>7
    <3>2. /\ Functional({e} \union BodiesIn[c])
          /\ Extends(BodiesBefore[c], {e} \union BodiesIn[c], c, Manifests[n])
      BY <2>5, <2>6, <3>1, NewBodyAgrees, Zenon
    <3> QED
      BY <2>2, <3>2, Zenon
  <2>9. Settled(n, l, cmd.paths, Manifests, Members(impls), B2)
    BY <2>2, <2>3, <2>4 DEF Settled, Delayable
  <2>10. /\ \A x \in Delayable : BodiesIn[x] \subseteq B2[x] /\ Functional(B2[x])
         /\ U \subseteq {l} \union V
    BY <1>1, <2>2, <2>7, <2>8
  <2>11. Gathered(n, cmd.paths, Manifests, V, Members(impls), B2)
    BY <1>3, <2>7, <2>9, <2>10, ReadLineGathered, Zenon
  <2> QED
    BY <1>3, <2>8, <2>11 DEF n, V
<1> QED
  BY <1>4, <1>5

-----------------------------------------------------------------------------
(* Each action keeps the invariant. *)

(* While a link goes on, its manifests do not change. *)
LEMMA ManifestsKept ==
  ASSUME UNCHANGED <<dlls, contents, cmd>>
  PROVE  Manifests' = Manifests /\ (DllInv => DllInv')
<1>1. \A p : ManifestOf(p)' = ManifestOf(p)
  BY DEF ManifestOf
<1>2. Manifests' = Manifests
  BY <1>1 DEF Manifests
<1> QED
  BY <1>2 DEF DllInv

(* The effect of a manifest's line. *)
LEMMA LineEffect ==
  ASSUME NEW l, ManifestLine(l)
  PROVE  /\ l.command = ".structure" =>
              /\ structs' = Delayed(structs, structs0, l).table
              /\ errors' = (errors \/ Delayed(structs, structs0, l).error)
              /\ UNCHANGED <<impls, preds, mods>>
         /\ l.command = ".predicate" =>
              /\ preds' = Delayed(preds, preds0, l).table
              /\ errors' = (errors \/ Delayed(preds, preds0, l).error)
              /\ UNCHANGED <<impls, structs, mods>>
         /\ l.command = ".provides" =>
              /\ impls' = <<<<l.symbol, manifest_path>>>> \o impls
              /\ errors' = (errors \/ l.symbol \in Keys(impls))
              /\ UNCHANGED <<structs, preds, mods>>
         /\ l.command = ".requires" =>
              /\ errors' = (errors \/ l.symbol \notin Keys(impls))
              /\ UNCHANGED <<impls, structs, preds, mods>>
         /\ l.command = ".produces" =>
              /\ mods' = <<<<l.symbol, manifest_path>>>> \o mods
              /\ UNCHANGED <<errors, impls, structs, preds>>
         /\ l.command = ".imports" =>
              /\ mods' = Consume(mods, l.symbol)
              /\ errors' = (errors \/ l.symbol \notin Keys(mods))
              /\ UNCHANGED <<impls, structs, preds>>
<1>1. CASE l.command = ".structure"
  BY <1>1 DEF ManifestLine
<1>2. CASE l.command = ".predicate"
  BY <1>2 DEF ManifestLine
<1>3. CASE l.command = ".provides"
  BY <1>3 DEF ManifestLine, Provides
<1>4. CASE l.command = ".requires"
  BY <1>4 DEF ManifestLine, tables
<1>5. CASE l.command = ".produces"
  BY <1>5 DEF ManifestLine
<1>6. CASE l.command = ".imports"
  BY <1>6 DEF ManifestLine
<1> QED
  BY <1>1, <1>2, <1>3, <1>4, <1>5, <1>6, Zenon

(* The tables stay lists, and errors stay. *)
LEMMA LineTypes ==
  ASSUME TypeInv, NEW l, l.command \in ManifestCommands, ManifestLine(l)
  PROVE  /\ IsSeq(impls') /\ IsSeq(structs') /\ IsSeq(preds') /\ IsSeq(mods')
         /\ errors' \in BOOLEAN /\ (errors => errors')
<1>0. /\ IsSeq(impls) /\ IsSeq(structs) /\ IsSeq(preds) /\ IsSeq(mods)
      /\ errors \in BOOLEAN
  BY DEF TypeInv
<1>1. /\ IsSeq(Delayed(structs, structs0, l).table) /\ IsSeq(Delayed(preds, preds0, l).table)
      /\ IsSeq(<<<<l.symbol, manifest_path>>>> \o impls)
      /\ IsSeq(<<<<l.symbol, manifest_path>>>> \o mods)
      /\ IsSeq(Consume(mods, l.symbol))
  BY <1>0, DelayedIsSeq, PushMembers, ConsumeIsSeq
<1>2. IsSeq(impls') /\ IsSeq(structs') /\ IsSeq(preds') /\ IsSeq(mods')
  BY <1>0, <1>1, LineEffect, Zenon DEF ManifestCommands
<1>3. errors' \in BOOLEAN /\ (errors => errors')
  BY <1>0, LineEffect, Zenon DEF ManifestCommands
<1> QED
  BY <1>2, <1>3

(* A line without an error. *)
LEMMA LineGathered ==
  ASSUME LInv, phase = "lines", lines # <<>>, ManifestLine(Head(lines)), ~errors',
         UNCHANGED <<structs0, preds0>>
  PROVE  /\ Gathered(Begun, cmd.paths, Manifests, Members(Tail(lines)), Members(impls'), BodiesIn')
         /\ \A c \in Delayable : Extends(BodiesBefore[c]', BodiesIn'[c], c, Manifests[Begun])
<1> DEFINE l == Head(lines)
           n == Begun
           V == Members(Tail(lines))
           U == Members(lines)
<1>1. U = {l} \union V
  BY TailMembers DEF LInv, TypeInv
<1>2. /\ n \in Nat /\ n # 0 /\ l \in Manifests[n] /\ manifest_path = cmd.paths[n]
      /\ Describes(Manifests[n], Contents(cmd.paths[n]))
  BY <1>1, CurrentManifest DEF LInv
<1>3. l.command \in ManifestCommands
  BY <1>2 DEF Describes
<1>4. ~errors
  BY <1>3, LineTypes DEF LInv
<1>5. /\ Gathered(n, cmd.paths, Manifests, U, Members(impls), BodiesIn)
      /\ \A c \in Delayable : Extends(BodiesBefore[c], BodiesIn[c], c, Manifests[n])
  BY <1>4 DEF LInv, TablesInv, Clean, Unread
<1>6. /\ IsSeq(impls) /\ IsSeq(structs) /\ IsSeq(preds) /\ IsSeq(structs0) /\ IsSeq(preds0)
  BY DEF LInv, TypeInv
<1>7. BodiesBefore' = BodiesBefore
  BY DEF BodiesBefore
<1>8. UNCHANGED <<structs, preds>> => BodiesIn' = BodiesIn
  BY DEF BodiesIn
<1>9. CASE l.command = ".structure"
  <2>1. /\ structs' = Delayed(structs, structs0, l).table /\ ~Delayed(structs, structs0, l).error
        /\ UNCHANGED <<impls, preds>>
    BY <1>9, LineEffect, Zenon
  <2>2. /\ Members(structs) = BodiesIn[".structure"] /\ Members(structs0) = BodiesBefore[".structure"]
        /\ BodiesIn'[".structure"] = Members(structs')
        /\ \A x \in Delayable \ {".structure"} : BodiesIn'[x] = BodiesIn[x]
        /\ ".structure" \in Delayable
    BY <2>1 DEF BodiesIn, BodiesBefore, Delayable
  <2> QED
    BY <1>4, <1>6, <1>7, <1>9, <2>1, <2>2, DelayedGathered, Zenon
<1>10. CASE l.command = ".predicate"
  <2>1. /\ preds' = Delayed(preds, preds0, l).table /\ ~Delayed(preds, preds0, l).error
        /\ UNCHANGED <<impls, structs>>
    BY <1>10, LineEffect, Zenon
  <2>2. /\ Members(preds) = BodiesIn[".predicate"] /\ Members(preds0) = BodiesBefore[".predicate"]
        /\ BodiesIn'[".predicate"] = Members(preds')
        /\ \A x \in Delayable \ {".predicate"} : BodiesIn'[x] = BodiesIn[x]
        /\ ".predicate" \in Delayable
    BY <2>1 DEF BodiesIn, BodiesBefore, Delayable
  <2> QED
    BY <1>4, <1>6, <1>7, <1>10, <2>1, <2>2, DelayedGathered, Zenon
<1>11. CASE l.command = ".provides"
  <2>1. /\ impls' = <<<<l.symbol, manifest_path>>>> \o impls /\ l.symbol \notin Keys(impls)
        /\ UNCHANGED <<structs, preds>>
    BY <1>11, LineEffect, Zenon
  <2>2. Members(impls') = {<<l.symbol, cmd.paths[n]>>} \union Members(impls)
    BY <1>2, <1>6, <2>1, PushMembers
  <2>3. \A e \in Members(impls) : e[1] # l.symbol
    BY <1>6, <2>1, KeysAre
  <2> HIDE DEF l, n, U, V
  <2>4. Gathered(n, cmd.paths, Manifests, V, Members(impls'), BodiesIn)
    BY <1>1, <1>2, <1>5, <1>11, <2>2, <2>3, ProvidesGathered, Zenon
  <2> QED
    BY <1>5, <1>7, <1>8, <2>1, <2>4 DEF n, V
<1>12. CASE l.command = ".requires"
  <2>1. l.symbol \in Keys(impls) /\ UNCHANGED <<impls, structs, preds>>
    BY <1>12, LineEffect, Zenon
  <2>2. PICK e \in Members(impls) : e[1] = l.symbol
    BY <1>6, <2>1, KeysAre
  <2> HIDE DEF l, n, U, V
  <2>3. Gathered(n, cmd.paths, Manifests, V, Members(impls), BodiesIn)
    BY <1>1, <1>2, <1>5, <1>12, <2>2, RequiresGathered
  <2> QED
    BY <1>5, <1>7, <1>8, <2>1, <2>3 DEF n, V
<1>13. CASE l.command \in {".imports", ".produces"}
  <2>1. UNCHANGED <<impls, structs, preds>>
    BY <1>13, LineEffect, Zenon
  <2> HIDE DEF l, n, U, V
  <2>2. Gathered(n, cmd.paths, Manifests, V, Members(impls), BodiesIn)
    BY <1>1, <1>2, <1>5, <1>13, ModuleGathered
  <2> QED
    BY <1>5, <1>7, <1>8, <2>1, <2>2, Zenon DEF n, V
<1> QED
  BY <1>3, <1>9, <1>10, <1>11, <1>12, <1>13 DEF ManifestCommands

LEMMA LinkLineKeeps == LInv /\ LinkLine => LInv'
<1> SUFFICES ASSUME LInv, LinkLine PROVE LInv'
  OBVIOUS
<1>1. /\ phase = "lines" /\ lines # <<>> /\ ManifestLine(Head(lines)) /\ lines' = Tail(lines)
      /\ UNCHANGED <<dlls, contents, cmd, phase, modulepaths, manifest_path,
                     structs0, preds0, result, links>>
  BY DEF LinkLine
<1>2. IsSeq(lines') /\ Members(lines) = {Head(lines)} \union Members(lines')
  BY <1>1, TailMembers DEF LInv, TypeInv
<1>3. Head(lines).command \in ManifestCommands
  BY <1>1, <1>2, CurrentManifest, Zenon DEF LInv, Describes
<1>4. /\ IsSeq(impls') /\ IsSeq(structs') /\ IsSeq(preds') /\ IsSeq(mods')
      /\ errors' \in BOOLEAN /\ (errors => errors')
  BY <1>1, <1>3, LineTypes DEF LInv
<1>5. Manifests' = Manifests /\ DllInv' /\ Begun' = Begun
  BY <1>1, ManifestsKept DEF LInv, Begun
<1>6. TypeInv'
  BY <1>1, <1>2, <1>4 DEF LInv, TypeInv
<1>7. PlaceInv'
  BY <1>1, <1>2, <1>5 DEF LInv, PlaceInv
<1>8. TablesInv'
  <2>1. Clean' => ~errors'
    BY <1>1, <1>6 DEF Clean, LinkedProgram, LInv, TypeInv
  <2>2. Unread' = Members(Tail(lines))
    BY <1>1 DEF Unread
  <2> QED
    BY <1>1, <1>5, <2>1, <2>2, LineGathered DEF TablesInv
<1> QED
  BY <1>5, <1>6, <1>7, <1>8 DEF LInv

LEMMA ReadManifestKeeps == LInv /\ ReadManifest => LInv'
<1> SUFFICES ASSUME LInv, ReadManifest PROVE LInv'
  OBVIOUS
<1> DEFINE n == Begun
<1>1. /\ phase = "modules" /\ modulepaths # <<>>
      /\ manifest_path' = Head(modulepaths) /\ modulepaths' = Tail(modulepaths)
      /\ structs0' = structs /\ preds0' = preds
      /\ UNCHANGED <<dlls, contents, cmd, impls, structs, preds, mods, errors, links>>
  BY DEF ReadManifest, tables
<1>2. /\ IsSeq(modulepaths') /\ Len(modulepaths) \in Nat /\ Len(modulepaths) # 0
      /\ Len(modulepaths') = Len(modulepaths) - 1
      /\ \A k \in 1..Len(modulepaths') : modulepaths'[k] = modulepaths[k + 1]
      /\ Head(modulepaths) = modulepaths[1]
  <2>1. modulepaths \in Seq(Members(modulepaths))
    BY DEF LInv, TypeInv, IsSeq
  <2> QED
    BY <1>1, <2>1, TailMembers DEF IsSeq
<1>3. Manifests' = Manifests /\ DllInv'
  BY <1>1, ManifestsKept DEF LInv
<1>4. /\ n \in Nat /\ Len(cmd.paths) \in Nat /\ Begun' = n + 1 /\ n + 1 \in 1..Len(cmd.paths)
      /\ manifest_path' = cmd.paths[n + 1]
  <2>1. Len(cmd.paths) \in Nat /\ n \in Nat
    BY DEF LInv, TypeInv, PlaceInv
  <2>2. Begun' = n + 1 /\ n + 1 \in 1..Len(cmd.paths)
    BY <1>1, <1>2, <2>1 DEF Begun
  <2>3. modulepaths[1] = cmd.paths[n + 1]
    BY <1>2 DEF LInv, PlaceInv
  <2> QED
    BY <1>1, <1>2, <2>1, <2>2, <2>3
<1>5. \A k \in 1..Len(modulepaths') : modulepaths'[k] = cmd.paths[Begun' + k]
  <2>1. ASSUME NEW k \in 1..Len(modulepaths') PROVE modulepaths'[k] = cmd.paths[Begun' + k]
    <3>1. k + 1 \in 1..Len(modulepaths) /\ n + (k + 1) = Begun' + k
      BY <1>2, <1>4
    <3>2. modulepaths[k + 1] = cmd.paths[n + (k + 1)]
      BY <3>1 DEF LInv, PlaceInv
    <3> QED
      BY <1>2, <3>1, <3>2
  <2> QED
    BY <2>1
<1>6. CASE manifest_path' \in Source \union DOMAIN dlls
  <2>1. lines' = ManifestOf(manifest_path') /\ phase' = "lines" /\ UNCHANGED result
    BY <1>6 DEF ReadManifest, ManifestOf
  <2>2. IsSeq(lines') /\ Members(lines') = Manifests[n + 1]
    <3>1. IsSeq(lines')
      BY <1>6, <2>1, ManifestDescribed DEF LInv
    <3>2. Manifests[n + 1] = Members(ManifestOf(cmd.paths[n + 1]))
      BY <1>4, Zenon DEF Manifests
    <3> QED
      BY <1>4, <2>1, <3>1, <3>2
  <2>3. TypeInv'
    BY <1>1, <1>2, <2>1, <2>2 DEF LInv, TypeInv
  <2>4. PlaceInv'
    <3>1. \A k \in 1..(n + 1) : k = n + 1 \/ k \in 1..n
      BY <1>4
    <3>2. \A k \in 1..(n + 1) : cmd.paths[k] \in Source \union DOMAIN dlls
      BY <1>1, <1>4, <1>6, <3>1, Zenon DEF LInv, PlaceInv
    <3>3. result # "linked"
      BY <1>1 DEF LInv, TypeInv
    <3>4. /\ Begun' \in Nat /\ Begun' # 0 /\ manifest_path' = cmd'.paths[Begun']
          /\ Members(lines') \subseteq Manifests'[Begun']
      BY <1>1, <1>3, <1>4, <2>2
    <3>5. /\ \A k \in 1..Len(modulepaths') : modulepaths'[k] = cmd'.paths[Begun' + k]
          /\ \A k \in 1..Begun' : cmd'.paths[k] \in Source \union DOMAIN dlls'
      BY <1>1, <1>4, <1>5, <3>2
    <3>6. ~(phase' \in {"exports", "emit"} \/ result' = "linked")
      BY <2>1, <3>3
    <3> QED
      BY <3>4, <3>5, <3>6 DEF PlaceInv
  <2>5. TablesInv'
    <3>1. Clean' => Gathered(n, cmd.paths, Manifests, {}, Members(impls), BodiesIn)
      BY <1>1, <2>1, Zenon DEF Clean, LinkedProgram, LInv, TypeInv, TablesInv, Unread
    <3>2. Unread' = Manifests[n + 1] /\ BodiesIn' = BodiesIn /\ BodiesBefore' = BodiesIn
      BY <1>1, <2>1, <2>2 DEF Unread, BodiesIn, BodiesBefore
    <3>3. Clean' => Gathered(n + 1, cmd.paths, Manifests, Manifests[n + 1], Members(impls), BodiesIn)
      <4> HIDE DEF n
      <4> QED
        BY <1>4, <3>1, BeginGathered
    <3>4. \A c \in Delayable : Extends(BodiesIn[c], BodiesIn[c], c, Manifests[n + 1])
      BY DEF Extends
    <3> QED
      BY <1>1, <1>3, <1>4, <3>2, <3>3, <3>4 DEF TablesInv
  <2> QED
    BY <1>3, <2>3, <2>4, <2>5 DEF LInv
<1>7. CASE manifest_path' \notin Source \union DOMAIN dlls
  <2>1. phase' = "idle" /\ result' = "failed" /\ UNCHANGED lines
    BY <1>7 DEF ReadManifest, Fail
  <2>2. TypeInv'
    BY <1>1, <1>2, <2>1 DEF LInv, TypeInv
  <2>3. PlaceInv'
    BY <1>1, <1>3, <1>4, <1>5, <2>1 DEF PlaceInv
  <2>4. TablesInv'
    BY <2>1 DEF TablesInv, Clean, LinkedProgram
  <2> QED
    BY <1>3, <2>2, <2>3, <2>4 DEF LInv
<1> QED
  BY <1>6, <1>7

LEMMA StartLinkKeeps ==
  ASSUME LInv, NEW c \in Commands, c.isLibrary <=> c.dllManifest # "none",
         StartLink(c.paths, c.isLibrary, c.dllManifest, c.exports)
  PROVE  LInv'
<1>1. /\ c.paths \in Seq(Source \union Dll) /\ IsSeq(c.exports)
      /\ c.dllManifest \in Dll \union {"none"}
  <2>1. /\ c.paths \in Arguments /\ c.dllManifest \in Dll \union {"none"}
        /\ c.exports \in Export \union {<<>>}
    BY DEF Commands
  <2>2. IsSeq(c.exports)
    <3>1. CASE c.exports \in Export
      BY <3>1, LinkAssumption, SeqIsSeq, Zenon
    <3>2. CASE c.exports = <<>>
      BY <3>2, EmptyMembers
    <3> QED
      BY <2>1, <3>1, <3>2
  <2> QED
    BY <2>1, <2>2, LinkAssumption
<1>2. /\ cmd'.paths = c.paths /\ cmd'.isLibrary = c.isLibrary
      /\ cmd'.dllManifest = c.dllManifest /\ cmd'.exports = c.exports
      /\ phase' = "modules" /\ modulepaths' = c.paths
      /\ impls' = <<>> /\ structs' = <<>> /\ preds' = <<>> /\ mods' = <<>>
      /\ errors' = FALSE /\ result' = "none"
      /\ UNCHANGED <<dlls, contents, manifest_path, lines, structs0, preds0>>
  BY DEF StartLink
<1>3. TypeInv'
  BY <1>1, <1>2, EmptyMembers, SeqIsSeq, Zenon DEF LInv, TypeInv
<1>4. Begun' = 0 /\ Len(c.paths) \in Nat
  BY <1>1, <1>2 DEF Begun
<1>5. PlaceInv'
  BY <1>2, <1>4 DEF PlaceInv
<1>6. DllInv'
  BY <1>2 DEF LInv, DllInv
<1>7. TablesInv'
  <2>1. Members(impls') = {} /\ \A x \in Delayable : BodiesIn'[x] = {}
    BY <1>2, EmptyMembers DEF BodiesIn, Delayable
  <2>2. Gathered(0, cmd'.paths, Manifests', Unread', Members(impls'), BodiesIn')
    BY <2>1, NothingGathered
  <2> QED
    BY <1>2, <1>4, <2>2 DEF TablesInv
<1> QED
  BY <1>3, <1>5, <1>6, <1>7 DEF LInv

LEMMA EndManifestKeeps == LInv /\ EndManifest => LInv'
<1> SUFFICES ASSUME LInv, EndManifest PROVE LInv'
  OBVIOUS
<1>1. /\ phase = "lines" /\ lines = <<>> /\ phase' = "modules"
      /\ UNCHANGED <<dlls, contents, cmd, modulepaths, manifest_path, lines, impls, structs,
                     preds, mods, structs0, preds0, errors, result, links>>
  BY DEF EndManifest, tables
<1>2. Manifests' = Manifests /\ DllInv' /\ Begun' = Begun
  BY <1>1, ManifestsKept DEF LInv, Begun
<1>3. TypeInv'
  BY <1>1 DEF LInv, TypeInv
<1>4. PlaceInv'
  BY <1>1, <1>2 DEF LInv, PlaceInv, TypeInv
<1>5. TablesInv'
  <2>1. Unread = {} /\ Unread' = {}
    BY <1>1, EmptyMembers DEF Unread
  <2>2. (Clean' => Clean) /\ BodiesIn' = BodiesIn
    BY <1>1 DEF Clean, LinkedProgram, BodiesIn, LInv, TypeInv
  <2> QED
    BY <1>1, <1>2, <2>1, <2>2, Zenon DEF LInv, TablesInv
<1> QED
  BY <1>2, <1>3, <1>4, <1>5 DEF LInv

(* A step after the manifests, which changes none of the tables but mods.   *)
LEMMA AfterManifestsKeeps ==
  ASSUME LInv, modulepaths = <<>>, phase # "lines", phase' # "lines", phase # "idle",
         UNCHANGED <<dlls, contents, cmd, modulepaths, impls, structs, preds>>, TypeInv',
         phase' \in {"modules", "exports", "emit"} \/ result' = "linked" => Clean
  PROVE  LInv'
<1>1. Manifests' = Manifests /\ DllInv' /\ Begun' = Begun
  BY ManifestsKept DEF LInv, Begun
<1>2. PlaceInv'
  BY <1>1 DEF LInv, PlaceInv
<1>3. TablesInv'
  <2>1. Clean' => Clean
    BY DEF Clean, LinkedProgram, TypeInv
  <2>2. Unread' = Unread /\ BodiesIn' = BodiesIn
    BY DEF Unread, BodiesIn
  <2> QED
    BY <1>1, <2>1, <2>2 DEF LInv, TablesInv
<1> QED
  BY <1>1, <1>2, <1>3 DEF LInv

LEMMA CheckProgramKeeps == LInv /\ CheckProgram => LInv'
<1> SUFFICES ASSUME LInv, CheckProgram PROVE LInv'
  OBVIOUS
<1>1. /\ phase = "modules" /\ modulepaths = <<>>
      /\ UNCHANGED <<dlls, contents, cmd, modulepaths, manifest_path, impls, structs, preds,
                     structs0, preds0, links>>
  BY DEF CheckProgram
<1>2. errors' \in BOOLEAN /\ (errors => errors') /\ IsSeq(mods')
  <2>1. errors \in BOOLEAN /\ IsSeq(mods)
    BY DEF LInv, TypeInv
  <2>2. \A m : IsSeq(Consume(mods, m))
    BY <2>1, ConsumeIsSeq
  <2> QED
    BY <2>1, <2>2, Zenon DEF CheckProgram, CheckMain
<1>3. \/ errors' /\ phase' = "idle" /\ result' = "failed" /\ UNCHANGED lines
      \/ ~errors' /\ phase' = "exports" /\ lines' = cmd.exports /\ UNCHANGED result
  BY <1>2 DEF CheckProgram, Fail
<1>4. TypeInv'
  BY <1>1, <1>2, <1>3 DEF LInv, TypeInv
<1>5. phase' \in {"modules", "exports", "emit"} \/ result' = "linked" => Clean
  BY <1>1, <1>2, <1>3 DEF Clean, LInv, TypeInv
<1> QED
  BY <1>1, <1>3, <1>4, <1>5, AfterManifestsKeeps

LEMMA ExportLineKeeps == LInv /\ ExportLine => LInv'
<1> SUFFICES ASSUME LInv, ExportLine PROVE LInv'
  OBVIOUS
<1>1. /\ phase = "exports" /\ lines # <<>> /\ lines' = Tail(lines)
      /\ UNCHANGED <<dlls, contents, cmd, modulepaths, manifest_path, impls, structs, preds,
                     structs0, preds0, links>>
  BY DEF ExportLine
<1>2. modulepaths = <<>> /\ Clean
  BY <1>1 DEF LInv, PlaceInv, Clean
<1>3. errors' \in BOOLEAN /\ IsSeq(mods') /\ IsSeq(lines')
  <2>1. errors \in BOOLEAN /\ IsSeq(mods) /\ IsSeq(lines)
    BY DEF LInv, TypeInv
  <2>2. \A m : IsSeq(Consume(mods, m))
    BY <2>1, ConsumeIsSeq
  <2> QED
    BY <1>1, <2>1, <2>2, TailMembers, Zenon DEF ExportLine
<1>4. \/ phase' = "idle" /\ result' = "failed"
      \/ UNCHANGED <<phase, result>>
  BY Zenon DEF ExportLine, Fail
<1>5. TypeInv'
  BY <1>1, <1>3, <1>4 DEF LInv, TypeInv
<1> QED
  BY <1>1, <1>2, <1>4, <1>5, AfterManifestsKeeps

LEMMA EndExportsKeeps == LInv /\ EndExports => LInv'
<1> SUFFICES ASSUME LInv, EndExports PROVE LInv'
  OBVIOUS
<1>1. /\ phase = "exports"
      /\ UNCHANGED <<dlls, contents, cmd, modulepaths, manifest_path, lines, impls, structs,
                     preds, mods, structs0, preds0, errors, links>>
  BY DEF EndExports, tables
<1>2. modulepaths = <<>> /\ Clean
  BY <1>1 DEF LInv, PlaceInv, Clean
<1>3. \/ phase' = "idle" /\ result' = "linked"
      \/ phase' = "emit" /\ UNCHANGED result /\ cmd.dllManifest # "none"
  <2>1. IF cmd.dllManifest = "none" THEN phase' = "idle" /\ result' = "linked"
        ELSE phase' = "emit" /\ UNCHANGED result
    BY DEF EndExports
  <2> QED
    BY <2>1
<1>4. TypeInv'
  BY <1>1, <1>3 DEF LInv, TypeInv
<1> QED
  BY <1>1, <1>2, <1>3, <1>4, AfterManifestsKeeps

(* The lines N of a DLL manifest say what the tables hold. *)
Summarises(N, I, B) ==
  /\ \A l \in N : l.command \in ManifestCommands
  /\ \A f : Provided(f, N) <=> \E e \in I : e[1] = f /\ e[2] \notin Dll
  /\ \A f : Required(f, N) <=> \E e \in I : e[1] = f /\ e[2] \in Dll
  /\ \A c \in Delayable : \A x, d : Body(c, x, d, N) => \E e \in B[c] : e[1] = x /\ e[2] = d
  /\ \A c \in Delayable : \A e \in B[c] : e[1] \notin LocalDecl => Body(c, e[1], e[2], N)

(* Such lines describe the source files that are linked into the DLL.       *)
LEMMA DllDescribed ==
  ASSUME NEW n \in Nat, NEW paths, NEW M, NEW I, NEW B, Gathered(n, paths, M, {}, I, B),
         \A k \in 1..n : paths[k] \in Source => Describes(M[k], {paths[k]}),
         \A k \in 1..n : paths[k] \in Source \union Dll,
         NEW own, own = {paths[k] : k \in 1..n} \intersect Source,
         NEW N, Summarises(N, I, B)
  PROVE  Describes(N, own)
<1>1. /\ \A l \in N : l.command \in ManifestCommands
      /\ \A f : Provided(f, N) <=> \E e \in I : e[1] = f /\ e[2] \notin Dll
      /\ \A f : Required(f, N) <=> \E e \in I : e[1] = f /\ e[2] \in Dll
  BY Zenon DEF Summarises
<1>2. \A s \in own : \E k \in 1..n : s = paths[k] /\ s \in Source /\ s \notin Dll
  BY LinkAssumption, Zenon
<1>3. \A k \in 1..n : paths[k] \in Source =>
        /\ \A f : Provided(f, M[k]) <=> Implements(f, paths[k])
        /\ \A f \in Unit[paths[k]].prototypes_used : Provided(f, M[k]) \/ Required(f, M[k])
        /\ \A c \in Delayable : \A d \in Bodies(c, paths[k]) :
             d[1] \notin LocalDecl => Body(c, d[1], d[2], M[k])
  <2> SUFFICES ASSUME NEW k \in 1..n, paths[k] \in Source
               PROVE  /\ \A f : Provided(f, M[k]) <=> Implements(f, paths[k])
                      /\ \A f \in Unit[paths[k]].prototypes_used : Provided(f, M[k]) \/ Required(f, M[k])
                      /\ \A c \in Delayable : \A d \in Bodies(c, paths[k]) :
                           d[1] \notin LocalDecl => Body(c, d[1], d[2], M[k])
    BY Zenon
  <2>1. Describes(M[k], {paths[k]})
    OBVIOUS
  <2>2. paths[k] \in {paths[k]} /\ \A s \in {paths[k]} : s = paths[k]
    OBVIOUS
  <2>3. \A f : Provided(f, M[k]) <=> Implements(f, paths[k])
    BY <2>1, <2>2, Zenon DEF Describes
  <2>4. \A f \in Unit[paths[k]].prototypes_used : Provided(f, M[k]) \/ Required(f, M[k])
    BY <2>1, <2>2, Zenon DEF Describes
  <2>5. \A c \in Delayable : \A d \in Bodies(c, paths[k]) :
          d[1] \notin LocalDecl => Body(c, d[1], d[2], M[k])
    BY <2>1, <2>2, Zenon DEF Describes
  <2> QED
    BY <2>3, <2>4, <2>5, Zenon
<1>4. ASSUME NEW s \in own, NEW f, Implements(f, s) PROVE Provided(f, N)
  <2>1. PICK k \in 1..n : s = paths[k] /\ s \in Source /\ s \notin Dll
    BY <1>2
  <2>2. Provided(f, M[k])
    BY <1>3, <1>4, <2>1, Zenon
  <2>3. PICK e \in I : e[1] = f /\ e[2] = paths[k]
    <3>1. InTable(I, f, paths[k])
      BY <2>2, ProvidedListed, Zenon
    <3> QED
      BY <3>1 DEF InTable
  <2> QED
    BY <1>1, <2>1, <2>3, Zenon
<1>5. ASSUME NEW f, Provided(f, N) PROVE \E s \in own : Implements(f, s)
  <2>1. PICK e \in I : e[1] = f /\ e[2] \notin Dll
    BY <1>1, <1>5, Zenon
  <2>2. PICK j \in 1..n : e[2] = paths[j] /\ Provided(f, M[j])
    BY <2>1, Zenon DEF Gathered, Justified
  <2>3. paths[j] \in Source
    BY <2>1, <2>2
  <2>4. paths[j] \in own
    BY <2>3
  <2> QED
    BY <1>3, <2>2, <2>3, <2>4, Zenon
<1>6. ASSUME NEW s \in own, NEW t \in own, NEW f, Implements(f, s), Implements(f, t) PROVE s = t
  <2>1. PICK j \in 1..n : s = paths[j] /\ s \in Source
    BY <1>2
  <2>2. PICK k \in 1..n : t = paths[k] /\ t \in Source
    BY <1>2
  <2>3. Provided(f, M[j]) /\ Provided(f, M[k])
    BY <1>3, <1>6, <2>1, <2>2, Zenon
  <2>4. j = k
    BY <2>3, ProvidedOnce, Zenon
  <2> QED
    BY <2>1, <2>2, <2>4
<1>7. ASSUME NEW s \in own, NEW f \in Unit[s].prototypes_used
      PROVE  Provided(f, N) \/ Required(f, N)
  <2>1. PICK k \in 1..n : s = paths[k] /\ s \in Source
    BY <1>2
  <2>2. \E j \in 1..n : Provided(f, M[j])
    <3>1. CASE Provided(f, M[k])
      BY <3>1, Zenon
    <3>2. CASE Required(f, M[k])
      BY <3>2, RequiredProvided, Zenon
    <3> QED
      BY <1>3, <2>1, <3>1, <3>2, Zenon
  <2>3. PICK j \in 1..n : Provided(f, M[j])
    BY <2>2
  <2>4. PICK e \in I : e[1] = f /\ e[2] = paths[j]
    <3>1. InTable(I, f, paths[j])
      BY <2>3, ProvidedListed, Zenon
    <3> QED
      BY <3>1 DEF InTable
  <2> QED
    BY <1>1, <2>4, Zenon
<1>8. ASSUME NEW c \in Delayable, NEW s \in own, NEW d \in Bodies(c, s), d[1] \notin LocalDecl
      PROVE  Body(c, d[1], d[2], N)
  <2>1. PICK k \in 1..n : s = paths[k] /\ s \in Source
    BY <1>2
  <2>2. Body(c, d[1], d[2], M[k])
    BY <1>3, <1>8, <2>1, Zenon
  <2>3. PICK e \in B[c] : e[1] = d[1] /\ e[2] = d[2]
    <3>1. InTable(B[c], d[1], d[2])
      BY <2>2, BodyListed, Zenon
    <3> QED
      BY <3>1 DEF InTable
  <2>4. Body(c, e[1], e[2], N)
    BY <1>8, <2>3, Zenon DEF Summarises
  <2> QED
    BY <2>3, <2>4, Zenon
<1>9. ASSUME NEW c \in Delayable, NEW x, NEW d, NEW e, Body(c, x, d, N), Body(c, x, e, N)
      PROVE  d = e
  <2>1. Functional(B[c])
    BY DEF Gathered
  <2>2. \A y, z : Body(c, y, z, N) => \E b \in B[c] : b[1] = y /\ b[2] = z
    BY Zenon DEF Summarises
  <2>3. PICK b \in B[c] : b[1] = x /\ b[2] = d
    BY <1>9, <2>2, Zenon
  <2>4. PICK b2 \in B[c] : b2[1] = x /\ b2[2] = e
    BY <1>9, <2>2, Zenon
  <2> QED
    BY <2>1, <2>3, <2>4, Zenon DEF Functional
<1>10. own \subseteq Source
  OBVIOUS
<1> QED
  BY <1>1, <1>4, <1>5, <1>6, <1>7, <1>8, <1>9, <1>10, Zenon DEF Describes

LEMMA PrintedBodies ==
  ASSUME NEW c, NEW T, IsSeq(T)
  PROVE  /\ IsSeq(print_if_necesarry(c, T))
         /\ \A l \in Members(print_if_necesarry(c, T)) :
              l.command = c /\ \E e \in Members(T) : e[1] = l.symbol /\ e[2] = l.def
         /\ \A e \in Members(T) : e[1] \notin LocalDecl =>
              Line(c, e[1], e[2]) \in Members(print_if_necesarry(c, T))
<1> DEFINE K == {e \in Members(T) : e[3] \notin Dll \/ e[1] \notin LocalDecl}
<1>1. IsFiniteSet(K)
  <2>1. K \in SUBSET Members(T)
    OBVIOUS
  <2> HIDE DEF K
  <2> QED
    BY <2>1, MembersFinite, FS_Subset
<1>2. print_if_necesarry(c, T) = DefLinesOf(c, K)
  BY DEF print_if_necesarry
<1>3. /\ IsSeq(DefLinesOf(c, K))
      /\ Members(DefLinesOf(c, K)) = {Line(c, d[1], d[2]) : d \in K}
  BY <1>1, DefLinesOfMembers
<1>4. \A l \in {Line(c, d[1], d[2]) : d \in K} :
        l.command = c /\ \E e \in Members(T) : e[1] = l.symbol /\ e[2] = l.def
  BY DEF Line
<1>5. \A e \in Members(T) : e[1] \notin LocalDecl => Line(c, e[1], e[2]) \in {Line(c, d[1], d[2]) : d \in K}
  OBVIOUS
<1> HIDE DEF K
<1> QED
  BY <1>2, <1>3, <1>4, <1>5

LEMMA PrintedImpls ==
  ASSUME NEW T, IsSeq(T), NEW ls, ls = [k \in DOMAIN T |-> print_requires_or_provides(T[k])]
  PROVE  /\ IsSeq(ls) /\ \A l \in Members(ls) : l.command \in {".requires", ".provides"}
         /\ \A f : Provided(f, Members(ls)) <=> \E e \in Members(T) : e[1] = f /\ e[2] \notin Dll
         /\ \A f : Required(f, Members(ls)) <=> \E e \in Members(T) : e[1] = f /\ e[2] \in Dll
<1>1. DOMAIN T = 1..Len(T) /\ Len(T) \in Nat
  BY SeqIsSeq DEF IsSeq
<1> DEFINE S == {print_requires_or_provides(e) : e \in Members(T)}
<1>2. ls \in [1..Len(T) -> S] /\ \A x \in S : \E k \in 1..Len(T) : ls[k] = x
  BY <1>1 DEF Members
<1>3. \A e : LET l == print_requires_or_provides(e)
             IN  /\ l.symbol = e[1]
                 /\ l.command = IF e[2] \in Dll THEN ".requires" ELSE ".provides"
  BY DEF print_requires_or_provides, Line
<1>4. /\ \A l \in S : l.command \in {".requires", ".provides"}
      /\ \A f : Provided(f, S) <=> \E e \in Members(T) : e[1] = f /\ e[2] \notin Dll
      /\ \A f : Required(f, S) <=> \E e \in Members(T) : e[1] = f /\ e[2] \in Dll
  <2>1. \A l \in S : l.command \in {".requires", ".provides"}
    BY <1>3
  <2>2. \A f : Provided(f, S) <=> \E e \in Members(T) : e[1] = f /\ e[2] \notin Dll
    BY <1>3 DEF Provided
  <2>3. \A f : Required(f, S) <=> \E e \in Members(T) : e[1] = f /\ e[2] \in Dll
    BY <1>3 DEF Required
  <2> QED
    BY <2>1, <2>2, <2>3
<1> HIDE DEF S
<1>5. IsSeq(ls) /\ Members(ls) = S
  BY <1>1, <1>2, MappedMembers, Zenon
<1> QED
  BY <1>4, <1>5

LEMMA PrintedModules ==
  ASSUME NEW T, IsSeq(T), NEW ls, ls = [k \in DOMAIN T |-> print_module(T[k])]
  PROVE  IsSeq(ls) /\ \A l \in Members(ls) : l.command \in {".imports", ".produces"}
<1>1. DOMAIN T = 1..Len(T) /\ Len(T) \in Nat
  BY SeqIsSeq DEF IsSeq
<1> DEFINE S == {print_module(e) : e \in Members(T)}
<1>2. ls \in [1..Len(T) -> S] /\ \A x \in S : \E k \in 1..Len(T) : ls[k] = x
  BY <1>1 DEF Members
<1>3. \A l \in S : l.command \in {".imports", ".produces"}
  BY DEF print_module, Line
<1> HIDE DEF S
<1>4. IsSeq(ls) /\ Members(ls) = S
  BY <1>1, <1>2, MappedMembers, Zenon
<1> QED
  BY <1>3, <1>4

(* The lines of a DLL manifest, as EmitDllManifest writes them. *)
LEMMA EmittedLines ==
  ASSUME TypeInv,
         NEW a, a = [k \in DOMAIN impls |-> print_requires_or_provides(impls[k])],
         NEW d, d = [k \in DOMAIN mods |-> print_module(mods[k])],
         NEW ls, ls = a \o print_if_necesarry(".structure", structs)
                        \o print_if_necesarry(".predicate", preds) \o d
  PROVE  IsSeq(ls) /\ Summarises(Members(ls), Members(impls), BodiesIn)
<1> DEFINE b == print_if_necesarry(".structure", structs)
           c == print_if_necesarry(".predicate", preds)
           N == Members(ls)
<1>1. IsSeq(impls) /\ IsSeq(structs) /\ IsSeq(preds) /\ IsSeq(mods)
  BY DEF TypeInv
<1>2. /\ IsSeq(a) /\ \A l \in Members(a) : l.command \in {".requires", ".provides"}
      /\ \A f : Provided(f, Members(a)) <=> \E e \in Members(impls) : e[1] = f /\ e[2] \notin Dll
      /\ \A f : Required(f, Members(a)) <=> \E e \in Members(impls) : e[1] = f /\ e[2] \in Dll
  BY <1>1, PrintedImpls
<1>3. IsSeq(d) /\ \A l \in Members(d) : l.command \in {".imports", ".produces"}
  BY <1>1, PrintedModules, Zenon
<1>4. /\ IsSeq(b)
      /\ \A l \in Members(b) :
           l.command = ".structure" /\ \E e \in Members(structs) : e[1] = l.symbol /\ e[2] = l.def
      /\ \A e \in Members(structs) : e[1] \notin LocalDecl =>
           Line(".structure", e[1], e[2]) \in Members(b)
  BY <1>1, PrintedBodies, Zenon
<1>5. /\ IsSeq(c)
      /\ \A l \in Members(c) :
           l.command = ".predicate" /\ \E e \in Members(preds) : e[1] = l.symbol /\ e[2] = l.def
      /\ \A e \in Members(preds) : e[1] \notin LocalDecl =>
           Line(".predicate", e[1], e[2]) \in Members(c)
  BY <1>1, PrintedBodies, Zenon
<1>6. ls = a \o b \o c \o d
  OBVIOUS
<1> HIDE DEF b, c
<1>7. IsSeq(ls) /\ N = Members(a) \union Members(b) \union Members(c) \union Members(d)
  <2>0. IsSeq(a) /\ IsSeq(b) /\ IsSeq(c) /\ IsSeq(d)
    BY <1>2, <1>3, <1>4, <1>5, Zenon
  <2>1. /\ IsSeq(a \o b \o c \o d)
        /\ Members(a \o b \o c \o d) = Members(a) \union Members(b) \union Members(c) \union Members(d)
    BY ONLY <2>0, ConcatFour
  <2> QED
    BY <1>6, <2>1, Zenon
<1> HIDE DEF N
<1>8. \A l \in N : l.command \in ManifestCommands
  BY <1>2, <1>3, <1>4, <1>5, <1>7, Zenon DEF ManifestCommands
<1>9. \A l \in N : l.command \in {".requires", ".provides"} <=> l \in Members(a)
  BY <1>2, <1>3, <1>4, <1>5, <1>7, Zenon
<1>10. \A f : (Provided(f, N) <=> Provided(f, Members(a))) /\ (Required(f, N) <=> Required(f, Members(a)))
  BY <1>7, <1>9, Zenon DEF Provided, Required
<1>11. /\ \A x, y : Body(".structure", x, y, N) => \E e \in Members(structs) : e[1] = x /\ e[2] = y
       /\ \A e \in Members(structs) : e[1] \notin LocalDecl => Body(".structure", e[1], e[2], N)
  <2>1. \A l \in N : l.command = ".structure" => l \in Members(b)
    BY <1>2, <1>3, <1>4, <1>5, <1>7, Zenon
  <2>2. \A x, y : Body(".structure", x, y, N) => \E e \in Members(structs) : e[1] = x /\ e[2] = y
    BY <1>4, <2>1, Zenon DEF Body
  <2>3. ASSUME NEW e \in Members(structs), e[1] \notin LocalDecl
        PROVE  Body(".structure", e[1], e[2], N)
    <3>1. Line(".structure", e[1], e[2]) \in N
      BY <1>4, <1>7, <2>3
    <3> QED
      BY <3>1, Zenon DEF Body, Line
  <2> QED
    BY <2>2, <2>3
<1>12. /\ \A x, y : Body(".predicate", x, y, N) => \E e \in Members(preds) : e[1] = x /\ e[2] = y
       /\ \A e \in Members(preds) : e[1] \notin LocalDecl => Body(".predicate", e[1], e[2], N)
  <2>1. \A l \in N : l.command = ".predicate" => l \in Members(c)
    BY <1>2, <1>3, <1>4, <1>5, <1>7, Zenon
  <2>2. \A x, y : Body(".predicate", x, y, N) => \E e \in Members(preds) : e[1] = x /\ e[2] = y
    BY <1>5, <2>1, Zenon DEF Body
  <2>3. ASSUME NEW e \in Members(preds), e[1] \notin LocalDecl
        PROVE  Body(".predicate", e[1], e[2], N)
    <3>1. Line(".predicate", e[1], e[2]) \in N
      BY <1>5, <1>7, <2>3
    <3> QED
      BY <3>1, Zenon DEF Body, Line
  <2> QED
    BY <2>2, <2>3
<1>13. /\ BodiesIn[".structure"] = Members(structs) /\ BodiesIn[".predicate"] = Members(preds)
       /\ \A x \in Delayable : x = ".structure" \/ x = ".predicate"
  BY DEF BodiesIn, Delayable
<1>14. /\ \A x \in Delayable : \A y, z :
            Body(x, y, z, N) => \E e \in BodiesIn[x] : e[1] = y /\ e[2] = z
       /\ \A x \in Delayable : \A e \in BodiesIn[x] :
            e[1] \notin LocalDecl => Body(x, e[1], e[2], N)
  BY <1>11, <1>12, <1>13
<1> QED
  BY <1>2, <1>7, <1>8, <1>10, <1>14, Zenon DEF N, Summarises

LEMMA EmitKeeps == LInv /\ EmitDllManifest => LInv'
<1> SUFFICES ASSUME LInv, EmitDllManifest PROVE LInv'
  OBVIOUS
<1> DEFINE a == [k \in DOMAIN impls |-> print_requires_or_provides(impls[k])]
           d == [k \in DOMAIN mods |-> print_module(mods[k])]
           ls == a \o print_if_necesarry(".structure", structs)
                   \o print_if_necesarry(".predicate", preds) \o d
           own == Members(cmd.paths) \intersect Source
           n == Begun
           out == cmd.dllManifest
<1>1. /\ phase = "emit" /\ phase' = "idle" /\ result' = "linked"
      /\ dlls' = [x \in DOMAIN dlls \union {out} |-> IF x = out THEN ls ELSE dlls[x]]
      /\ contents' = [x \in DOMAIN dlls' |-> IF x = out THEN own ELSE contents[x]]
      /\ UNCHANGED <<cmd, modulepaths, manifest_path, lines, impls, structs, preds, mods,
                     structs0, preds0, errors, links>>
  BY DEF EmitDllManifest, tables
<1>2. /\ modulepaths = <<>> /\ out \in Dll /\ out # "none" /\ cmd.isLibrary
      /\ n = Len(cmd.paths) /\ n \in Nat
      /\ \A k \in 1..n : cmd.paths[k] \in Source \union DOMAIN dlls
  <2>1. modulepaths = <<>> /\ Len(cmd.paths) \in Nat
    BY <1>1 DEF LInv, PlaceInv, TypeInv
  <2>2. n = Len(cmd.paths)
    BY <2>1 DEF Begun
  <2> QED
    BY <1>1, <2>1, <2>2 DEF LInv, PlaceInv, TypeInv
<1>3. Gathered(n, cmd.paths, Manifests, {}, Members(impls), BodiesIn)
  BY <1>1, Zenon DEF LInv, TablesInv, Clean, Unread
<1>4. IsSeq(ls) /\ Summarises(Members(ls), Members(impls), BodiesIn)
  BY EmittedLines, Zenon DEF LInv
<1>5. Describes(Members(ls), own)
  <2> HIDE DEF ls, a, d
  <2>1. \A k \in 1..n : cmd.paths[k] \in Source => Describes(Manifests[k], {cmd.paths[k]})
    <3>1. ASSUME NEW k \in 1..n, cmd.paths[k] \in Source
          PROVE  Describes(Manifests[k], {cmd.paths[k]})
      <4>1. Manifests[k] = Members(ManifestOf(cmd.paths[k]))
        BY <1>2, Zenon DEF Manifests
      <4>2. Contents(cmd.paths[k]) = {cmd.paths[k]}
        BY <3>1 DEF Contents
      <4> QED
        BY <3>1, <4>1, <4>2, ManifestDescribed, Zenon DEF LInv
    <3> QED
      BY <3>1
  <2>2. \A k \in 1..n : cmd.paths[k] \in Source \union Dll
    BY <1>2 DEF LInv, DllInv
  <2>3. own = {cmd.paths[k] : k \in 1..n} \intersect Source
    BY <1>2 DEF Members
  <2> HIDE DEF own, n
  <2> QED
    BY <1>2, <1>3, <1>4, <2>1, <2>2, <2>3, DllDescribed, Zenon
<1>6. DllInv'
  <2> HIDE DEF ls, own, out, a, d
  <2>1. DOMAIN dlls' \subseteq Dll
    BY <1>1, <1>2 DEF LInv, DllInv, out
  <2>2. ASSUME NEW x \in DOMAIN dlls'
        PROVE  IsSeq(dlls'[x]) /\ Describes(Members(dlls'[x]), contents'[x])
    <3>1. CASE x = out
      <4>1. dlls'[x] = ls /\ contents'[x] = own
        BY <1>1, <3>1, Zenon
      <4> QED
        BY <1>4, <1>5, <4>1
    <3>2. CASE x # out
      <4>1. x \in DOMAIN dlls /\ dlls'[x] = dlls[x] /\ contents'[x] = contents[x]
        BY <1>1, <3>2
      <4> QED
        BY <4>1 DEF LInv, DllInv
    <3> QED
      BY <3>1, <3>2
  <2> QED
    BY <2>1, <2>2 DEF DllInv
<1>7. TypeInv'
  BY <1>1, <1>2, Zenon DEF LInv, TypeInv
<1>8. PlaceInv'
  <2>1. Begun' = Begun /\ DOMAIN dlls \subseteq DOMAIN dlls'
    BY <1>1 DEF Begun
  <2> QED
    BY <1>1, <1>2, <2>1 DEF LInv, PlaceInv
<1>9. TablesInv'
  BY <1>1, <1>2, Zenon DEF TablesInv, Clean, LinkedProgram
<1> QED
  BY <1>6, <1>7, <1>8, <1>9 DEF LInv

-----------------------------------------------------------------------------
(* The invariant holds, and says what a linked program is. *)

LEMMA InitLInv == Init => LInv
<1> SUFFICES ASSUME Init PROVE LInv
  OBVIOUS
<1>1. /\ dlls = <<>> /\ cmd = NoCmd /\ phase = "idle" /\ modulepaths = <<>> /\ lines = <<>>
      /\ impls = <<>> /\ structs = <<>> /\ preds = <<>> /\ mods = <<>>
      /\ structs0 = <<>> /\ preds0 = <<>> /\ errors = FALSE /\ result = "none"
  BY Zenon DEF Init
<1>2. cmd.paths = <<>> /\ cmd.exports = <<>> /\ cmd.dllManifest = "none"
  BY <1>1 DEF NoCmd
<1>3. TypeInv
  <2>1. <<>> \in Seq(Source \union Dll)
    OBVIOUS
  <2>2. /\ cmd.paths \in Seq(Source \union Dll) /\ IsSeq(cmd.exports)
        /\ IsSeq(modulepaths) /\ IsSeq(lines)
        /\ IsSeq(impls) /\ IsSeq(structs) /\ IsSeq(preds) /\ IsSeq(mods)
        /\ IsSeq(structs0) /\ IsSeq(preds0)
    BY <1>1, <1>2, <2>1, EmptyMembers, Zenon
  <2> QED
    BY <1>1, <1>2, <2>2, Zenon DEF TypeInv
<1>4. PlaceInv
  BY <1>1, <1>2 DEF PlaceInv, Begun
<1>5. DllInv
  BY <1>1 DEF DllInv
<1>6. TablesInv
  BY <1>1 DEF TablesInv, Clean, LinkedProgram
<1> QED
  BY <1>3, <1>4, <1>5, <1>6 DEF LInv

LEMMA StutterKeeps == LInv /\ UNCHANGED vars => LInv'
<1> SUFFICES ASSUME LInv, UNCHANGED vars PROVE LInv'
  OBVIOUS
<1>1. UNCHANGED <<dlls, contents, cmd, phase, modulepaths, manifest_path, lines, impls, structs,
                  preds, mods, structs0, preds0, errors, result>>
  BY DEF vars, tables
<1>2. Manifests' = Manifests /\ DllInv' /\ Begun' = Begun
  BY <1>1, ManifestsKept DEF LInv, Begun
<1>3. TypeInv'
  BY <1>1 DEF LInv, TypeInv
<1>4. PlaceInv'
  BY <1>1, <1>2 DEF LInv, PlaceInv
<1>5. Unread' = Unread /\ BodiesIn' = BodiesIn /\ BodiesBefore' = BodiesBefore /\ (Clean' <=> Clean)
  BY <1>1 DEF Unread, BodiesIn, BodiesBefore, Clean, LinkedProgram
<1>6. TablesInv'
  BY <1>1, <1>2, <1>5, Zenon DEF LInv, TablesInv
<1> QED
  BY <1>2, <1>3, <1>4, <1>6 DEF LInv

LEMMA LinkInvariant == Spec => []LInv
<1>1. LInv /\ [Next]_vars => LInv'
  <2> SUFFICES ASSUME LInv, [Next]_vars PROVE LInv'
    OBVIOUS
  <2>1. ASSUME NEW c \in Commands, c.isLibrary <=> c.dllManifest # "none",
               StartLink(c.paths, c.isLibrary, c.dllManifest, c.exports)
        PROVE  LInv'
    BY <2>1, StartLinkKeeps
  <2>2. CASE ReadManifest
    BY <2>2, ReadManifestKeeps
  <2>3. CASE LinkLine
    BY <2>3, LinkLineKeeps
  <2>4. CASE EndManifest
    BY <2>4, EndManifestKeeps
  <2>5. CASE CheckProgram
    BY <2>5, CheckProgramKeeps
  <2>6. CASE ExportLine
    BY <2>6, ExportLineKeeps
  <2>7. CASE EndExports
    BY <2>7, EndExportsKeeps
  <2>8. CASE EmitDllManifest
    BY <2>8, EmitKeeps
  <2>9. CASE UNCHANGED vars
    BY <2>9, StutterKeeps
  <2> QED
    BY <2>1, <2>2, <2>3, <2>4, <2>5, <2>6, <2>7, <2>8, <2>9 DEF Next
<1> QED
  BY <1>1, InitLInv, PTL DEF Spec

(* A linked program: its manifests have all been read, and describe it. *)
LEMMA ProgramGathered ==
  ASSUME LInv, LinkedProgram, NEW n, n = Len(cmd.paths)
  PROVE  /\ n \in Nat /\ Gathered(n, cmd.paths, Manifests, {}, Members(impls), BodiesIn)
         /\ \A k \in 1..n : Describes(Manifests[k], Contents(cmd.paths[k]))
         /\ DOMAIN cmd.paths = 1..n
         /\ Program = UNION {Contents(cmd.paths[k]) : k \in 1..n}
<1>1. result = "linked" /\ phase = "idle" /\ modulepaths = <<>> /\ cmd.paths \in Seq(Source \union Dll)
  BY DEF LInv, LinkedProgram, TypeInv, PlaceInv
<1>2. n \in Nat /\ Begun = n /\ DOMAIN cmd.paths = 1..n
  BY <1>1 DEF Begun
<1>3. Gathered(n, cmd.paths, Manifests, {}, Members(impls), BodiesIn)
  BY <1>1, <1>2, Zenon DEF LInv, TablesInv, Clean, Unread
<1>4. ASSUME NEW k \in 1..n PROVE Describes(Manifests[k], Contents(cmd.paths[k]))
  <2>1. Manifests[k] = Members(ManifestOf(cmd.paths[k]))
    BY Zenon DEF Manifests
  <2>2. cmd.paths[k] \in Source \union DOMAIN dlls
    BY <1>1, <1>2 DEF LInv, PlaceInv
  <2> QED
    BY <2>1, <2>2, ManifestDescribed DEF LInv
<1>5. Program = UNION {Contents(cmd.paths[k]) : k \in 1..n}
  BY DEF Program, Members
<1> QED
  BY <1>2, <1>3, <1>4, <1>5

(* The linker's .requires and .provides, for every set of files and every   *)
(* chain of DLLs: in a program that link_program accepts, each function     *)
(* that a file uses is implemented by exactly one file, not after it.       *)
THEOREM RequirementsAreMet == Spec => []RequirementsMet
<1>1. LInv => RequirementsMet
  <2> SUFFICES ASSUME LInv, LinkedProgram, NEW s \in Program, NEW f \in Unit[s].prototypes_used
               PROVE  \E t \in Program : /\ Implements(f, t) /\ Position(t) <= Position(s)
                                         /\ \A u \in Program : Implements(f, u) => u = t
    BY DEF RequirementsMet
  <2> DEFINE n == Len(cmd.paths)
             C(k) == Contents(cmd.paths[k])
  <2>1. /\ n \in Nat /\ Gathered(n, cmd.paths, Manifests, {}, Members(impls), BodiesIn)
        /\ \A k \in 1..n : Describes(Manifests[k], C(k))
        /\ DOMAIN cmd.paths = 1..n
        /\ Program = UNION {C(k) : k \in 1..n}
    BY ProgramGathered, Zenon
  <2> HIDE DEF n
  <2>3. \A t \in Program : Position(t) \in 1..n /\ t \in C(Position(t))
    BY <2>1 DEF Position
  <2>4. PICK k \in 1..n : k = Position(s) /\ s \in C(k)
    BY <2>3
  <2>5. PICK j \in 1..n : j <= k /\ Provided(f, Manifests[j])
    <3>1. CASE Provided(f, Manifests[k])
      <4>1. k <= k
        BY <2>1
      <4> QED
        BY <3>1, <4>1, Zenon
    <3>2. CASE Required(f, Manifests[k])
      BY <2>1, <3>2, RequiredProvided, Zenon
    <3> QED
      BY <2>1, <2>4, <3>1, <3>2, Zenon DEF Describes
  <2>6. PICK t \in C(j) : Implements(f, t)
    BY <2>1, <2>5, Zenon DEF Describes
  <2>7. ASSUME NEW u \in Program, Implements(f, u) PROVE u \in C(j) /\ Position(u) = j
    <3>1. Provided(f, Manifests[Position(u)])
      BY <2>1, <2>3, <2>7 DEF Describes
    <3>2. Position(u) = j
      BY <2>1, <2>3, <2>5, <3>1, ProvidedOnce
    <3> QED
      BY <2>3, <3>2
  <2>8. t \in Program
    BY <2>1
  <2>9. Position(t) <= Position(s)
    BY <2>4, <2>5, <2>6, <2>7, <2>8
  <2>10. \A u \in Program : Implements(f, u) => u = t
    BY <2>1, <2>6, <2>7 DEF Describes
  <2> QED
    BY <2>6, <2>8, <2>9, <2>10
<1> QED
  BY <1>1, LinkInvariant, PTL

(* The linker's .structure and .predicate, for every set of files and every *)
(* chain of DLLs: in a program that link_program accepts, a structure or a  *)
(* predicate has no two bodies, of different files.                         *)
THEOREM OneBodyEach == Spec => []OneBody
<1>1. LInv => OneBody
  <2> SUFFICES ASSUME LInv, LinkedProgram, NEW c \in Delayable, NEW s \in Program, NEW t \in Program,
                      NEW d \in Bodies(c, s), NEW e \in Bodies(c, t), d[1] = e[1]
               PROVE  d[2] = e[2]
    BY DEF OneBody
  <2> DEFINE n == Len(cmd.paths)
             C(k) == Contents(cmd.paths[k])
  <2>1. /\ n \in Nat /\ Gathered(n, cmd.paths, Manifests, {}, Members(impls), BodiesIn)
        /\ \A k \in 1..n : Describes(Manifests[k], C(k))
        /\ Program = UNION {C(k) : k \in 1..n}
    BY ProgramGathered, Zenon
  <2> HIDE DEF n
  <2>3. Functional(BodiesIn[c])
    BY <2>1, Zenon DEF Gathered
  <2>4. PICK j \in 1..n : s \in C(j)
    BY <2>1
  <2>5. PICK k \in 1..n : t \in C(k)
    BY <2>1
  <2>6. s \in Source /\ t \in Source
    BY <2>1, <2>4, <2>5, Zenon DEF Describes
  <2>7. CASE d[1] \in LocalDecl
    BY <2>6, <2>7, LocalBodies
  <2>8. CASE d[1] \notin LocalDecl
    <3>1. Body(c, d[1], d[2], Manifests[j])
      BY <2>1, <2>4, <2>8, Zenon DEF Describes
    <3>2. Body(c, e[1], e[2], Manifests[k])
      BY <2>1, <2>5, <2>8, Zenon DEF Describes
    <3>3. PICK b \in BodiesIn[c] : b[1] = d[1] /\ b[2] = d[2]
      <4>1. InTable(BodiesIn[c], d[1], d[2])
        BY <2>1, <3>1, BodyListed, Zenon
      <4> QED
        BY <4>1, Zenon DEF InTable
    <3>4. PICK b2 \in BodiesIn[c] : b2[1] = e[1] /\ b2[2] = e[2]
      <4>1. InTable(BodiesIn[c], e[1], e[2])
        BY <2>1, <3>2, BodyListed, Zenon
      <4> QED
        BY <4>1, Zenon DEF InTable
    <3> QED
      BY <2>3, <3>3, <3>4, Zenon DEF Functional
  <2> QED
    BY <2>7, <2>8
<1> QED
  BY <1>1, LinkInvariant, PTL

=============================================================================
