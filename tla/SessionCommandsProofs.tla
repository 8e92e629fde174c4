------------------------- MODULE SessionCommandsProofs -------------------------
(***************************************************************************)
(* Commands of the session threads, proved for every backup, set of titles *)
(* and question: the import of a backup (TWLImport), commits with a FIRM   *)
(* (FirmUpgrade) and the answers about files (CIAReader).                  *)
(***************************************************************************)
EXTENDS TWLImport, FirmUpgrade, CIAReader, FiniteSetTheorems, WellFoundedInduction, TLAPS

(* Numbers *)

\* A set of numbers has a least one.
LEMMA Least ==
  ASSUME NEW S, S \subseteq Nat, S # {}
  PROVE  \E i \in S : \A j \in S : i <= j
<1>1. PICK R : R = OpToRel(<, Nat)
  OBVIOUS
<1>2. IsWellFoundedOn(R, Nat)
  BY <1>1, NatLessThanWellFounded
<1>3. PICK x \in S : \A y \in S : ~ (<<y, x>> \in R)
  BY <1>2, WFMin
<1>4. ASSUME NEW y \in S, y < x PROVE FALSE
  <2>1. <<y, x>> \in Nat \X Nat /\ <<y, x>>[1] = y /\ <<y, x>>[2] = x
    OBVIOUS
  <2>2. <<y, x>> \in R
    BY <1>1, <1>4, <2>1 DEF OpToRel
  <2> QED
    BY <1>3, <2>2
<1>5. ASSUME NEW y \in S PROVE x <= y
  <2>1. x \in Nat /\ y \in Nat
    OBVIOUS
  <2> QED
    BY <1>4, <2>1
<1> QED
  BY <1>5

\* Induction on a set of numbers.
LEMMA NatSet ==
  ASSUME NEW T \in SUBSET Nat, 0 \in T, \A n \in T : n + 1 \in T
  PROVE  T = Nat
<1> SUFFICES ASSUME Nat \ T # {} PROVE FALSE
  OBVIOUS
<1>1. PICK n \in Nat \ T : \A m \in Nat \ T : n <= m
  BY Least
<1>2. n - 1 \in Nat \ T
  BY <1>1
<1> QED
  BY <1>1, <1>2

\* The n + 1 sums of a and the first terms of f.
Sums(w, f, a, n) == w[0] = a /\ \A k \in 1..n : w[k] = w[k - 1] + f[k - 1]

\* There are such sums.
LEMMA Summation ==
  ASSUME NEW n \in Nat, NEW a \in Int, NEW f, \A k \in 0..n : f[k] \in Int
  PROVE  \E w \in [0..n -> Int] : Sums(w, f, a, n)
<1> USE DEF Sums
<1> DEFINE Is(w, m) == w[0] = a /\ \A k \in 1..m : w[k] = w[k - 1] + f[k - 1]
           T == {m \in Nat : m <= n => \E w \in [0..m -> Int] : Is(w, m)}
<1>1. 0 \in T
  <2>1. [k \in 0..0 |-> a] \in [0..0 -> Int] /\ Is([k \in 0..0 |-> a], 0)
    OBVIOUS
  <2> QED
    BY <2>1
<1>2. ASSUME NEW m \in T PROVE m + 1 \in T
  <2> SUFFICES ASSUME m + 1 <= n PROVE \E w \in [0..(m + 1) -> Int] : Is(w, m + 1)
    OBVIOUS
  <2>0. m \in Nat /\ m \in 0..n
    OBVIOUS
  <2>1. PICK w \in [0..m -> Int] : Is(w, m)
    BY <2>0
  <2> DEFINE v == [k \in 0..(m + 1) |-> IF k = m + 1 THEN w[m] + f[m] ELSE w[k]]
  <2>2. v \in [0..(m + 1) -> Int]
    BY <2>0
  <2>3. v[0] = a
    BY <2>0, <2>1
  <2>4. ASSUME NEW k \in 1..(m + 1) PROVE v[k] = v[k - 1] + f[k - 1]
    <3>1. v[k - 1] = w[k - 1]
      BY <2>0
    <3>2. CASE k = m + 1
      <4>1. v[k] = w[m] + f[m] /\ k - 1 = m
        BY <3>2, <2>0
      <4> QED
        BY <3>1, <4>1
    <3>3. CASE k # m + 1
      <4>1. k \in 1..m /\ v[k] = w[k]
        BY <3>3, <2>0
      <4> QED
        BY <4>1, <3>1, <2>1
    <3> QED
      BY <3>2, <3>3
  <2> HIDE DEF v
  <2>5. Is(v, m + 1)
    BY <2>3, <2>4
  <2> QED
    BY <2>2, <2>5
<1> HIDE DEF T
<1>3. T = Nat
  <2>1. T \in SUBSET Nat
    BY DEF T
  <2> QED
    BY <2>1, <1>1, <1>2, NatSet
<1> QED
  BY <1>3 DEF T

-----------------------------------------------------------------------------
(* The sizes of a backup *)

LEMMA AES ==
  ASSUME NEW n \in Nat
  PROVE  /\ AlignTo16(n) \in Nat /\ n % 16 \in 0..15 /\ n - (n % 16) \in Nat
         /\ AlignTo16(n) = n - (n % 16) + (IF n % 16 = 0 THEN 0 ELSE 16)
         /\ n % 16 \in Nat /\ (IF n % 16 = 0 THEN 0 ELSE 16) \in Nat
         /\ n # 0 => AlignTo16(n) > 0
BY DEF AlignTo16

LEMMA Padded ==
  ASSUME NEW n \in Nat
  PROVE  /\ alignMeta(n) \in Nat
         /\ n = 0 => alignMeta(n) = 0
         /\ n # 0 => alignMeta(n) = AlignTo16(n) + 32
         /\ alignMeta(n) = 0 => n = 0
BY AES DEF alignMeta

\* Sums of the same terms are the same.
Within(n, m) == n \in Nat /\ m \in Nat /\ n <= m

Alike(f, g, n) == \A k \in 0..(n - 1) : f[k] = g[k]

LEMMA SumsAgree ==
  ASSUME NEW n, NEW a, NEW w, NEW v, NEW f, NEW g, NEW m, NEW l,
         Within(n, m), Within(n, l), Sums(w, f, a, m), Sums(v, g, a, l), Alike(f, g, n)
  PROVE  \A k \in 0..n : w[k] = v[k]
<1> USE DEF Within, Alike
<1> DEFINE T == {k \in Nat : k <= n => w[k] = v[k]}
<1>1. 0 \in T
  BY DEF Sums
<1>2. ASSUME NEW k \in T PROVE k + 1 \in T
  <2> SUFFICES ASSUME k + 1 <= n PROVE w[k + 1] = v[k + 1]
    OBVIOUS
  <2>1. k \in Nat /\ w[k] = v[k] /\ k \in 0..(n - 1) /\ k + 1 \in 1..m /\ k + 1 \in 1..l /\ (k + 1) - 1 = k
    OBVIOUS
  <2>2. w[k + 1] = w[k] + f[k] /\ v[k + 1] = v[k] + g[k]
    BY <2>1 DEF Sums
  <2> QED
    BY <2>1, <2>2
<1> HIDE DEF T
<1>3. T = Nat
  <2>1. T \in SUBSET Nat
    BY DEF T
  <2> QED
    BY <2>1, <1>1, <1>2, NatSet
<1> QED
  BY <1>3 DEF T

\* Sums of natural numbers grow.
LEMMA SumsGrow ==
  ASSUME NEW n \in Nat, NEW a \in Nat, NEW w, NEW f, Sums(w, f, a, n), \A k \in 0..(n - 1) : f[k] \in Nat
  PROVE  \A k \in 0..n : w[k] \in Nat /\ w[k] <= w[n]
<1> DEFINE T == {k \in Nat : k <= n => w[k] \in Nat /\ (k > 0 => w[k - 1] <= w[k])}
<1>1. 0 \in T
  BY DEF Sums
<1>2. ASSUME NEW k \in T PROVE k + 1 \in T
  <2> SUFFICES ASSUME k + 1 <= n
               PROVE  w[k + 1] \in Nat /\ w[(k + 1) - 1] <= w[k + 1]
    OBVIOUS
  <2>1. k \in Nat /\ w[k] \in Nat /\ k \in 0..(n - 1) /\ k + 1 \in 1..n /\ (k + 1) - 1 = k
    OBVIOUS
  <2>2. w[k + 1] = w[k] + f[k] /\ f[k] \in Nat
    BY <2>1 DEF Sums
  <2> QED
    BY <2>1, <2>2
<1> HIDE DEF T
<1>3. T = Nat
  <2>1. T \in SUBSET Nat
    BY DEF T
  <2> QED
    BY <2>1, <1>1, <1>2, NatSet
<1>4. \A k \in 0..n : w[k] \in Nat
  BY <1>3 DEF T
<1>5. \A k \in 1..n : w[k - 1] <= w[k]
  BY <1>3 DEF T
<1> DEFINE D == {d \in Nat : d <= n => w[n - d] <= w[n]}
<1>6. 0 \in D
  BY <1>4
<1>7. ASSUME NEW d \in D PROVE d + 1 \in D
  <2> SUFFICES ASSUME d + 1 <= n PROVE w[n - (d + 1)] <= w[n]
    OBVIOUS
  <2>1. d \in Nat /\ w[n - d] <= w[n] /\ n - d \in 1..n /\ (n - d) - 1 = n - (d + 1)
        /\ n - d \in 0..n /\ n - (d + 1) \in 0..n /\ n \in 0..n
    OBVIOUS
  <2>2. w[n - (d + 1)] <= w[n - d]
    <3>1. w[(n - d) - 1] <= w[n - d]
      BY <2>1, <1>5
    <3> QED
      BY <2>1, <3>1
  <2>3. w[n - (d + 1)] \in Nat /\ w[n - d] \in Nat /\ w[n] \in Nat
    BY <2>1, <1>4
  <2> QED
    BY <2>1, <2>2, <2>3
<1> HIDE DEF D
<1>8. D = Nat
  <2>1. D \in SUBSET Nat
    BY DEF D
  <2> QED
    BY <2>1, <1>6, <1>7, NatSet
<1>9. ASSUME NEW k \in 0..n PROVE w[k] <= w[n]
  <2>1. n - k \in D /\ n - k <= n /\ n - (n - k) = k
    BY <1>8
  <2> QED
    BY <2>1 DEF D
<1> QED
  BY <1>4, <1>9

LEMMA FormatIs == \A f : Format(f) \in {"V2_12", "V2_11", "V1_4"}
BY DEF Format, getExportTypeInfo

\* The parts in front of the sections.
LEMMA HeaderSizes ==
  /\ alignMeta(BANNER_SIZE) = 16416
  /\ FullHeader("V2_12") = 16704 /\ FullHeader("V2_11") = 16688 /\ FullHeader("V1_4") = 16608
  /\ alignMeta(ExportInfo["V2_12"].header) = 288 /\ alignMeta(ExportInfo["V2_11"].header) = 272
  /\ alignMeta(ExportInfo["V1_4"].header) = 192
  /\ alignMeta(ExportInfo["V2_12"].footer) = 1312 /\ alignMeta(ExportInfo["V2_11"].footer) = 1280
  /\ alignMeta(ExportInfo["V1_4"].footer) = 1056
<1>1. AlignTo16(16384) = 16384 /\ AlignTo16(256) = 256 /\ AlignTo16(240) = 240 /\ AlignTo16(160) = 160
      /\ AlignTo16(1280) = 1280 /\ AlignTo16(1248) = 1248 /\ AlignTo16(1024) = 1024
  BY DEF AlignTo16
<1> QED
  BY <1>1 DEF FullHeader, alignMeta, ExportInfo, BANNER_SIZE

\* Where the sections begin.
LEMMA StartIs ==
  ASSUME NEW f \in Backups
  PROVE  /\ Start(f)[0] = FullHeader(Format(f)) + alignMeta(ExportInfo[Format(f)].footer)
         /\ \A s \in Sections : Start(f)[s + 1] = Start(f)[s] + alignMeta(f.size[s])
         /\ \A s \in 0..12 : Start(f)[s] \in Nat /\ Start(f)[s] <= FileSize(f)
<1> DEFINE base == FullHeader(Format(f)) + alignMeta(ExportInfo[Format(f)].footer)
           terms == [s \in 0..12 |-> IF s \in Sections THEN alignMeta(f.size[s]) ELSE 0]
           Way(at) == at = [s \in 0..12 |-> IF s = 0 THEN base ELSE at[s - 1] + alignMeta(f.size[s - 1])]
<1>1. base \in Nat
  BY FormatIs, HeaderSizes
<1>2. \A s \in Sections : alignMeta(f.size[s]) \in Nat /\ s \in 0..11 /\ s \in 0..12
  BY TWLAssumption, Padded DEF Sections, TMD, PrivateSave
<1>3. \A k \in 0..12 : terms[k] \in Nat
  BY <1>2
<1>4. \A k \in 1..12 : terms[k - 1] = alignMeta(f.size[k - 1]) /\ k - 1 \in Sections
  BY DEF Sections, TMD, PrivateSave
<1> HIDE DEF base, terms
<1>5. PICK w \in [0..12 -> Int] : Sums(w, terms, base, 12)
  <2>1. PICK b, t : b = base /\ t = terms
    OBVIOUS
  <2>2. 12 \in Nat /\ b \in Int /\ \A k \in 0..12 : t[k] \in Int
    BY <1>1, <1>3, <2>1
  <2>3. \E w \in [0..12 -> Int] : Sums(w, t, b, 12)
    BY <2>2, Summation
  <2> QED
    BY <2>1, <2>3
<1>6. Way(w)
  <2>1. ASSUME NEW s \in 0..12
        PROVE  w[s] = IF s = 0 THEN base ELSE w[s - 1] + alignMeta(f.size[s - 1])
    <3>1. CASE s = 0
      BY <3>1, <1>5 DEF Sums
    <3>2. CASE s # 0
      <4>1. s \in 1..12
        BY <3>2
      <4>2. w[s] = w[s - 1] + terms[s - 1]
        BY <4>1, <1>5 DEF Sums
      <4>3. terms[s - 1] = alignMeta(f.size[s - 1])
        BY <4>1, <1>4
      <4> QED
        BY <3>2, <4>2, <4>3
    <3> QED
      BY <3>1, <3>2
  <2> QED
    BY <2>1
<1>7. Way(Start(f))
  <2>1. Start(f) = CHOOSE at : Way(at)
    BY DEF Start, base
  <2> HIDE DEF Way
  <2> QED
    BY <1>6, <2>1
<1> PICK at : at = Start(f)
  OBVIOUS
<1>8. at[0] = base /\ \A k \in 1..12 : at[k] = at[k - 1] + alignMeta(f.size[k - 1])
  <2> DEFINE g == [s \in 0..12 |-> IF s = 0 THEN base ELSE at[s - 1] + alignMeta(f.size[s - 1])]
  <2>1. at = g
    BY <1>7
  <2>2. g[0] = base /\ \A k \in 1..12 : g[k] = at[k - 1] + alignMeta(f.size[k - 1])
    OBVIOUS
  <2> HIDE DEF g
  <2> QED
    BY <2>1, <2>2
<1>9. Sums(at, terms, base, 12)
  BY <1>4, <1>8 DEF Sums
<1>10. \A s \in 0..12 : at[s] \in Nat /\ at[s] <= at[12]
  BY <1>1, <1>3, <1>9, SumsGrow
<1>11. \A s \in Sections : at[s + 1] = at[s] + alignMeta(f.size[s])
  <2>1. ASSUME NEW s \in Sections PROVE at[s + 1] = at[s] + alignMeta(f.size[s])
    <3>1. s + 1 \in 1..12 /\ (s + 1) - 1 = s
      BY <1>2
    <3> QED
      BY <3>1, <1>8
  <2> QED
    BY <2>1
<1> QED
  BY <1>8, <1>10, <1>11 DEF base, FileSize

\* The size in the header and the one of the file differ by the two saves
\* whose sizes the code may not find.
LEMMA ExportSizeIs ==
  ASSUME file \in Backups, stack \in Nat, NEW i, Format(file) = i
  PROVE  /\ getExportSize(i) \in Int /\ FileSize(file) \in Int
         /\ getExportSize(i) - FileSize(file)
           = (alignMeta(StatedSize(i, PublicSave)) + alignMeta(StatedSize(i, PrivateSave)))
             - (alignMeta(file.size[PublicSave]) + alignMeta(file.size[PrivateSave]))
<1> DEFINE base == FullHeader(i) + alignMeta(ExportInfo[i].footer)
           m == [s \in 0..11 |-> alignMeta(StatedSize(i, s))]
           t == [s \in 0..11 |-> alignMeta(file.size[s])]
           Way(sum) == sum = [s \in 0..11 |-> IF s = 0 THEN 0 ELSE sum[s - 1] + alignMeta(StatedSize(i, s - 1))]
<1>1. base \in Nat
  BY FormatIs, HeaderSizes
<1>2. \A s \in 0..11 : file.size[s] \in Nat /\ StatedSize(i, s) \in Nat
  BY TWLAssumption DEF Sections, TMD, PrivateSave, StatedSize
<1>3. \A s \in 0..11 : m[s] \in Int /\ t[s] \in Int
  BY <1>2, Padded
<1>4. \A s \in (0..8) \union {10} : m[s] = t[s]
  BY DEF StatedSize, PublicSave, PrivateSave
<1>5. \A k \in 1..11 : m[k - 1] = alignMeta(StatedSize(i, k - 1))
  OBVIOUS
<1>6. /\ m[9] = alignMeta(StatedSize(i, PublicSave)) /\ m[11] = alignMeta(StatedSize(i, PrivateSave))
      /\ t[9] = alignMeta(file.size[PublicSave]) /\ t[11] = alignMeta(file.size[PrivateSave])
  BY DEF PublicSave, PrivateSave
<1>7. \A s \in Sections : t[s] = alignMeta(file.size[s])
  BY DEF Sections, TMD, PrivateSave
<1> HIDE DEF base, m, t
<1>8. PICK w \in [0..11 -> Int] : Sums(w, m, 0, 11)
  <2>1. PICK f : f = m
    OBVIOUS
  <2>2. 11 \in Nat /\ 0 \in Int /\ \A k \in 0..11 : f[k] \in Int
    BY <1>3, <2>1
  <2>3. \E w \in [0..11 -> Int] : Sums(w, f, 0, 11)
    BY <2>2, Summation
  <2> QED
    BY <2>1, <2>3
<1>9. Way(w)
  <2>1. ASSUME NEW s \in 0..11
        PROVE  w[s] = IF s = 0 THEN 0 ELSE w[s - 1] + alignMeta(StatedSize(i, s - 1))
    <3>1. CASE s = 0
      BY <3>1, <1>8 DEF Sums
    <3>2. CASE s # 0
      <4>1. s \in 1..11
        BY <3>2
      <4>2. w[s] = w[s - 1] + m[s - 1]
        BY <4>1, <1>8 DEF Sums
      <4> QED
        BY <3>2, <4>1, <4>2, <1>5
    <3> QED
      BY <3>1, <3>2
  <2> QED
    BY <2>1
<1> DEFINE sum == CHOOSE sum : Way(sum)
<1>10. getExportSize(i) = base + sum[11] + alignMeta(StatedSize(i, PrivateSave))
  BY DEF getExportSize, base
<1>11. Way(sum)
  <2> HIDE DEF Way
  <2> QED
    BY <1>9
<1> HIDE DEF sum
<1> PICK v : v = sum
  OBVIOUS
<1>12. Sums(v, m, 0, 11)
  <2> DEFINE g == [s \in 0..11 |-> IF s = 0 THEN 0 ELSE v[s - 1] + alignMeta(StatedSize(i, s - 1))]
  <2>1. v = g
    BY <1>11
  <2>2. g[0] = 0 /\ \A k \in 1..11 : g[k] = v[k - 1] + alignMeta(StatedSize(i, k - 1))
    OBVIOUS
  <2> HIDE DEF g
  <2> QED
    BY <2>1, <2>2, <1>5 DEF Sums
<1> PICK at : at = Start(file)
  OBVIOUS
<1>13. /\ at[0] = base /\ \A s \in 0..12 : at[s] \in Nat
       /\ \A s \in 0..11 : at[s + 1] = at[s] + t[s]
       /\ FileSize(file) = at[12]
  BY StartIs, <1>7 DEF base, FileSize, Sections, TMD, PrivateSave
<1> DEFINE u == [s \in 0..11 |-> at[s] - base]
<1>14. Sums(u, t, 0, 11)
  <2>1. u[0] = 0
    BY <1>13, <1>1
  <2>2. ASSUME NEW k \in 1..11 PROVE u[k] = u[k - 1] + t[k - 1]
    <3>1. k - 1 \in 0..11 /\ (k - 1) + 1 = k /\ k \in 0..12 /\ k - 1 \in 0..12 /\ k \in 0..11
      OBVIOUS
    <3>2. at[k] = at[k - 1] + t[k - 1] /\ at[k] \in Nat /\ at[k - 1] \in Nat /\ t[k - 1] \in Int
      BY <3>1, <1>13, <1>3
    <3>3. u[k] = at[k] - base /\ u[k - 1] = at[k - 1] - base
      BY <3>1
    <3> HIDE DEF u
    <3> QED
      BY <3>2, <3>3, <1>1
  <2> HIDE DEF u
  <2> QED
    BY <2>1, <2>2 DEF Sums
<1>15. u[9] = at[9] - base
  OBVIOUS
<1> HIDE DEF u
<1>16. v[9] = u[9]
  <2>1. PICK f, g, x, n, l, z : f = m /\ g = t /\ x = u /\ n = 9 /\ l = 11 /\ z = 0
    OBVIOUS
  <2>2. Sums(v, f, z, l) /\ Sums(x, g, z, l) /\ Alike(f, g, n)
    BY <1>12, <1>14, <1>4, <2>1 DEF Alike
  <2>3. Within(n, l) /\ n \in 0..n
    BY <2>1 DEF Within
  <2>4. \A k \in 0..n : v[k] = x[k]
    BY <2>2, <2>3, SumsAgree
  <2> QED
    BY <2>1, <2>3, <2>4
<1>17. v[11] = v[9] + m[9] + m[10]
  <2>1. v[10] = v[10 - 1] + m[10 - 1] /\ v[11] = v[11 - 1] + m[11 - 1]
    BY <1>12 DEF Sums
  <2> QED
    BY <2>1
<1>18. at[12] = at[9] + t[9] + t[10] + t[11]
  <2>1. at[9 + 1] = at[9] + t[9] /\ at[10 + 1] = at[10] + t[10] /\ at[11 + 1] = at[11] + t[11]
    BY <1>13
  <2> QED
    BY <2>1
<1>19. /\ at[9] \in Nat /\ m[9] \in Int /\ m[10] \in Int /\ m[11] \in Int
       /\ t[9] \in Int /\ t[10] \in Int /\ t[11] \in Int /\ m[10] = t[10]
  BY <1>3, <1>4, <1>13
<1> QED
  <2>1. getExportSize(i) = base + (at[9] - base + m[9] + m[10]) + m[11]
    BY <1>10, <1>16, <1>15, <1>17, <1>6
  <2>2. FileSize(file) = at[9] + t[9] + t[10] + t[11]
    BY <1>13, <1>18
  <2>3. /\ getExportSize(i) - FileSize(file) = (m[9] + m[11]) - (t[9] + t[11])
        /\ getExportSize(i) \in Int /\ FileSize(file) \in Int
    BY <2>1, <2>2, <1>19, <1>1
  <2> QED
    BY <2>3, <1>6

\* A header that passes the check states the sizes of the sections, and one
\* that states them passes.
LEMMA Stated ==
  ASSUME file \in Backups, stack \in Nat, NEW i, Format(file) = i
  PROVE  verifyExportHeader(i) <=> \A s \in Sections : StatedSize(i, s) = file.size[s]
<1> DEFINE m(s) == alignMeta(StatedSize(i, s))
           t(s) == alignMeta(file.size[s])
<1>1. /\ getExportSize(i) \in Int /\ FileSize(file) \in Int
      /\ getExportSize(i) - FileSize(file) = (m(PublicSave) + m(PrivateSave)) - (t(PublicSave) + t(PrivateSave))
  BY ExportSizeIs
<1>2. \A s \in Sections : file.size[s] \in Nat /\ StatedSize(i, s) \in Nat
  BY TWLAssumption DEF StatedSize
<1>3. /\ PublicSave \in Sections /\ PrivateSave \in Sections /\ PublicSave = 9 /\ PrivateSave = 11
      /\ TMD \in Sections /\ 1 \in Sections
      /\ file.size[PublicSave] \in Nat /\ file.size[PrivateSave] \in Nat /\ file.size[TMD] # 0 /\ file.size[1] # 0
  BY TWLAssumption DEF PublicSave, PrivateSave, Sections, TMD
<1>4. \A s \in Sections \ {PublicSave, PrivateSave} : StatedSize(i, s) = file.size[s]
  BY DEF StatedSize
<1>5. StatedSize(i, TMD) # 0 /\ StatedSize(i, 1) # 0
  BY <1>3, <1>4 DEF TMD
<1>6. m(PublicSave) \in Nat /\ m(PrivateSave) \in Nat /\ t(PublicSave) \in Nat /\ t(PrivateSave) \in Nat
  BY <1>2, <1>3, Padded
<1>7. getExportSize(i) = FileSize(file) <=> m(PublicSave) + m(PrivateSave) = t(PublicSave) + t(PrivateSave)
  <2> HIDE DEF m, t
  <2>1. PICK g, h, a, b, c, d : /\ g = getExportSize(i) /\ h = FileSize(file) /\ a = m(PublicSave)
                               /\ b = m(PrivateSave) /\ c = t(PublicSave) /\ d = t(PrivateSave)
    OBVIOUS
  <2>2. /\ g \in Int /\ h \in Int /\ a \in Nat /\ b \in Nat /\ c \in Nat /\ d \in Nat
        /\ g - h = (a + b) - (c + d)
    BY <1>1, <1>6, <2>1
  <2>3. g = h <=> a + b = c + d
    BY ONLY <2>2
  <2> QED
    BY <2>1, <2>3
<1>8. \/ StatedSize(i, PublicSave) = file.size[PublicSave]
      \/ i = "V1_4" /\ StatedSize(i, PublicSave) = 0
  BY DEF StatedSize, PublicSave, PrivateSave, Format
<1>9. \/ StatedSize(i, PrivateSave) = file.size[PrivateSave] /\ i = "V2_12"
      \/ i = "V2_11" /\ file.size[PrivateSave] = 0
      \/ i = "V1_4" /\ StatedSize(i, PrivateSave) = 0
  BY FormatIs, TWLAssumption, <1>3 DEF StatedSize
<1>10. m(PublicSave) + m(PrivateSave) = t(PublicSave) + t(PrivateSave)
       <=> /\ StatedSize(i, PublicSave) = file.size[PublicSave]
           /\ StatedSize(i, PrivateSave) = file.size[PrivateSave]
  <2>1. /\ StatedSize(i, PublicSave) = 0 => m(PublicSave) = 0
        /\ StatedSize(i, PrivateSave) = 0 => m(PrivateSave) = 0
        /\ m(PrivateSave) = 0 => StatedSize(i, PrivateSave) = 0
        /\ file.size[PrivateSave] = 0 => t(PrivateSave) = 0
        /\ t(PublicSave) = 0 => file.size[PublicSave] = 0
        /\ t(PrivateSave) = 0 => file.size[PrivateSave] = 0
    BY <1>2, <1>3, Padded
  <2>2. /\ StatedSize(i, PublicSave) = file.size[PublicSave] => m(PublicSave) = t(PublicSave)
        /\ StatedSize(i, PrivateSave) = file.size[PrivateSave] => m(PrivateSave) = t(PrivateSave)
    OBVIOUS
  <2> HIDE DEF m, t
  <2>3. CASE i = "V1_4"
    BY <2>3, <2>1, <2>2, <1>6, <1>8, <1>9
  <2>4. CASE i # "V1_4"
    BY <2>4, <2>1, <2>2, <1>6, <1>8, <1>9
  <2> QED
    BY <2>3, <2>4
<1> HIDE DEF m, t
<1>11. ASSUME verifyExportHeader(i), NEW s \in Sections PROVE StatedSize(i, s) = file.size[s]
  BY <1>11, <1>4, <1>7, <1>10 DEF verifyExportHeader
<1>12. ASSUME \A s \in Sections : StatedSize(i, s) = file.size[s] PROVE verifyExportHeader(i)
  BY <1>12, <1>3, <1>5, <1>7, <1>10 DEF verifyExportHeader
<1> QED
  BY <1>11, <1>12

-----------------------------------------------------------------------------
(* An import, at each place of the code *)

InFront == {"banner", "header", "footer"}
InSections == {"section", "blocks", "verify"}
Working == InFront \union {"begin"} \union InSections \union {"finish", "commit"}

Untouched ==
  /\ open_title # "import" /\ open_part = "none" /\ ~pending /\ ~committed
  /\ got = [s \in Sections |-> 0]

TWLTypes ==
  /\ file \in Backups /\ stack \in Nat /\ cmd.buffer \in Nat /\ cmd.type \in Nat
  /\ pc \in {"idle", "done"} \union Working
  /\ section \in 0..12 /\ got \in [Sections -> Nat]
  /\ offset \in Nat /\ remaining \in Nat /\ nand_save_offset \in Nat
  /\ open_title \in {"none", "import", "other"}
  /\ "other" \notin faults => open_title # "other"

\* Nothing is reported, closed or committed before the end, and nothing is
\* given to AM9 before the title is begun, or when nothing is to be installed.
Silent ==
  /\ pc = "idle" => cmd.asks = {}
  /\ pc \in Working =>
       cmd.asks = {"import"} /\ cmd.type \in {2, 4, 5, 9, 10, 11} /\ cmd.buffer >= 131072
  /\ pc # "done" => answer = "none" /\ closed = 0 /\ ~committed
  /\ pc \in {"idle"} \union InFront \union {"begin"} => Untouched /\ section = TMD
  /\ pc \in Working /\ OnlyVerify => Untouched /\ pc \notin {"begin", "finish", "commit"}
  /\ pc \in InSections \union {"finish"} => ~pending
  /\ pc \in InSections \union {"finish"} /\ ~OnlyVerify => open_title = "import"
  /\ pc \in {"section", "finish", "commit"} => open_part = "none"

\* What has been found right so far.
Certain ==
  /\ pc \in {"banner", "header"} => type = cmd.type /\ info = getExportTypeInfo(cmd.type)
  /\ pc \in Working \ {"banner"} => Banner \notin file.damaged
  /\ pc \in Working \ {"banner", "header"} =>
       /\ Header \notin file.damaged /\ Format(file) = info
       /\ \A s \in Sections : StatedSize(info, s) = file.size[s]
       /\ \/ info # "V1_4" /\ type = cmd.type /\ info = getExportTypeInfo(cmd.type)
          \/ info = "V1_4" /\ type = 12 /\ getExportTypeInfo(cmd.type) = "V2_11"
  /\ pc \in Working \ InFront =>
       /\ Footer \notin file.damaged /\ type \notin {4, 10}
       /\ \A s \in Sections : s < section => s \notin file.damaged

\* Where the import reads: behind the footer, the place is that of a section
\* unless the backup is an old one.
Placed ==
  /\ pc \in {"idle", "banner"} => offset = 0
  /\ pc = "header" => offset = alignMeta(BANNER_SIZE)
  /\ pc = "footer" => offset = FullHeader(info)
  /\ pc \in {"blocks", "verify"} => section \in Sections /\ Size # 0
  /\ pc \in InSections /\ info = "V1_4" => section = TMD
  /\ pc \in {"finish", "commit"} => section = 12
  /\ pc = "blocks" => remaining <= Size - (Size % 16)
  /\ pc \in {"begin"} \union InSections =>
       LET begins == offset - (CASE pc = "blocks" -> Size - (Size % 16) - remaining
                                 [] pc = "verify" -> AlignTo16(Size)
                                 [] OTHER -> 0)
       IN IF info = "V1_4" THEN begins # Start(file)[TMD] ELSE begins = Start(file)[section]

\* What AM9 has: the sections before this one whole, of this one as much as
\* was read, of the next ones nothing.
SoFar == CASE pc = "blocks" -> nand_save_offset
           [] pc = "verify" -> Size
           [] OTHER -> 0

Amount(s, n) == IF s < section THEN file.size[s] ELSE IF s > section THEN 0 ELSE n

Given ==
  pc \in InSections \union {"finish", "commit"} /\ ~OnlyVerify =>
    \A s \in Sections : got[s] = Amount(s, SoFar)

Moved == pc = "blocks" => nand_save_offset = Size - (Size % 16) - remaining

TInv ==
  /\ TWLTypes /\ Silent /\ Certain /\ Placed /\ Given /\ Moved
  /\ pc = "done" => AllOrNothing /\ BackupsAreAccepted

LEMMA TMDIs == TMD = 0 /\ Sections = 0..11 /\ PrivateSave = 11 /\ PublicSave = 9
BY DEF Sections, TMD, PrivateSave, PublicSave

LEMMA TypesFor ==
  /\ \A t \in {2, 4, 5} : getExportTypeInfo(t) = "V2_11"
  /\ \A t \in {9, 10, 11} : getExportTypeInfo(t) = "V2_12"
  /\ getExportTypeInfo(0) = "V2_11" /\ getExportTypeInfo(7) = "V2_12"
  /\ \A t : getExportTypeInfo(t) \in {"V2_12", "V2_11", "V1_4"}
BY DEF getExportTypeInfo

\* A backup of at least the parts in front.
LEMMA RoomInFront ==
  ASSUME NEW f \in Backups
  PROVE  /\ FileSize(f) \in Nat
         /\ FileSize(f) >= FullHeader(Format(f)) + alignMeta(ExportInfo[Format(f)].footer)
         /\ FileSize(f) >= FullHeader(Format(f))
<1>1. Start(f)[0] = FullHeader(Format(f)) + alignMeta(ExportInfo[Format(f)].footer)
      /\ Start(f)[0] \in Nat /\ Start(f)[0] <= FileSize(f) /\ FileSize(f) \in Nat
  BY StartIs DEF FileSize
<1>2. FullHeader(Format(f)) \in Nat /\ alignMeta(ExportInfo[Format(f)].footer) \in Nat
  BY FormatIs, HeaderSizes
<1> QED
  BY <1>1, <1>2

LEMMA TInvInit == TWLInit => TInv
<1> SUFFICES ASSUME TWLInit PROVE TInv
  OBVIOUS
<1> USE DEF TWLInit
<1>1. TWLTypes
  BY TWLAssumption, TMDIs DEF TWLTypes
<1>2. Silent
  BY DEF Silent, Untouched, Working, InFront, InSections
<1>3. Certain /\ Placed /\ Given /\ Moved
  BY DEF Certain, Placed, Given, Moved, Working, InFront, InSections
<1> QED
  BY <1>1, <1>2, <1>3 DEF TInv

\* Something is wrong with the backup, the type or the environment.
Flawed ==
  ~ (/\ Flawless
     /\ Imports => Format(file) # "V1_4"
     /\ Imports /\ Format(file) = "V2_11" => stack = 0)

LEMMA Done ==
  ASSUME TWLTypes', pc' = "done", AllOrNothing', BackupsAreAccepted'
  PROVE  TInv'
BY DEF TInv, Silent, Certain, Placed, Given, Moved, Working, InFront, InSections

\* An import fails.
LEMMA Fails ==
  ASSUME TInv, pc \in Working, pc' = "done", answer' = "error", TWLTypes',
         UNCHANGED <<faults, file, cmd, committed>>,
         closed' = 1 \/ (closed' = 2 /\ ("file" \in faults \/ Format(file) = "V1_4")),
         open_title' # "import", open_part' = "none",
         pending' => pc = "commit" /\ "commit" \in faults,
         OnlyVerify => got' = got,
         Flawed'
  PROVE  TInv'
<1>1. cmd.asks = {"import"} /\ ~committed
  BY DEF TInv, Silent, Working, InFront, InSections
<1>2. ~Installs => OnlyVerify
  BY <1>1 DEF Installs, Imports, OnlyVerify, TInv, Certain, Working, InFront, InSections
<1>3. OnlyVerify => (\A s \in Sections : got[s] = 0) /\ pc # "commit"
  BY DEF TInv, Silent, Untouched
<1>4. AllOrNothing'
  BY <1>1, <1>2, <1>3 DEF AllOrNothing, Installs, Imports, Format
<1>5. BackupsAreAccepted'
  BY DEF BackupsAreAccepted, Flawed
<1> QED
  BY <1>4, <1>5, Done

-----------------------------------------------------------------------------
(* The steps of an import *)

LEMMA ImportTInv ==
  ASSUME TInv, NEW t \in ExportTypes, NEW b \in Buffers, Import(t, b)
  PROVE  TInv'
<1> DEFINE i == getExportTypeInfo(t)
<1>0. pc = "idle" /\ cmd' = [asks |-> {"import"}, type |-> t, buffer |-> b] /\ type' = t /\ info' = i
      /\ t \in Nat /\ b \in Nat /\ file \in Backups
      /\ UNCHANGED <<faults, file, offset, section, remaining, nand_save_offset, stack, am9_titles>>
  BY TWLAssumption DEF Import, TInv, TWLTypes
<1>1. answer = "none" /\ closed = 0 /\ Untouched /\ section = TMD /\ ~committed
  BY <1>0 DEF TInv, Silent
<1>2. cmd'.asks = {"import"} /\ cmd'.type = t /\ cmd'.buffer = b
  BY <1>0
<1>3. pc' \in {"banner", "done"}
  BY DEF Import, Proceed, CloseFile
<1>4. TWLTypes'
  BY <1>0, <1>2, <1>3 DEF TWLTypes, TInv, am9_titles, Working, InFront
<1>5. Untouched'
  BY <1>0, <1>1 DEF Untouched, am9_titles
<1>6. CASE /\ t \in {2, 4, 5, 9, 10, 11} /\ b >= 131072
           /\ FileSize(file) >= FullHeader(i) + alignMeta(ExportInfo[i].footer)
  <2>1. pc' = "banner" /\ answer' = "none" /\ closed' = 0 /\ offset = 0
    BY <1>0, <1>1, <1>6 DEF Import, Proceed, TInv, Placed
  <2>2. Silent'
    BY <1>0, <1>1, <1>2, <1>5, <1>6, <2>1 DEF Silent, Working, InFront, InSections, Untouched, am9_titles
  <2>3. Certain' /\ Placed' /\ Given' /\ Moved'
    BY <1>0, <1>2, <2>1 DEF Certain, Placed, Given, Moved, Working, InFront, InSections
  <2> QED
    BY <1>4, <2>1, <2>2, <2>3 DEF TInv
<1>7. CASE ~ (/\ t \in {2, 4, 5, 9, 10, 11} /\ b >= 131072
              /\ FileSize(file) >= FullHeader(i) + alignMeta(ExportInfo[i].footer))
  <2>1. pc' = "done" /\ answer' = "error" /\ closed' = 1
    BY <1>1, <1>7 DEF Import, CloseFile
  <2>2. AllOrNothing'
    BY <2>1, <1>5 DEF AllOrNothing, Untouched
  <2>3. Flawed'
    <3> SUFFICES ASSUME Flawless', Format(file) # "V1_4" PROVE FALSE
      BY <1>0, <1>2 DEF Flawed, Imports, Format
    <3>1. b >= 131072 /\ t \in (IF Format(file) = "V2_12" THEN {9, 10, 11} ELSE {2, 4, 5})
      BY <1>0, <1>2 DEF Flawless, Imports, Format
    <3>2. i = Format(file)
      BY <3>1, FormatIs, TypesFor
    <3>3. FileSize(file) >= FullHeader(i) + alignMeta(ExportInfo[i].footer)
      BY <3>2, <1>0, RoomInFront
    <3> QED
      BY <1>7, <3>1, <3>3
  <2> QED
    BY <1>4, <2>1, <2>2, <2>3, Done DEF BackupsAreAccepted, Flawed
<1> QED
  BY <1>6, <1>7

\* The three steps in front only go on when the part is right.
LEMMA BannerTInv == TInv /\ VerifyBanner => TInv'
<1> SUFFICES ASSUME TInv, VerifyBanner PROVE TInv'
  OBVIOUS
<1>0. pc = "banner" /\ pc \in Working
      /\ UNCHANGED <<faults, file, cmd, type, info, section, remaining, nand_save_offset, stack,
                     am9_titles>>
  BY DEF VerifyBanner, Working, InFront
<1>1. answer = "none" /\ closed = 0 /\ Untouched /\ section = TMD
  BY <1>0 DEF TInv, Silent, InFront
<1>2. pc' \in {"header", "done"} /\ offset' \in Nat
  BY HeaderSizes DEF VerifyBanner, Proceed, CloseFile, TInv, TWLTypes
<1>3. TWLTypes'
  BY <1>0, <1>2 DEF TWLTypes, TInv, am9_titles, Working, InFront
<1>4. Untouched'
  BY <1>0, <1>1 DEF Untouched, am9_titles
<1>5. CASE Intact(file, Banner)
  <2>1. pc' = "header" /\ answer' = "none" /\ closed' = 0 /\ offset' = alignMeta(BANNER_SIZE)
    BY <1>1, <1>5 DEF VerifyBanner, Proceed
  <2>2. Silent'
    BY <1>0, <1>1, <1>4, <2>1 DEF Silent, TInv, Working, InFront, InSections, am9_titles, Untouched
  <2>3. Certain' /\ Placed' /\ Given' /\ Moved'
    BY <1>0, <1>5, <2>1 DEF Certain, Placed, Given, Moved, Working, InFront, InSections, TInv, Intact
  <2> QED
    BY <1>3, <2>1, <2>2, <2>3 DEF TInv
<1>6. CASE ~Intact(file, Banner)
  <2>1. pc' = "done" /\ answer' = "error" /\ closed' = 1
    BY <1>1, <1>6 DEF VerifyBanner, CloseFile
  <2>2. Flawed'
    BY <1>0, <1>6 DEF Flawed, Flawless, Intact
  <2> QED
    BY <1>0, <1>1, <1>3, <2>1, <2>2, Fails DEF Untouched, am9_titles
<1> QED
  BY <1>5, <1>6

LEMMA HeaderTInv == TInv /\ VerifyHeader => TInv'
<1> SUFFICES ASSUME TInv, VerifyHeader PROVE TInv'
  OBVIOUS
<1> DEFINE i == IF info = "V2_12" \/ HeaderDecrypts(info) THEN info ELSE "V1_4"
           Right == HeaderDecrypts(i) /\ verifyExportHeader(i)
<1>0. pc = "header" /\ pc \in Working /\ file \in Backups /\ stack \in Nat
      /\ UNCHANGED <<faults, file, cmd, section, remaining, nand_save_offset, stack, am9_titles>>
  BY DEF VerifyHeader, Working, InFront, TInv, TWLTypes
<1>1. answer = "none" /\ closed = 0 /\ Untouched /\ section = TMD
  BY <1>0 DEF TInv, Silent, InFront
<1>2. type = cmd.type /\ info = getExportTypeInfo(cmd.type) /\ cmd.type \in {2, 4, 5, 9, 10, 11}
      /\ Banner \notin file.damaged /\ offset = alignMeta(BANNER_SIZE)
  BY <1>0 DEF TInv, Certain, Placed, Silent
<1>3. Untouched'
  BY <1>0, <1>1 DEF Untouched, am9_titles
<1>4. info \in {"V2_12", "V2_11"} /\ i \in {"V2_12", "V2_11", "V1_4"}
  BY <1>2, TypesFor
<1>5. CASE Right
  <2>1. /\ pc' = "footer" /\ answer' = "none" /\ closed' = 0 /\ info' = i
        /\ type' = (IF i = "V1_4" THEN 12 ELSE type)
        /\ offset' = offset + alignMeta(ExportInfo[i].header)
    BY <1>1, <1>5 DEF VerifyHeader, Proceed
  <2>2. offset' = FullHeader(i) /\ offset' \in Nat
    BY <1>2, <1>4, <2>1, HeaderSizes DEF FullHeader
  <2>3. TWLTypes'
    BY <1>0, <2>1, <2>2 DEF TWLTypes, TInv, am9_titles, Working, InFront
  <2>4. Format(file) = i /\ Header \notin file.damaged
    BY <1>5 DEF HeaderDecrypts, Intact
  <2>5. \A s \in Sections : StatedSize(i, s) = file.size[s]
    <3> HIDE DEF i
    <3> QED
      BY <1>0, <1>5, <2>4, Stated
  <2>7. Silent'
    BY <1>0, <1>1, <1>3, <2>1 DEF Silent, TInv, Working, InFront, InSections, am9_titles, Untouched
  <2>8. Certain'
    <3>1. \A s \in Sections : (StatedSize(info, s))' = file'.size[s]
      BY <1>0, <2>1, <2>5 DEF StatedSize
    <3>2. \/ i # "V1_4" /\ i = info
          \/ i = "V1_4" /\ info = "V2_11"
      BY <1>4
    <3> HIDE DEF i
    <3>3. Format(file') = info' /\ Header \notin file'.damaged /\ Banner \notin file'.damaged
      BY <1>0, <1>2, <2>1, <2>4
    <3> QED
      BY <1>0, <1>2, <2>1, <3>1, <3>2, <3>3 DEF Certain, Working, InFront, InSections, Format
  <2>9. Placed' /\ Given' /\ Moved'
    BY <2>1, <2>2 DEF Placed, Given, Moved, InSections
  <2> QED
    BY <2>1, <2>3, <2>7, <2>8, <2>9 DEF TInv
<1>6. CASE ~Right
  <2>1. /\ pc' = "done" /\ answer' = "error" /\ closed' = 1
        /\ UNCHANGED <<info, type, offset>>
    BY <1>1, <1>6 DEF VerifyHeader, CloseFile
  <2>2. TWLTypes'
    BY <1>0, <2>1 DEF TWLTypes, TInv, am9_titles
  <2>3. Flawed'
    <3> SUFFICES ASSUME Flawless, Format(file) # "V1_4", Format(file) = "V2_11" => stack = 0
                 PROVE  FALSE
      <4>1. Imports' <=> Imports
        BY <1>0 DEF Imports
      <4>2. cmd.asks = {"import"}
        BY <1>0 DEF TInv, Silent
      <4> QED
        BY <1>0, <4>1, <4>2 DEF Flawed, Flawless, Imports, Format
    <3>1. cmd.type \in (IF Format(file) = "V2_12" THEN {9, 10, 11} ELSE {2, 4, 5})
          /\ file.damaged = {}
      BY <1>0 DEF Flawless, Imports, TInv, Silent
    <3>2. info = Format(file)
      BY <3>1, <1>2, FormatIs, TypesFor
    <3>3. HeaderDecrypts(info) /\ i = info
      BY <3>1, <3>2 DEF HeaderDecrypts, Intact
    <3>4. ASSUME NEW s \in Sections PROVE StatedSize(info, s) = file.size[s]
      <4>1. s = PublicSave => file.type # 12
        BY <3>2 DEF Format
      <4>2. info # "V1_4"
        BY <3>2
      <4>3. info = "V2_11" => file.size[PrivateSave] = stack
        BY <1>0, <3>2, TWLAssumption
      <4> QED
        BY <4>1, <4>2, <4>3 DEF StatedSize
    <3>5. verifyExportHeader(info)
      BY <1>0, <3>2, <3>4, Stated
    <3> QED
      BY <1>6, <3>3, <3>5
  <2> QED
    BY <1>0, <1>1, <2>1, <2>2, <2>3, Fails DEF Untouched, am9_titles
<1> QED
  BY <1>5, <1>6

\* Behind the front the header states the size of the section.
LEMMA SizeIs ==
  ASSUME TInv, pc \in Working \ {"banner", "header"}
  PROVE  \A s \in Sections : StatedSize(info, s) = file.size[s] /\ file.size[s] \in Nat
BY TWLAssumption DEF TInv, Certain, TWLTypes

LEMMA FooterTInv == TInv /\ VerifyFooter => TInv'
<1> SUFFICES ASSUME TInv, VerifyFooter PROVE TInv'
  OBVIOUS
<1>0. pc = "footer" /\ pc \in Working \ {"banner", "header"} /\ file \in Backups
      /\ UNCHANGED <<faults, file, cmd, type, info, section, remaining, nand_save_offset, stack,
                     am9_titles>>
  BY DEF VerifyFooter, Working, InFront, TInv, TWLTypes
<1>1. answer = "none" /\ closed = 0 /\ Untouched /\ section = TMD /\ cmd.asks = {"import"}
      /\ cmd.type \in {2, 4, 5, 9, 10, 11}
  BY <1>0 DEF TInv, Silent, InFront
<1>2. /\ Banner \notin file.damaged /\ Header \notin file.damaged /\ Format(file) = info
      /\ \/ info # "V1_4" /\ type = cmd.type /\ info = getExportTypeInfo(cmd.type)
         \/ info = "V1_4" /\ type = 12 /\ getExportTypeInfo(cmd.type) = "V2_11"
      /\ offset = FullHeader(info)
  BY <1>0 DEF TInv, Certain, Placed
<1>3. Untouched'
  BY <1>0, <1>1 DEF Untouched, am9_titles
<1>4. offset + FooterFullSize \in Nat /\ offset \in Nat
  BY <1>2, FormatIs, TypesFor, HeaderSizes DEF FooterFullSize
<1>5. TWLTypes'
  <2>1. offset' \in Nat
    BY <1>4 DEF VerifyFooter
  <2>2. pc' \in {"done", "section", "begin"}
    BY DEF VerifyFooter, Proceed, CloseFile
  <2> QED
    BY <1>0, <2>1, <2>2 DEF TWLTypes, TInv, am9_titles, Working, InSections
<1>6. CASE ~Intact(file, Footer)
  <2>1. pc' = "done" /\ answer' = "error" /\ closed' = 1
    BY <1>1, <1>6 DEF VerifyFooter, CloseFile
  <2>2. Flawed'
    BY <1>0, <1>6 DEF Flawed, Flawless, Intact
  <2> QED
    BY <1>0, <1>1, <1>5, <2>1, <2>2, Fails DEF Untouched, am9_titles
<1>7. CASE Intact(file, Footer) /\ type \in {4, 10}
  <2>1. pc' = "done" /\ answer' = "ok" /\ closed' = 1
    BY <1>1, <1>7 DEF VerifyFooter, CloseFile
  <2>2. cmd'.type \in {4, 10}
    BY <1>0, <1>2, <1>7
  <2>3. AllOrNothing'
    BY <1>0, <1>2, <1>3, <1>7, <2>1, <2>2 DEF AllOrNothing, Installs, Untouched, Intact
  <2> QED
    BY <1>5, <2>1, <2>3, Done DEF BackupsAreAccepted
<1>8. CASE Intact(file, Footer) /\ type \notin {4, 10}
  <2>1. /\ pc' = (IF OnlyVerify THEN "section" ELSE "begin") /\ answer' = "none" /\ closed' = 0
        /\ offset' = offset + FooterFullSize
    BY <1>1, <1>8 DEF VerifyFooter, Proceed
  <2>2. Silent'
    BY <1>0, <1>1, <1>3, <2>1 DEF Silent, TInv, Working, InFront, InSections, am9_titles, Untouched, OnlyVerify
  <2>3. Certain'
    <3>1. \A s \in Sections : (StatedSize(info, s))' = file'.size[s]
      BY <1>0, SizeIs DEF StatedSize
    <3>2. \A s \in Sections : ~ (s < section')
      BY <1>0, <1>1, TMDIs
    <3> QED
      BY <1>0, <1>2, <1>8, <2>1, <3>1, <3>2
         DEF Certain, Working, InFront, InSections, Format, Intact
  <2>4. Placed'
    <3>1. IF info = "V1_4" THEN offset' - 0 # Start(file)[TMD] ELSE offset' - 0 = Start(file)[section]
      <4>1. Start(file)[0] = FullHeader(info) + alignMeta(ExportInfo[info].footer)
        BY <1>0, <1>2, StartIs
      <4>2. TMD = 0 /\ section = 0
        BY <1>1, TMDIs
      <4>3. CASE info = "V1_4"
        <5>1. FooterFullSize = 1280 /\ FullHeader(info) = 16608 /\ alignMeta(ExportInfo[info].footer) = 1056
          BY <1>2, <4>3, HeaderSizes DEF FooterFullSize
        <5> QED
          BY <4>1, <4>2, <4>3, <5>1, <2>1, <1>2
      <4>4. CASE info # "V1_4"
        <5>1. FooterFullSize = alignMeta(ExportInfo[info].footer)
          BY <1>2, <4>4 DEF FooterFullSize
        <5> QED
          BY <4>1, <4>2, <4>4, <5>1, <2>1, <1>2, <1>4
      <4> QED
        BY <4>3, <4>4
    <3>2. Start(file)' = Start(file')
      BY DEF Start, Format
    <3> QED
      BY <1>0, <1>1, <2>1, <3>1, <3>2 DEF Placed, InSections
  <2>5. Given' /\ Moved'
    BY <1>0, <2>1 DEF Given, SoFar, Amount, Moved, InSections, OnlyVerify
  <2> QED
    BY <1>5, <2>1, <2>2, <2>3, <2>4, <2>5 DEF TInv
<1> QED
  BY <1>6, <1>7, <1>8

\* The title is begun when none is open, and finished when the sections are.
LEMMA BeginTInv == TInv /\ InstallTitleBegin => TInv'
<1> SUFFICES ASSUME TInv, InstallTitleBegin PROVE TInv'
  OBVIOUS
<1>0. pc = "begin" /\ pc \in Working \ {"banner", "header"} /\ ~OnlyVerify
      /\ UNCHANGED <<faults, file, cmd, locals, open_part, got, pending, committed>>
  BY DEF InstallTitleBegin, Working, TInv, Silent
<1>1. answer = "none" /\ closed = 0 /\ Untouched /\ section = TMD
  BY <1>0 DEF TInv, Silent
<1>2. CASE open_title = "none" /\ open_title' = "import" /\ Proceed("section")
  <2>1. pc' = "section" /\ answer' = "none" /\ closed' = 0 /\ open_title' = "import"
    BY <1>1, <1>2 DEF Proceed
  <2>2. TWLTypes'
    BY <1>0, <2>1 DEF TWLTypes, TInv, locals, Working, InSections
  <2>3. Silent'
    BY <1>0, <1>1, <2>1 DEF Silent, TInv, Working, InFront, InSections, locals, Untouched, OnlyVerify
  <2>4. Certain'
    BY <1>0, <2>1 DEF Certain, TInv, Working, InFront, InSections, locals, Format, StatedSize
  <2>5. Placed'
    <3>1. UNCHANGED <<file, info, type, section, offset>> /\ pc' = "section"
      BY <1>0, <2>1 DEF locals
    <3>2. info = "V1_4" => section = TMD
      BY <1>1
    <3>3. IF info = "V1_4" THEN offset - 0 # Start(file)[TMD] ELSE offset - 0 = Start(file)[section]
      BY <1>0 DEF TInv, Placed
    <3> QED
      BY <3>1, <3>2, <3>3 DEF Placed, InSections, Start, Format
  <2>6. Given' /\ Moved'
    <3>1. \A s \in Sections : ~(s < section) /\ got[s] = 0
      BY <1>1, TMDIs DEF Untouched
    <3> QED
      BY <1>0, <2>1, <3>1 DEF Given, SoFar, Amount, Moved, locals
  <2> QED
    BY <2>1, <2>2, <2>3, <2>4, <2>5, <2>6 DEF TInv
<1>3. CASE (open_title # "none" \/ "am9" \in faults) /\ CloseFile("error") /\ UNCHANGED open_title
  <2>1. pc' = "done" /\ answer' = "error" /\ closed' = 1 /\ open_title' = open_title
    BY <1>1, <1>3 DEF CloseFile
  <2>2. TWLTypes'
    BY <1>0, <2>1 DEF TWLTypes, TInv, locals
  <2>3. faults # {}
    BY <1>1, <1>3, <1>0 DEF TInv, TWLTypes, Untouched
  <2>4. Flawed'
    BY <1>0, <2>3 DEF Flawed, Flawless
  <2> QED
    BY <1>0, <1>1, <2>1, <2>2, <2>4, Fails DEF Untouched
<1> QED
  BY <1>2, <1>3 DEF InstallTitleBegin

LEMMA FinishTInv == TInv /\ InstallTitleFinish => TInv'
<1> SUFFICES ASSUME TInv, InstallTitleFinish PROVE TInv'
  OBVIOUS
<1>0. pc = "finish" /\ pc \in Working \ {"banner", "header"} /\ ~OnlyVerify
      /\ UNCHANGED <<faults, file, cmd, locals, got, committed>>
  BY DEF InstallTitleFinish, Working, TInv, Silent
<1>1. answer = "none" /\ closed = 0 /\ open_part = "none" /\ ~pending /\ ~committed
  BY <1>0 DEF TInv, Silent, InSections
<1>2. CASE open_title' = "none" /\ pending' = TRUE /\ Proceed("commit") /\ UNCHANGED open_part
  <2>1. pc' = "commit" /\ answer' = "none" /\ closed' = 0 /\ open_part' = "none"
    BY <1>1, <1>2 DEF Proceed
  <2>2. TWLTypes'
    BY <1>0, <1>2, <2>1 DEF TWLTypes, TInv, locals, Working, InSections
  <2>3. Silent'
    BY <1>0, <1>1, <2>1 DEF Silent, TInv, Working, InFront, InSections, locals, OnlyVerify
  <2>4. Certain'
    BY <1>0, <2>1 DEF Certain, TInv, Working, InFront, InSections, locals, Format, StatedSize
  <2>5. Placed' /\ Moved'
    BY <1>0, <2>1 DEF Placed, Moved, TInv, locals, InSections
  <2>6. Given'
    BY <1>0, <2>1 DEF Given, SoFar, Amount, TInv, locals, InSections, OnlyVerify
  <2> QED
    BY <2>1, <2>2, <2>3, <2>4, <2>5, <2>6 DEF TInv
<1>3. CASE "am9" \in faults /\ Abort(1) /\ UNCHANGED pending
  <2>1. pc' = "done" /\ answer' = "error" /\ closed' = 1 /\ open_title' = "none" /\ open_part' = "none"
        /\ ~pending'
    BY <1>0, <1>1, <1>3 DEF Abort
  <2>2. TWLTypes'
    BY <1>0, <2>1 DEF TWLTypes, TInv, locals
  <2>4. Flawed'
    BY <1>0, <1>3 DEF Flawed, Flawless
  <2> QED
    BY <1>0, <1>1, <2>1, <2>2, <2>4, Fails
<1> QED
  BY <1>2, <1>3 DEF InstallTitleFinish

LEMMA CommitTInv == TInv /\ InstallTitlesCommit => TInv'
<1> SUFFICES ASSUME TInv, InstallTitlesCommit PROVE TInv'
  OBVIOUS
<1>0. pc = "commit" /\ pc \in Working \ {"banner", "header"} /\ ~OnlyVerify /\ file \in Backups
      /\ UNCHANGED <<faults, file, cmd, locals, got>>
  BY DEF InstallTitlesCommit, Working, TInv, Silent, TWLTypes
<1>1. answer = "none" /\ closed = 0 /\ open_part = "none" /\ ~committed /\ section = 12
      /\ cmd.asks = {"import"} /\ cmd.type \in {2, 4, 5, 9, 10, 11}
  BY <1>0 DEF TInv, Silent, Placed
<1>2. CASE pending' = FALSE /\ committed' = TRUE /\ CloseFile("ok") /\ UNCHANGED <<open_title, open_part>>
  <2>1. pc' = "done" /\ answer' = "ok" /\ closed' = 1 /\ open_part' = "none"
    BY <1>1, <1>2 DEF CloseFile
  <2>2. TWLTypes'
    BY <1>0, <1>2, <2>1 DEF TWLTypes, TInv, locals
  <2>3. \A s \in Sections : s < section /\ s \in Int
    BY <1>1, TMDIs
  <2>4. file.damaged = {}
    <3>1. \A s \in Sections : s \notin file.damaged
      BY <1>0, <2>3 DEF TInv, Certain, Working, InFront
    <3>2. Banner \notin file.damaged /\ Header \notin file.damaged /\ Footer \notin file.damaged
      BY <1>0 DEF TInv, Certain, Working, InFront
    <3>3. Banner..PrivateSave = Sections \union {Banner, Header, Footer}
      BY DEF Sections, TMD, PrivateSave, Banner, Header, Footer
    <3> QED
      BY <3>1, <3>2, <3>3, <1>0, TWLAssumption
  <2>5. got = file.size
    <3>1. ASSUME NEW s \in Sections PROVE got[s] = file.size[s]
      <4>1. s < section /\ ~ (s > section)
        BY <2>3, <1>1
      <4> QED
        BY <1>0, <4>1 DEF TInv, Given, SoFar, Amount
    <3>2. got \in [Sections -> Nat] /\ file.size \in [Sections -> Nat]
      BY <1>0, TWLAssumption DEF TInv, TWLTypes
    <3> QED
      BY <3>1, <3>2
  <2>6. Installs'
    BY <1>0, <1>1 DEF OnlyVerify, Installs, Imports, TInv, Certain, Working
  <2>7. AllOrNothing'
    BY <1>0, <1>2, <2>1, <2>4, <2>5, <2>6 DEF AllOrNothing
  <2> QED
    BY <2>1, <2>2, <2>7, Done DEF BackupsAreAccepted
<1>3. CASE "commit" \in faults /\ Abort(1) /\ UNCHANGED <<pending, committed>>
  <2>1. pc' = "done" /\ answer' = "error" /\ closed' = 1 /\ open_title' = "none" /\ open_part' = "none"
    BY <1>0, <1>1, <1>3 DEF Abort
  <2>2. TWLTypes'
    BY <1>0, <2>1 DEF TWLTypes, TInv, locals
  <2>4. Flawed'
    BY <1>0, <1>3 DEF Flawed, Flawless
  <2> QED
    BY <1>0, <1>3, <1>1, <2>1, <2>2, <2>4, Fails
<1> QED
  BY <1>2, <1>3 DEF InstallTitlesCommit

\* A section of size 0 has no data, and is whole.
LEMMA SkipTInv == TInv /\ SkipSection => TInv'
<1> SUFFICES ASSUME TInv, SkipSection PROVE TInv'
  OBVIOUS
<1>0. /\ pc = "section" /\ pc' = "section" /\ pc \in Working \ {"banner", "header"}
      /\ section \in Sections \ {TMD} /\ Size = 0 /\ section' = section + 1 /\ file \in Backups
      /\ UNCHANGED <<faults, file, cmd, answer, type, info, offset, remaining, nand_save_offset,
                     stack, closed, am9_titles>>
  BY DEF SkipSection, Working, InSections, TInv, TWLTypes
<1>1. file.size[section] = 0 /\ section \in 1..11 /\ section \notin file.damaged
  BY <1>0, SizeIs, TMDIs, TWLAssumption DEF Size
<1>2. info # "V1_4"
  BY <1>0 DEF TInv, Placed, InSections
<1>3. TWLTypes'
  BY <1>0, <1>1 DEF TWLTypes, TInv, am9_titles
<1>4. Silent'
  BY <1>0 DEF Silent, TInv, Working, InFront, InSections, am9_titles, OnlyVerify, Untouched
<1>5. Certain'
  <2>1. \A s \in Sections : s < section' => s \notin file.damaged
    <3>1. \A s \in Sections : s < section => s \notin file.damaged
      BY <1>0 DEF TInv, Certain, InFront
    <3>2. \A s \in Sections : s < section + 1 => s < section \/ s = section
      BY <1>1, TMDIs
    <3> QED
      BY <1>0, <1>1, <3>1, <3>2
  <2> QED
    BY <1>0, <2>1 DEF Certain, TInv, Working, InFront, InSections, Format, StatedSize
<1>6. Placed'
  <2>1. offset - 0 = Start(file)[section]
    BY <1>0, <1>2 DEF TInv, Placed, InSections
  <2>2. Start(file)[section + 1] = Start(file)[section] + alignMeta(0) /\ Start(file)[section] \in Nat
    <3>1. section \in 0..12
      BY <1>1
    <3> QED
      BY <1>0, <1>1, <3>1, StartIs
  <2>3. alignMeta(0) = 0
    BY Padded
  <2>4. offset - 0 = Start(file)[section + 1]
    BY <2>1, <2>2, <2>3 DEF Amount
  <2>5. Start(file)' = Start(file)
    BY <1>0 DEF Start, Format
  <2> QED
    BY <1>0, <1>2, <2>4, <2>5 DEF Placed, InSections
<1>7. Given'
  <2> SUFFICES ASSUME ~OnlyVerify, NEW s \in Sections
               PROVE  got[s] = IF s < section + 1 THEN file.size[s] ELSE 0
    BY <1>0 DEF Given, SoFar, Amount, OnlyVerify, am9_titles
  <2>1. got[s] = Amount(s, 0)
    BY <1>0 DEF TInv, Given, SoFar, Amount, InSections
  <2>2. s \in 0..11 /\ section \in 1..11
    BY <1>1, TMDIs
  <2>3. CASE s < section
    BY <2>1, <2>2, <2>3 DEF Amount
  <2>4. CASE s = section
    BY <2>1, <2>2, <2>4, <1>1 DEF Amount
  <2>5. CASE s > section
    BY <2>1, <2>2, <2>5 DEF Amount
  <2> QED
    BY <2>2, <2>3, <2>4, <2>5
<1>8. Moved'
  BY <1>0 DEF Moved
<1> QED
  BY <1>0, <1>3, <1>4, <1>5, <1>6, <1>7, <1>8 DEF TInv

LEMMA SectionsDoneTInv == TInv /\ SectionsDone => TInv'
<1> SUFFICES ASSUME TInv, SectionsDone PROVE TInv'
  OBVIOUS
<1>0. pc = "section" /\ pc \in Working \ {"banner", "header"} /\ section \notin Sections
      /\ file \in Backups /\ section \in 0..12
      /\ UNCHANGED <<faults, file, cmd, locals, am9_titles>>
  BY DEF SectionsDone, Working, InSections, TInv, TWLTypes
<1>1. answer = "none" /\ closed = 0 /\ open_part = "none" /\ ~committed /\ ~pending
      /\ section = 12 /\ info # "V1_4"
  BY <1>0, TMDIs DEF TInv, Silent, Placed, InSections
<1>2. \A s \in Sections : s < section /\ s \in Int
  BY <1>1, TMDIs
<1>3. CASE OnlyVerify
  <2>1. pc' = "done" /\ answer' = "ok" /\ closed' = 1
    BY <1>0, <1>1, <1>3 DEF SectionsDone, CloseFile
  <2>2. TWLTypes'
    BY <1>0, <2>1 DEF TWLTypes, TInv, locals, am9_titles
  <2>3. Untouched'
    BY <1>0, <1>3 DEF TInv, Silent, Untouched, am9_titles
  <2>4. file.damaged = {}
    <3>1. \A s \in Sections : s \notin file.damaged
      BY <1>0, <1>2 DEF TInv, Certain, Working, InFront
    <3>2. Banner \notin file.damaged /\ Header \notin file.damaged /\ Footer \notin file.damaged
      BY <1>0 DEF TInv, Certain, Working, InFront
    <3>3. Banner..PrivateSave = Sections \union {Banner, Header, Footer}
      BY DEF Sections, TMD, PrivateSave, Banner, Header, Footer
    <3> QED
      BY <3>1, <3>2, <3>3, <1>0, TWLAssumption
  <2>5. ~Installs'
    BY <1>0, <1>1, <1>3 DEF OnlyVerify, Installs, TInv, Certain
  <2>6. AllOrNothing'
    BY <1>0, <2>1, <2>3, <2>4, <2>5 DEF AllOrNothing, Untouched
  <2> QED
    BY <2>1, <2>2, <2>6, Done DEF BackupsAreAccepted
<1>4. CASE ~OnlyVerify
  <2>1. pc' = "finish" /\ answer' = "none" /\ closed' = 0
    BY <1>0, <1>1, <1>4 DEF SectionsDone, Proceed
  <2>2. TWLTypes'
    BY <1>0, <2>1 DEF TWLTypes, TInv, locals, am9_titles, Working
  <2>3. Silent'
    BY <1>0, <1>1, <1>4, <2>1 DEF Silent, TInv, Working, InFront, InSections, locals, am9_titles, OnlyVerify
  <2>4. Certain'
    BY <1>0, <2>1 DEF Certain, TInv, Working, InFront, InSections, locals, Format, StatedSize
  <2>5. Placed' /\ Moved'
    BY <1>0, <1>1, <2>1 DEF Placed, Moved, TInv, locals, InSections
  <2>6. Given'
    BY <1>0, <1>2, <2>1 DEF Given, SoFar, Amount, TInv, locals, am9_titles, InSections, OnlyVerify
  <2> QED
    BY <2>1, <2>2, <2>3, <2>4, <2>5, <2>6 DEF TInv
<1> QED
  BY <1>3, <1>4

-----------------------------------------------------------------------------
(* The data of a section *)

\* A section's data and metadata are in the file.
LEMMA SectionInFile ==
  ASSUME NEW f \in Backups, NEW s \in Sections, f.size[s] # 0
  PROVE  /\ Start(f)[s] \in Nat /\ AlignTo16(f.size[s]) \in Nat
         /\ Start(f)[s + 1] = Start(f)[s] + AlignTo16(f.size[s]) + 32
         /\ Start(f)[s] + AlignTo16(f.size[s]) + 32 <= FileSize(f)
<1>1. s \in 0..12 /\ s + 1 \in 0..12 /\ f.size[s] \in Nat
  BY TMDIs, TWLAssumption
<1>2. alignMeta(f.size[s]) = AlignTo16(f.size[s]) + 32 /\ AlignTo16(f.size[s]) \in Nat
  BY <1>1, AES DEF alignMeta
<1>3. /\ Start(f)[s + 1] = Start(f)[s] + alignMeta(f.size[s])
      /\ Start(f)[s] \in Nat /\ Start(f)[s + 1] \in Nat /\ Start(f)[s + 1] <= FileSize(f)
  BY <1>1, StartIs
<1> QED
  BY <1>2, <1>3

\* An import fails in a section; the header is not that of another backup.
LEMMA FailsInSection ==
  ASSUME TInv, pc \in InSections, NEW n \in {1, 2}, Abort(n), TWLTypes',
         UNCHANGED <<faults, file, cmd, type, stack, pending, committed>>,
         OnlyVerify => got' = got,
         n = 2 => "file" \in faults \/ Format(file) = "V1_4",
         Format(file) = "V1_4" \/ faults # {} \/ file.damaged # {}
  PROVE  TInv'
<1>1. pc \in Working /\ closed = 0 /\ ~pending /\ cmd.asks = {"import"}
  BY DEF TInv, Silent, Working, InSections
<1>2. pc' = "done" /\ answer' = "error" /\ closed' = n
  BY <1>1 DEF Abort
<1>3. open_title' # "import" /\ open_part' = "none"
  BY <1>1 DEF Abort, TInv, Silent, Untouched
<1>4. Flawed'
  BY <1>1 DEF Flawed, Flawless, Imports, Format
<1> QED
  BY <1>1, <1>2, <1>3, <1>4, Fails

LEMMA ProcessBeginTInv == TInv /\ ProcessBegin => TInv'
<1> SUFFICES ASSUME TInv, ProcessBegin PROVE TInv'
  OBVIOUS
<1> DEFINE metaEnd == offset + AlignTo16(Size) + 32
<1>0. /\ pc = "section" /\ pc \in Working \ {"banner", "header"} /\ pc \in InSections
      /\ section \in Sections /\ (Size # 0 \/ section = TMD) /\ file \in Backups
      /\ UNCHANGED <<faults, file, cmd, type, info, offset, section, stack, got, pending, committed>>
  BY DEF ProcessBegin, Working, InSections, TInv, TWLTypes
<1>1. Size = file.size[section] /\ Size \in Nat /\ Size # 0 /\ AlignTo16(Size) \in Nat
      /\ Size - (Size % 16) \in Nat
  BY <1>0, SizeIs, TWLAssumption, AES DEF Size
<1>2. /\ offset \in Nat
      /\ IF info = "V1_4" THEN offset - 0 # Start(file)[TMD] ELSE offset - 0 = Start(file)[section]
      /\ info = "V1_4" => section = TMD
      /\ Format(file) = info
  BY <1>0 DEF TInv, TWLTypes, Placed, Certain, InSections
<1>3. CASE /\ metaEnd <= FileSize(file)
           /\ open_part' = IF OnlyVerify THEN open_part ELSE PartOf(section)
           /\ remaining' = Size - (Size % 16)
           /\ nand_save_offset' = 0
           /\ Proceed("blocks")
           /\ UNCHANGED open_title
  <2>1. pc' = "blocks" /\ UNCHANGED <<answer, closed>> /\ Size' = Size /\ ~(pc' \in {"section", "verify"})
    BY <1>0, <1>3 DEF Proceed, Size, StatedSize
  <2>2. TWLTypes'
    BY <1>0, <1>1, <1>3, <2>1 DEF TWLTypes, TInv, Working, InSections
  <2>3. Silent'
    BY <1>0, <1>3, <2>1 DEF Silent, TInv, Working, InFront, InSections, OnlyVerify, Untouched
  <2>4. Certain'
    BY <1>0, <2>1 DEF Certain, TInv, Working, InFront, InSections, Format, StatedSize
  <2>5. Placed'
    <3>1. remaining' <= Size' - (Size' % 16)
      BY <1>1, <1>3, <2>1
    <3>2. Size' - (Size' % 16) - remaining' = 0
      BY <1>1, <1>3, <2>1
    <3>3. Start(file)' = Start(file)
      BY <1>0 DEF Start, Format
    <3> QED
      BY <1>0, <1>1, <1>2, <2>1, <3>1, <3>2, <3>3 DEF Placed, InSections
  <2>6. Given'
    <3> SUFFICES ASSUME ~OnlyVerify, NEW s \in Sections
                 PROVE  got[s] = Amount(s, 0)
      BY <1>0, <1>3, <2>1 DEF Given, SoFar, Amount, OnlyVerify
    <3> QED
      BY <1>0 DEF TInv, Given, SoFar, Amount, InSections
  <2>7. Moved'
    BY <1>1, <1>3, <2>1 DEF Moved
  <2> QED
    BY <2>1, <2>2, <2>3, <2>4, <2>5, <2>6, <2>7 DEF TInv
<1>4. ASSUME NEW n \in {1, 2}, Abort(n), UNCHANGED <<remaining, nand_save_offset>>,
             \/ n = 2 /\ (metaEnd > FileSize(file) \/ "file" \in faults)
             \/ n = 1 /\ "am9" \in faults
      PROVE  TInv'
  <2>1. TWLTypes'
    BY <1>0, <1>4 DEF TWLTypes, TInv, Abort
  <2>2. metaEnd > FileSize(file) => info = "V1_4"
    <3> SUFFICES ASSUME info # "V1_4" PROVE metaEnd <= FileSize(file)
      BY <1>0, <1>1, <1>2, RoomInFront
    <3>1. offset = Start(file)[section]
      BY <1>2
    <3> QED
      BY <1>0, <1>1, <3>1, SectionInFile
  <2>3. n = 2 => "file" \in faults \/ Format(file) = "V1_4"
    BY <1>2, <1>4, <2>2
  <2>4. Format(file) = "V1_4" \/ faults # {}
    BY <1>2, <1>4, <2>2
  <2> QED
    BY <1>0, <1>4, <2>1, <2>3, <2>4, FailsInSection
<1>5. \/ /\ metaEnd <= FileSize(file)
         /\ open_part' = IF OnlyVerify THEN open_part ELSE PartOf(section)
         /\ remaining' = Size - (Size % 16)
         /\ nand_save_offset' = 0
         /\ Proceed("blocks")
         /\ UNCHANGED open_title
      \/ /\ metaEnd > FileSize(file) \/ "file" \in faults
         /\ Abort(2)
         /\ UNCHANGED <<remaining, nand_save_offset>>
      \/ /\ "am9" \in faults /\ ~OnlyVerify
         /\ Abort(1)
         /\ UNCHANGED <<remaining, nand_save_offset>>
  BY DEF ProcessBegin
<1> QED
  BY <1>3, <1>4, <1>5

\* What AM9 takes is what it does not have: a save's data come in order.
LEMMA TakenIs ==
  ASSUME NEW n \in Nat, got \in [Sections -> Nat], section \in Sections,
         nand_save_offset = got[section] \/ OnlyVerify
  PROVE  /\ Taken(n) \in [Sections -> Nat]
         /\ OnlyVerify => Taken(n) = got
         /\ ~OnlyVerify => /\ \A s \in Sections : s # section => Taken(n)[s] = got[s]
                           /\ Taken(n)[section] = got[section] + n
BY DEF Taken

LEMMA BlocksTInv == TInv /\ ProcessBlocks => TInv'
<1> SUFFICES ASSUME TInv, ProcessBlocks PROVE TInv'
  OBVIOUS
<1> DEFINE bufsize == cmd.buffer - (cmd.buffer % 16)
           n == IF bufsize < remaining THEN bufsize ELSE remaining
<1>0. /\ pc = "blocks" /\ pc \in Working \ {"banner", "header"} /\ pc \in InSections
      /\ remaining > 0 /\ section \in Sections /\ file \in Backups /\ got \in [Sections -> Nat]
      /\ UNCHANGED <<faults, file, cmd, type, info, section, stack, pending, committed>>
  BY DEF ProcessBlocks, Working, InSections, TInv, TWLTypes, Placed
<1>1. Size = file.size[section] /\ Size \in Nat /\ Size - (Size % 16) \in Nat
  BY <1>0, SizeIs, AES DEF Size
<1>2. /\ offset \in Nat /\ remaining \in Nat /\ nand_save_offset \in Nat
      /\ nand_save_offset = Size - (Size % 16) - remaining
      /\ remaining <= Size - (Size % 16)
      /\ IF info = "V1_4" THEN offset - (Size - (Size % 16) - remaining) # Start(file)[TMD]
                          ELSE offset - (Size - (Size % 16) - remaining) = Start(file)[section]
      /\ info = "V1_4" => section = TMD
  BY <1>0 DEF TInv, TWLTypes, Moved, Placed, InSections
<1>3. n \in Nat /\ n <= remaining /\ remaining - n \in Nat
  <2>1. bufsize \in Nat
    BY <1>0, AES DEF TInv, TWLTypes
  <2> HIDE DEF bufsize
  <2> QED
    BY <1>2, <2>1
<1> HIDE DEF n
<1>4. ~OnlyVerify => nand_save_offset = got[section]
  <2> SUFFICES ASSUME ~OnlyVerify PROVE nand_save_offset = got[section]
    OBVIOUS
  <2>1. ~(section < section) /\ ~(section > section)
    BY <1>0, TMDIs
  <2> QED
    BY <1>0, <2>1 DEF TInv, Given, SoFar, Amount
<1>5. CASE /\ got' = Taken(n)
           /\ offset' = offset + n
           /\ nand_save_offset' = nand_save_offset + n
           /\ remaining' = remaining - n
           /\ UNCHANGED <<pc, answer, closed, open_title, open_part>>
  <2>1. pc' = "blocks" /\ Size' = Size
    BY <1>0, <1>5 DEF Size, StatedSize
  <2>2. TWLTypes'
    <3>1. got' \in [Sections -> Nat]
      BY <1>0, <1>3, <1>4, <1>5, TakenIs
    <3>2. offset' \in Nat /\ nand_save_offset' \in Nat /\ remaining' \in Nat
      BY <1>2, <1>3, <1>5
    <3> QED
      BY <1>0, <1>5, <3>1, <3>2 DEF TWLTypes, TInv
  <2>3. Silent'
    <3>1. OnlyVerify => got' = got
      BY <1>0, <1>3, <1>4, <1>5, TakenIs
    <3> QED
      BY <1>0, <1>5, <3>1 DEF Silent, TInv, Working, InFront, InSections, OnlyVerify, Untouched
  <2>4. Certain'
    BY <1>0, <2>1 DEF Certain, TInv, Working, InFront, InSections, Format, StatedSize
  <2>5. Placed'
    <3>1. PICK x : x = Size - (Size % 16)
      OBVIOUS
    <3>2. x \in Nat
      BY <1>1, <3>1
    <3>3. remaining' <= x
      BY <1>2, <1>3, <1>5, <3>1, <3>2
    <3>4. offset' - (x - remaining') = offset - (x - remaining)
      BY <1>2, <1>3, <1>5, <3>1, <3>2
    <3>5. Start(file)' = Start(file)
      BY <1>0 DEF Start, Format
    <3> QED
      BY <1>0, <1>2, <2>1, <3>1, <3>3, <3>4, <3>5 DEF Placed, InSections
  <2>6. Given'
    <3> SUFFICES ASSUME ~OnlyVerify, NEW s \in Sections
                 PROVE  got'[s] = Amount(s, nand_save_offset')
      BY <1>0, <2>1 DEF Given, SoFar, Amount, OnlyVerify
    <3>1. got[s] = Amount(s, nand_save_offset)
      BY <1>0 DEF TInv, Given, SoFar, Amount
    <3>2. s \in 0..11 /\ section \in 0..11
      BY <1>0, TMDIs
    <3>3. CASE s = section
      <4>1. got'[s] = nand_save_offset + n
        BY <1>0, <1>3, <1>4, <1>5, <3>3, TakenIs
      <4> QED
        BY <1>5, <3>2, <3>3, <4>1 DEF Amount
    <3>4. CASE s # section
      <4>1. got'[s] = got[s]
        BY <1>0, <1>3, <1>4, <1>5, <3>4, TakenIs
      <4>2. s < section \/ s > section
        BY <3>2, <3>4
      <4> QED
        BY <3>1, <4>1, <4>2, <3>2 DEF Amount
    <3> QED
      BY <3>3, <3>4
  <2>7. Moved'
    <3>1. PICK x : x = Size - (Size % 16)
      OBVIOUS
    <3>2. x \in Nat
      BY <1>1, <3>1
    <3>3. nand_save_offset' = x - remaining'
      BY <1>2, <1>3, <1>5, <3>1, <3>2
    <3> QED
      BY <2>1, <3>1, <3>3 DEF Moved
  <2> QED
    BY <2>1, <2>2, <2>3, <2>4, <2>5, <2>6, <2>7 DEF TInv
<1>6. CASE /\ "am9" \in faults
           /\ Abort(1)
           /\ UNCHANGED <<got, offset, nand_save_offset, remaining>>
  <2>1. TWLTypes'
    BY <1>0, <1>6 DEF TWLTypes, TInv, Abort
  <2> QED
    BY <1>0, <1>6, <2>1, FailsInSection
<1> QED
  BY <1>5, <1>6 DEF ProcessBlocks, n

\* The rest is read in a whole block, which ends where the metadata begin.
LEMMA RestTInv == TInv /\ ProcessRest => TInv'
<1> SUFFICES ASSUME TInv, ProcessRest PROVE TInv'
  OBVIOUS
<1> DEFINE n == Size % 16
           padded == IF Size % 16 = 0 THEN 0 ELSE 16
<1>0. /\ pc = "blocks" /\ pc \in Working \ {"banner", "header"} /\ pc \in InSections
      /\ remaining = 0 /\ section \in Sections /\ file \in Backups /\ got \in [Sections -> Nat]
      /\ UNCHANGED <<faults, file, cmd, type, info, section, remaining, nand_save_offset, stack,
                     pending, committed>>
  BY DEF ProcessRest, Working, InSections, TInv, TWLTypes, Placed
<1>1. /\ Size = file.size[section] /\ Size \in Nat /\ Size - n \in Nat /\ n \in Nat
      /\ AlignTo16(Size) = Size - n + padded /\ padded \in Nat
  <2>1. Size = file.size[section] /\ Size \in Nat
    BY <1>0, SizeIs DEF Size
  <2>2. /\ Size - (Size % 16) \in Nat /\ Size % 16 \in Nat
        /\ AlignTo16(Size) = Size - (Size % 16) + (IF Size % 16 = 0 THEN 0 ELSE 16)
        /\ (IF Size % 16 = 0 THEN 0 ELSE 16) \in Nat
    BY <2>1, AES, Zenon
  <2> QED
    BY <2>1, <2>2, Zenon
<1>2. /\ offset \in Nat /\ nand_save_offset = Size - n - 0
      /\ IF info = "V1_4" THEN offset - (Size - n - 0) # Start(file)[TMD]
                          ELSE offset - (Size - n - 0) = Start(file)[section]
      /\ info = "V1_4" => section = TMD
      /\ Size # 0
  BY <1>0 DEF TInv, TWLTypes, Moved, Placed, InSections
<1>3. ~OnlyVerify => nand_save_offset = got[section]
  <2> SUFFICES ASSUME ~OnlyVerify PROVE nand_save_offset = got[section]
    OBVIOUS
  <2>1. ~(section < section) /\ ~(section > section)
    BY <1>0, TMDIs
  <2> QED
    BY <1>0, <2>1 DEF TInv, Given, SoFar, Amount
<1> PICK whole, part : whole = Size - n /\ part = n
  OBVIOUS
<1> HIDE DEF n, padded
<1>4. CASE /\ got' = Taken(n)
           /\ offset' = offset + padded
           /\ Proceed("verify")
           /\ UNCHANGED <<open_title, open_part>>
  <2>1. pc' = "verify" /\ UNCHANGED <<answer, closed>> /\ Size' = Size
    BY <1>0, <1>4 DEF Size, StatedSize, Proceed
  <2>2. TWLTypes'
    <3>1. got' \in [Sections -> Nat]
      BY <1>0, <1>1, <1>3, <1>4, TakenIs
    <3>2. offset' \in Nat
      BY <1>1, <1>2, <1>4
    <3> QED
      BY <1>0, <1>4, <2>1, <3>1, <3>2 DEF TWLTypes, TInv, Working, InSections
  <2>3. Silent'
    <3>1. OnlyVerify => got' = got
      BY <1>0, <1>1, <1>3, <1>4, TakenIs
    <3> QED
      BY <1>0, <1>4, <2>1, <3>1 DEF Silent, TInv, Working, InFront, InSections, OnlyVerify, Untouched
  <2>4. Certain'
    BY <1>0, <2>1 DEF Certain, TInv, Working, InFront, InSections, Format, StatedSize
  <2>5. Placed'
    <3>1. offset' - AlignTo16(Size) = offset - (Size - n - 0)
      BY <1>1, <1>2, <1>4
    <3>2. Start(file)' = Start(file)
      BY <1>0 DEF Start, Format
    <3> QED
      BY <1>0, <1>2, <2>1, <3>1, <3>2 DEF Placed, InSections
  <2>6. Given'
    <3> SUFFICES ASSUME ~OnlyVerify, NEW s \in Sections
                 PROVE  got'[s] = Amount(s, Size)
      BY <1>0, <2>1 DEF Given, SoFar, Amount, OnlyVerify
    <3>1. got[s] = Amount(s, nand_save_offset)
      BY <1>0 DEF TInv, Given, SoFar
    <3>2. s \in 0..11 /\ section \in 0..11
      BY <1>0, TMDIs
    <3>3. CASE s = section
      <4>1. got'[s] = nand_save_offset + n
        BY <1>0, <1>1, <1>3, <1>4, <3>3, TakenIs
      <4>2. nand_save_offset + n = Size
        BY <1>1, <1>2
      <4> QED
        BY <3>2, <3>3, <4>1, <4>2 DEF Amount
    <3>4. CASE s # section
      <4>1. got'[s] = got[s]
        BY <1>0, <1>1, <1>3, <1>4, <3>4, TakenIs
      <4>2. s < section \/ s > section
        BY <3>2, <3>4
      <4> QED
        BY <3>1, <4>1, <4>2, <3>2 DEF Amount
    <3> QED
      BY <3>3, <3>4
  <2>7. Moved'
    BY <2>1 DEF Moved
  <2> QED
    BY <2>1, <2>2, <2>3, <2>4, <2>5, <2>6, <2>7 DEF TInv
<1>5. CASE "am9" \in faults /\ Abort(1) /\ UNCHANGED <<got, offset>>
  <2>1. TWLTypes'
    BY <1>0, <1>5 DEF TWLTypes, TInv, Abort
  <2> QED
    BY <1>0, <1>5, <2>1, FailsInSection
<1> QED
  BY <1>4, <1>5 DEF ProcessRest, n, padded

LEMMA ProcessFinishTInv == TInv /\ ProcessFinish => TInv'
<1> SUFFICES ASSUME TInv, ProcessFinish PROVE TInv'
  OBVIOUS
<1>0. /\ pc = "verify" /\ pc \in Working \ {"banner", "header"} /\ pc \in InSections
      /\ section \in Sections /\ file \in Backups
      /\ UNCHANGED <<faults, file, cmd, type, info, remaining, nand_save_offset, stack, got, pending,
                     committed>>
  BY DEF ProcessFinish, Working, InSections, TInv, TWLTypes, Placed
<1>1. Size = file.size[section] /\ Size \in Nat /\ AlignTo16(Size) \in Nat /\ Size # 0
  BY <1>0, SizeIs, AES DEF Size, TInv, Placed
<1>2. /\ offset \in Nat /\ section \in 0..11
      /\ IF info = "V1_4" THEN offset - AlignTo16(Size) # Start(file)[TMD]
                          ELSE offset - AlignTo16(Size) = Start(file)[section]
      /\ info = "V1_4" => section = TMD
      /\ Format(file) = info
  BY <1>0, TMDIs DEF TInv, TWLTypes, Placed, InSections, Certain
<1>3. CASE /\ MACValid
           /\ open_part' = "none"
           /\ offset' = offset + 32
           /\ section' = section + 1
           /\ Proceed("section")
           /\ UNCHANGED open_title
  <2>1. pc' = "section" /\ UNCHANGED <<answer, closed>>
    BY <1>3 DEF Proceed
  <2>2. info # "V1_4" /\ section \notin file.damaged
    BY <1>2, <1>3 DEF MACValid, Intact
  <2>3. TWLTypes'
    BY <1>0, <1>2, <1>3, <2>1 DEF TWLTypes, TInv, Working, InSections
  <2>4. Silent'
    BY <1>0, <1>3, <2>1 DEF Silent, TInv, Working, InFront, InSections, OnlyVerify, Untouched
  <2>5. Certain'
    <3>1. \A s \in Sections : s < section' => s \notin file.damaged
      <4>1. \A s \in Sections : s < section => s \notin file.damaged
        BY <1>0 DEF TInv, Certain, InFront
      <4>2. \A s \in Sections : s < section + 1 => s < section \/ s = section
        BY <1>2, TMDIs
      <4> QED
        BY <1>3, <2>2, <4>1, <4>2
    <3> QED
      BY <1>0, <2>1, <3>1 DEF Certain, TInv, Working, InFront, InSections, Format, StatedSize
  <2>6. Placed'
    <3>1. offset - AlignTo16(Size) = Start(file)[section]
      BY <1>2, <2>2
    <3>2. Start(file)[section + 1] = Start(file)[section] + alignMeta(Size) /\ Start(file)[section] \in Nat
      <4>1. section \in 0..12
        BY <1>2
      <4> QED
        BY <1>0, <1>1, <4>1, StartIs
    <3>3. alignMeta(Size) = AlignTo16(Size) + 32
      BY <1>1 DEF alignMeta
    <3>4. offset' - 0 = Start(file)[section + 1]
      BY <1>1, <1>2, <1>3, <3>1, <3>2, <3>3
    <3>5. Start(file)' = Start(file)
      BY <1>0 DEF Start, Format
    <3> QED
      BY <1>0, <1>3, <2>1, <2>2, <3>4, <3>5 DEF Placed, InSections
  <2>7. Given'
    <3> SUFFICES ASSUME ~OnlyVerify, NEW s \in Sections
                 PROVE  got[s] = IF s < section + 1 THEN file.size[s] ELSE 0
      BY <1>0, <1>3, <2>1 DEF Given, SoFar, Amount, OnlyVerify
    <3>1. got[s] = Amount(s, file.size[section])
      BY <1>0, <1>1 DEF TInv, Given, SoFar, InSections
    <3>2. s \in 0..11 /\ section \in 0..11
      BY <1>2, TMDIs
    <3>3. CASE s < section
      BY <3>1, <3>2, <3>3 DEF Amount
    <3>4. CASE s = section
      BY <3>1, <3>2, <3>4 DEF Amount
    <3>5. CASE s > section
      BY <3>1, <3>2, <3>5 DEF Amount
    <3> QED
      BY <3>2, <3>3, <3>4, <3>5
  <2>8. Moved'
    BY <2>1 DEF Moved
  <2> QED
    BY <2>1, <2>3, <2>4, <2>5, <2>6, <2>7, <2>8 DEF TInv
<1>4. CASE /\ ~MACValid \/ "am9" \in faults
           /\ Abort(1)
           /\ UNCHANGED <<offset, section>>
  <2>1. TWLTypes'
    BY <1>0, <1>4 DEF TWLTypes, TInv, Abort
  <2>2. Format(file) = "V1_4" \/ faults # {} \/ file.damaged # {}
    BY <1>1, <1>2, <1>4 DEF MACValid, Intact
  <2> QED
    BY <1>0, <1>4, <2>1, <2>2, FailsInSection
<1> QED
  BY <1>3, <1>4 DEF ProcessFinish

-----------------------------------------------------------------------------
(* The other commands, and the other sessions *)

LEMMA ReadInfoTInv ==
  ASSUME TInv, NEW t \in {0, 7}, NEW b \in Buffers, NEW asks \in SUBSET {"banner", "info"},
         ReadInfo(t, b, asks)
  PROVE  TInv'
<1> DEFINE i == getExportTypeInfo(t)
           Readable == /\ b >= FullHeader(i) /\ FileSize(file) >= FullHeader(i)
                       /\ ("banner" \in asks => Intact(file, Banner))
                       /\ ("info" \in asks => InfoReadable(i))
<1>0. /\ pc = "idle" /\ cmd' = [asks |-> asks, type |-> t, buffer |-> b] /\ b \in Nat /\ t \in Nat
      /\ pc' = "done" /\ answer' = (IF Readable THEN "ok" ELSE "error") /\ closed' = closed + 1
      /\ file \in Backups /\ UNCHANGED <<faults, file, locals, am9_titles>>
  BY TWLAssumption DEF ReadInfo, CloseFile, TInv, TWLTypes
<1>1. closed' = 1 /\ Untouched
  BY <1>0 DEF TInv, Silent
<1>2. cmd'.asks = asks /\ cmd'.type = t /\ cmd'.buffer = b /\ ~Imports' /\ ~Installs'
  BY <1>0 DEF Imports, Installs
<1>3. TWLTypes'
  BY <1>0, <1>2 DEF TWLTypes, TInv, locals, am9_titles
<1>4. AllOrNothing'
  BY <1>0, <1>1, <1>2 DEF AllOrNothing, Untouched, am9_titles
<1>5. ASSUME Flawless' PROVE Readable
  <2>1. file.damaged = {} /\ b >= 131072 /\ t = (IF Format(file) = "V2_12" THEN 7 ELSE 0)
    BY <1>0, <1>2, <1>5 DEF Flawless, Format
  <2>2. i \in {"V2_12", "V2_11"} /\ (i = Format(file) \/ (i = "V2_11" /\ Format(file) = "V1_4"))
    BY <2>1, FormatIs, TypesFor
  <2>3. InfoReadable(i)
    BY <2>1, <2>2 DEF InfoReadable, HeaderDecrypts, Intact
  <2>4. b >= FullHeader(i)
    BY <1>0, <2>1, <2>2, HeaderSizes
  <2>5. FileSize(file) >= FullHeader(i)
    <3>1. FileSize(file) \in Nat
          /\ FileSize(file) >= FullHeader(Format(file)) + alignMeta(ExportInfo[Format(file)].footer)
          /\ FileSize(file) >= FullHeader(Format(file))
      BY <1>0, RoomInFront
    <3>2. FullHeader("V1_4") + alignMeta(ExportInfo["V1_4"].footer) = 17664 /\ FullHeader("V2_11") = 16688
      BY HeaderSizes
    <3> QED
      BY <2>2, <3>1, <3>2
  <2> QED
    BY <2>1, <2>3, <2>4, <2>5 DEF Intact
<1>6. BackupsAreAccepted'
  BY <1>0, <1>5 DEF BackupsAreAccepted
<1> QED
  BY <1>0, <1>3, <1>4, <1>6, Done

LEMMA OtherTInv == TInv /\ OtherTitle => TInv'
<1> SUFFICES ASSUME TInv, OtherTitle PROVE TInv'
  OBVIOUS
<1>0. /\ "other" \in faults
      /\ (open_title = "none" /\ open_title' = "other") \/ (open_title = "other" /\ open_title' = "none")
      /\ UNCHANGED <<faults, file, cmd, pc, answer, locals, closed, open_part, got, pending, committed>>
  BY DEF OtherTitle
<1>1. TWLTypes'
  BY <1>0 DEF TWLTypes, TInv, locals
<1>2. Silent'
  BY <1>0 DEF Silent, TInv, Working, InFront, InSections, OnlyVerify, Untouched, locals
<1>3. Certain'
  BY <1>0 DEF Certain, TInv, Working, InFront, InSections, Format, StatedSize, locals
<1>4. Placed' /\ Given' /\ Moved'
  <2>1. Start(file)' = Start(file) /\ Size' = Size /\ OnlyVerify' = OnlyVerify /\ SoFar' = SoFar
    BY <1>0 DEF Start, Format, Size, StatedSize, locals, OnlyVerify, SoFar
  <2> QED
    BY <1>0, <2>1 DEF TInv, Placed, Given, Amount, Moved, locals
<1>5. pc' = "done" => AllOrNothing' /\ BackupsAreAccepted'
  BY <1>0 DEF TInv, AllOrNothing, BackupsAreAccepted, Flawless, Imports, Installs, Format, locals
<1> QED
  BY <1>1, <1>2, <1>3, <1>4, <1>5 DEF TInv

-----------------------------------------------------------------------------
(* The theorems about backups *)

LEMMA TInvNext == TInv /\ [TWLNext]_tvars => TInv'
<1> SUFFICES ASSUME TInv, [TWLNext]_tvars PROVE TInv'
  OBVIOUS
<1>1. CASE \E b \in Buffers, t \in ExportTypes : Import(t, b)
  BY <1>1, ImportTInv
<1>2. CASE \E b \in Buffers, asks \in SUBSET {"banner", "info"} : ReadInfo11(b, asks) \/ ReadInfo12(b, asks)
  BY <1>2, ReadInfoTInv DEF ReadInfo11, ReadInfo12
<1>3. CASE Importing
  BY <1>3, BannerTInv, HeaderTInv, FooterTInv, BeginTInv, FinishTInv, CommitTInv, SkipTInv,
     SectionsDoneTInv, ProcessBeginTInv, BlocksTInv, RestTInv, ProcessFinishTInv
     DEF Importing
<1>4. CASE OtherTitle
  BY <1>4, OtherTInv
<1>5. CASE UNCHANGED tvars
  <2>0. UNCHANGED <<faults, file, cmd, pc, answer, type, info, offset, section, remaining,
                    nand_save_offset, stack, closed, open_title, open_part, got, pending, committed>>
    BY <1>5 DEF tvars, locals, am9_titles
  <2>1. TWLTypes'
    BY <2>0 DEF TWLTypes, TInv
  <2>2. Silent'
    BY <2>0 DEF Silent, TInv, OnlyVerify, Untouched
  <2>3. Certain'
    BY <2>0 DEF Certain, TInv, Format, StatedSize
  <2>4. Placed' /\ Given' /\ Moved'
    <3>1. Start(file)' = Start(file) /\ Size' = Size /\ OnlyVerify' = OnlyVerify /\ SoFar' = SoFar
      BY <2>0 DEF Start, Format, Size, StatedSize, OnlyVerify, SoFar
    <3> QED
      BY <2>0, <3>1 DEF TInv, Placed, Given, Amount, Moved
  <2>5. pc' = "done" => AllOrNothing' /\ BackupsAreAccepted'
    BY <2>0 DEF TInv, AllOrNothing, BackupsAreAccepted, Flawless, Imports, Installs, Format
  <2> QED
    BY <2>1, <2>2, <2>3, <2>4, <2>5 DEF TInv
<1> QED
  BY <1>1, <1>2, <1>3, <1>4, <1>5 DEF TWLNext

\* What holds at each place of the code (TInv): how far the import has looked,
\* where it reads next, and what AM9 has of the title by then
\* (twlexport.c:137-520).
THEOREM BackupInvariance == TWLSpec => []TInv
<1>1. TWLInit => TInv
  BY TInvInit
<1>2. TInv /\ [TWLNext]_tvars => TInv'
  BY TInvNext
<1> QED
  BY <1>1, <1>2, PTL DEF TWLSpec

LEMMA AllOrNothingHolds == TInv => AllOrNothing
<1> SUFFICES ASSUME TInv PROVE AllOrNothing
  OBVIOUS
<1>1. CASE pc = "done"
  BY <1>1 DEF TInv
<1>2. CASE pc # "done"
  <2>1. answer = "none" /\ pc \in {"idle"} \union Working
    BY <1>2 DEF TInv, Silent, TWLTypes
  <2>2. ~Installs => Untouched
    <3>1. CASE pc \in Working
      BY <3>1 DEF TInv, Silent, Certain, Installs, Imports, OnlyVerify
    <3>2. CASE pc = "idle"
      BY <3>2 DEF TInv, Silent
    <3> QED
      BY <2>1, <3>1, <3>2
  <2> QED
    BY <2>1, <2>2 DEF AllOrNothing, Untouched
<1> QED
  BY <1>1, <1>2

\* An import that is reported as done has installed and committed the whole
\* backup, one that failed has left nothing behind: for every backup, buffer
\* and failure (twlexport.c:137-520).
THEOREM BackupAllOrNothing == TWLSpec => []AllOrNothing
BY BackupInvariance, AllOrNothingHolds, PTL

\* A whole backup in one of the two newer formats is not refused, whatever the
\* sizes of its sections (twlexport.c:137-520).
THEOREM BackupAccepted == TWLSpec => []BackupsAreAccepted
<1>1. TInv => BackupsAreAccepted
  BY DEF TInv, Silent, BackupsAreAccepted
<1> QED
  BY <1>1, BackupInvariance, PTL

\* An import cancels no title of another session before its own is finished
\* (twlexport.c:288-331).
THEOREM BackupOthersTitle == TWLSpec => OthersTitleStays
<1>1. ASSUME TInv, TWLNext, pc # "commit", pc' # pc, open_title = "other"
      PROVE  open_title' = "other"
  <2>1. pc \in InSections \union {"finish"} => OnlyVerify
    BY <1>1 DEF TInv, Silent
  <2>2. pc = "finish" => ~OnlyVerify
    BY <1>1 DEF TInv, Silent, Working
  <2>3. CASE \E b \in Buffers, t \in ExportTypes : Import(t, b)
    BY <1>1, <2>3 DEF Import, am9_titles
  <2>4. CASE \E b \in Buffers, asks \in SUBSET {"banner", "info"} : ReadInfo11(b, asks) \/ ReadInfo12(b, asks)
    BY <1>1, <2>4 DEF ReadInfo11, ReadInfo12, ReadInfo, am9_titles
  <2>5. CASE VerifyBanner \/ VerifyHeader \/ VerifyFooter \/ SectionsDone \/ SkipSection
    BY <1>1, <2>5 DEF VerifyBanner, VerifyHeader, VerifyFooter, SectionsDone, SkipSection, am9_titles
  <2>6. CASE InstallTitleBegin
    BY <1>1, <2>6 DEF InstallTitleBegin
  <2>7. CASE InstallTitleFinish \/ InstallTitlesCommit
    BY <1>1, <2>1, <2>2, <2>7 DEF InstallTitleFinish, InstallTitlesCommit
  <2>8. CASE ProcessBegin \/ ProcessBlocks \/ ProcessRest \/ ProcessFinish
    <3>1. pc \in InSections
      BY <2>8 DEF ProcessBegin, ProcessBlocks, ProcessRest, ProcessFinish, InSections
    <3> QED
      BY <1>1, <2>1, <3>1, <2>8
         DEF ProcessBegin, ProcessBlocks, ProcessRest, ProcessFinish, Abort
  <2>9. CASE OtherTitle
    BY <1>1, <2>9 DEF OtherTitle
  <2> QED
    BY <1>1, <2>3, <2>4, <2>5, <2>6, <2>7, <2>8, <2>9 DEF TWLNext, Importing
<1>2. TInv /\ [TWLNext]_tvars
      => [pc # "commit" /\ pc' # pc /\ open_title = "other" => open_title' = "other"]_tvars
  BY <1>1
<1> QED
  BY <1>2, BackupInvariance, PTL DEF TWLSpec, OthersTitleStays

-----------------------------------------------------------------------------
(* Choosing a FIRM *)

SomeVersion == [minor : Nat, revision : Nat]
SomeFirm == [core : Nat, minor : Nat, revision : Nat]
SomeTitle == TitleIds \union {NoTitleId}

\* What findNewestFirmTitleId chooses from.
Firms == {t \in TitleIds : (~t.system \/ t.low % 2 = 0) /\ t.unique = 0 /\ t.low > 0}

Steady == environment \intersect {"delete", "older"} = {}
Alone == Steady /\ "overlap" \notin environment

\* v is a later version than w.
LaterVersion(v, w) == v.minor > w.minor \/ (v.minor = w.minor /\ v.revision > w.revision)

\* The version of a title after its commit, if it is going to be committed.
Coming(t) == IF imported[t] # Absent THEN imported[t] ELSE installed[t]

SomeThread ==
  [pc : {"idle", "count", "list", "infos", "pending", "commit"}, command : {"none", "commit", "update"},
   ids : SUBSET TitleIds, count : Nat, input : SomeTitle, found : SomeTitle, target : SomeTitle]

\* A session's thread: what it looks for among the titles it is to commit.
ThreadTypes(th) ==
  /\ th \in SomeThread
  /\ th.pc # "idle" => th.command # "none" /\ th.input = findNewestFirmTitleId(th.ids)
  /\ th.command = "update" => th.ids = {} /\ th.pc # "pending"
  /\ th.pc = "infos" => th.found \in Firms
  /\ th.pc = "pending" => th.input \in Firms
  /\ th.pc = "commit" => th.target \in Firms \union {NoTitleId}
  /\ th.pc \in {"count", "list", "infos", "pending"} => th.target = NoTitleId

FirmTypes ==
  /\ installed \in [TitleIds -> SomeVersion] /\ imported \in [TitleIds -> SomeVersion]
  /\ running \in SomeFirm /\ firm \in SomeFirm
  /\ fth \in [FirmSessions -> SomeThread]
  /\ \A s \in FirmSessions : ThreadTypes(fth[s])

\* Titles are replaced by later versions; what is in the partitions is or was
\* the installed version of a FIRM, and what runs is not newer.
Upwards ==
  /\ \A t \in TitleIds : imported[t] # Absent => LaterVersion(imported[t], installed[t])
  /\ \E u \in Firms : firm.core = u.low /\ installed[u] # Absent
                      /\ ~LaterVersion(firm, installed[u])
  /\ running.core < firm.core \/ (running.core = firm.core /\ running.minor <= firm.minor)

\* The title to write will be newer than the FIRM that runs.
Sure(t, ids) == IF t \in ids THEN firmNewerThanRunning(t, Coming(t))
                             ELSE firmNewerThanRunning(t, installed[t])

ThreadSure(th) == th.pc = "commit" /\ th.target # NoTitleId => Sure(th.target, th.ids)

\* The highest FIRM that is installed.
Highest(t) ==
  t \in Firms /\ installed[t] # Absent /\ \A u \in Firms : installed[u] # Absent => u.low <= t.low

\* Why a title is written, or none.
Chosen(found, input, target) ==
  \/ target = found /\ found.low > input.low
  \/ target = input /\ input \in Firms /\ input.low >= found.low
  \/ /\ target = input /\ input \in Firms /\ ~firmNewerThanRunning(found, installed[found])
     /\ imported[input] # Absent /\ firmNewerThanRunning(input, imported[input])
  \/ target = NoTitleId /\ input = NoTitleId
  \/ /\ target = NoTitleId /\ input \in Firms
     /\ imported[input] # Absent /\ ~firmNewerThanRunning(input, imported[input])

ThreadOrderly(th) ==
  /\ th.pc = "list" => th.count = Cardinality(On(installed))
  /\ th.pc \in {"infos", "pending", "commit"} => Highest(th.found)
  /\ th.pc = "pending" => ~firmNewerThanRunning(th.found, installed[th.found])
  /\ th.pc = "commit" => Chosen(th.found, th.input, th.target)

\* When commands follow one another, what a command has found stays so.
Orderly ==
  /\ \A r, s \in FirmSessions : ~Ready(r) /\ ~Ready(s) => r = s
  /\ \A s \in FirmSessions : ThreadOrderly(fth[s])

FInv ==
  /\ FirmTypes
  /\ Steady => Upwards /\ \A s \in FirmSessions : ThreadSure(fth[s])
  /\ Alone => Orderly
  /\ FirmIsCurrent

\* Versions
LEMMA VersionsAre ==
  /\ Absent \in SomeVersion
  /\ \A v \in Versions : v \in SomeVersion /\ v # Absent
  /\ \A v \in SomeVersion : v.minor \in Nat /\ v.revision \in Nat
  /\ \A t \in TitleIds : t.low \in Nat /\ t.unique \in Nat /\ t.system \in BOOLEAN
  /\ NoTitleId.low = 0 /\ NoTitleId \notin Firms /\ FirstFirm \in Firms
  /\ \A t, u \in Firms : t.low = u.low => t = u
BY VersionsAssumption, TitlesAssumption DEF Absent, SomeVersion, NoTitleId, Firms

\* The choice among titles is the highest FIRM, if there is one.
LEMMA NewestIs ==
  ASSUME NEW ids, ids \subseteq TitleIds
  PROVE  \/ findNewestFirmTitleId(ids) = NoTitleId /\ ids \intersect Firms = {}
         \/ /\ findNewestFirmTitleId(ids) \in ids \intersect Firms
            /\ \A u \in ids \intersect Firms : u.low <= findNewestFirmTitleId(ids).low
<1> DEFINE firms == {t \in ids : (~t.system \/ t.low % 2 = 0) /\ t.unique = 0 /\ t.low > 0}
<1>1. firms = ids \intersect Firms
  BY DEF Firms
<1>2. \A t \in firms : t.low \in 0..255
  BY TitlesAssumption
<1> HIDE DEF firms
<1>3. CASE firms = {}
  BY <1>1, <1>3 DEF findNewestFirmTitleId, firms
<1>4. CASE firms # {}
  <2> DEFINE S == {255 - t.low : t \in firms}
  <2>1. S \subseteq Nat /\ S # {}
    BY <1>2, <1>4
  <2> HIDE DEF S
  <2>2. PICK n \in S : \A j \in S : n <= j
    BY <2>1, Least
  <2>3. PICK t \in firms : n = 255 - t.low
    BY <2>2 DEF S
  <2>4. ASSUME NEW u \in firms PROVE u.low <= t.low
    <3>1. n <= 255 - u.low
      BY <2>2 DEF S
    <3>2. PICK a, b : a = t.low /\ b = u.low
      OBVIOUS
    <3>3. a \in Int /\ b \in Int /\ 255 - a <= 255 - b
      BY <1>2, <2>3, <3>1, <3>2
    <3>4. b <= a
      BY ONLY <3>3
    <3> QED
      BY <3>2, <3>4
  <2>5. \E x \in firms : \A u \in firms : u.low <= x.low
    BY <2>4
  <2>6. findNewestFirmTitleId(ids) = CHOOSE x \in firms : \A u \in firms : u.low <= x.low
    BY <1>4 DEF findNewestFirmTitleId, firms
  <2> QED
    BY <1>1, <2>5, <2>6
<1> QED
  BY <1>3, <1>4

\* The third disjunct of the code adds nothing.
LEMMA NewerIs ==
  ASSUME FirmTypes, NEW t \in TitleIds, NEW v \in SomeVersion
  PROVE  firmNewerThanRunning(t, v)
         <=> t.low > running.core \/ (t.low = running.core /\ v.minor > running.minor)
BY DEF firmNewerThanRunning

\* A later version of a title that is newer is newer.
LEMMA NewerGrows ==
  ASSUME FirmTypes, NEW t \in TitleIds, NEW v \in SomeVersion, NEW w \in SomeVersion,
         firmNewerThanRunning(t, v), w = v \/ LaterVersion(w, v)
  PROVE  firmNewerThanRunning(t, w)
<1>1. running.minor \in Nat /\ v.minor \in Nat /\ w.minor \in Nat
  BY VersionsAre DEF FirmTypes, SomeFirm
<1> QED
  BY <1>1, NewerIs DEF LaterVersion

LEMMA FInvInit == FirmInit => FInv
<1> SUFFICES ASSUME FirmInit PROVE FInv
  OBVIOUS
<1> USE DEF FirmInit
<1>0. FirstFirm \in Firms /\ FirstFirm \in TitleIds /\ FirstVersion \in SomeVersion /\ FirstVersion # Absent
      /\ FirstFirm.low \in Nat /\ FirstVersion.minor \in Nat /\ FirstVersion.revision \in Nat
      /\ Absent \in SomeVersion
  BY VersionsAre, TitlesAssumption
<1>1. FirmTypes
  <2>1. running \in SomeFirm
    BY <1>0 DEF Firm, SomeFirm
  <2>2. Resting \in SomeThread
    BY DEF Resting, SomeThread, SomeTitle
  <2>3. ThreadTypes(Resting)
    BY <2>2 DEF Resting, ThreadTypes
  <2>4. \A s \in FirmSessions : fth[s] = Resting
    OBVIOUS
  <2> QED
    BY <1>0, <2>1, <2>2, <2>3, <2>4 DEF FirmTypes
<1>2. installed[FirstFirm] = FirstVersion /\ \A t \in TitleIds : t # FirstFirm => installed[t] = Absent
  BY <1>0
<1>3. firm.core = FirstFirm.low /\ firm.minor = FirstVersion.minor /\ firm.revision = FirstVersion.revision
      /\ firm = running
  BY DEF Firm
<1>4. Upwards
  <2>1. ~LaterVersion(firm, installed[FirstFirm])
    BY <1>0, <1>2, <1>3 DEF LaterVersion
  <2> QED
    BY <1>0, <1>2, <1>3, <2>1 DEF Upwards
<1>5. \A s \in FirmSessions : fth[s].pc = "idle"
  BY DEF Resting
<1>6. \A s \in FirmSessions : ThreadSure(fth[s]) /\ ThreadOrderly(fth[s])
  BY <1>5 DEF ThreadSure, ThreadOrderly
<1>7. Orderly
  BY <1>5, <1>6 DEF Orderly, Ready
<1>8. FirmIsCurrent
  <2> SUFFICES ~Later(Firm(FirstFirm, [FirstVersion EXCEPT !.revision = 0]), [firm EXCEPT !.revision = 0])
    BY <1>2 DEF FirmIsCurrent
  <2>1. [FirstVersion EXCEPT !.revision = 0].minor = FirstVersion.minor
        /\ [FirstVersion EXCEPT !.revision = 0].revision = 0
    BY <1>0 DEF SomeVersion
  <2>2. [firm EXCEPT !.revision = 0].core = firm.core /\ [firm EXCEPT !.revision = 0].minor = firm.minor
        /\ [firm EXCEPT !.revision = 0].revision = 0
    BY <1>1 DEF FirmTypes, SomeFirm
  <2>3. FirstFirm.low \in Nat /\ FirstVersion.minor \in Nat
    BY <1>0
  <2> QED
    BY <1>3, <2>1, <2>2, <2>3 DEF Later, Firm
<1> QED
  BY <1>1, <1>4, <1>6, <1>7, <1>8 DEF FInv

\* What FirmIsCurrent compares.
LEMMA UpToRevision ==
  ASSUME NEW t, NEW v \in SomeVersion, NEW f \in SomeFirm
  PROVE  Later(Firm(t, [v EXCEPT !.revision = 0]), [f EXCEPT !.revision = 0])
         <=> t.low > f.core \/ (t.low = f.core /\ v.minor > f.minor)
<1>1. [v EXCEPT !.revision = 0].minor = v.minor /\ [v EXCEPT !.revision = 0].revision = 0
  BY DEF SomeVersion
<1>2. [f EXCEPT !.revision = 0].core = f.core /\ [f EXCEPT !.revision = 0].minor = f.minor
      /\ [f EXCEPT !.revision = 0].revision = 0
  BY DEF SomeFirm
<1> QED
  BY <1>1, <1>2 DEF Later, Firm

LEMMA CurrentIs ==
  ASSUME FirmTypes
  PROVE  FirmIsCurrent <=>
           (environment \intersect {"overlap", "plain", "delete", "older"} = {} =>
              \A t \in TitleIds :
                t.system /\ t.unique = 0 /\ t.low % 2 = 0 /\ installed[t] # Absent =>
                  ~ (t.low > firm.core \/ (t.low = firm.core /\ installed[t].minor > firm.minor)))
<1>1. \A t \in TitleIds : Later(Firm(t, [installed[t] EXCEPT !.revision = 0]), [firm EXCEPT !.revision = 0])
        <=> t.low > firm.core \/ (t.low = firm.core /\ installed[t].minor > firm.minor)
  BY UpToRevision DEF FirmTypes
<1> QED
  BY <1>1 DEF FirmIsCurrent

-----------------------------------------------------------------------------
(* Steps of a command that change only its own session *)

LEMMA ThreadStep ==
  ASSUME FInv, NEW s \in FirmSessions, fth' \in [FirmSessions -> SomeThread],
         \A r \in FirmSessions \ {s} : fth'[r] = fth[r],
         UNCHANGED <<environment, installed, imported, firm, running>>,
         ThreadTypes(fth'[s]),
         Steady => ThreadSure(fth'[s]),
         Alone => /\ ThreadOrderly(fth'[s])
                  /\ fth'[s].pc = "idle" \/ \A r \in FirmSessions \ {s} : Ready(r)
  PROVE  FInv'
<1>1. FirmTypes'
  BY DEF FirmTypes, FInv
<1>2. Steady' => Upwards'
  BY DEF Steady, Upwards, FInv
<1>3. Steady' => \A r \in FirmSessions : (ThreadSure(fth[r]))'
  <2>1. ASSUME NEW r \in FirmSessions, Steady PROVE (ThreadSure(fth[r]))'
    <3>1. ThreadSure(fth'[r])
      BY <2>1 DEF FInv
    <3>2. (ThreadSure(fth[r]))' <=> ThreadSure(fth'[r])
      BY DEF ThreadSure, Sure, Coming, firmNewerThanRunning
    <3> QED
      BY <3>1, <3>2
  <2> QED
    BY <2>1 DEF Steady
<1>4. Alone' => Orderly'
  <2> SUFFICES ASSUME Alone PROVE Orderly'
    BY DEF Alone, Steady
  <2>1. ASSUME NEW r \in FirmSessions PROVE (ThreadOrderly(fth[r]))'
    <3>1. ThreadOrderly(fth'[r])
      BY DEF FInv, Orderly
    <3>2. (ThreadOrderly(fth[r]))' <=> ThreadOrderly(fth'[r])
      BY DEF ThreadOrderly, Highest, Chosen, firmNewerThanRunning, On
    <3> QED
      BY <3>1, <3>2
  <2>2. ASSUME NEW q \in FirmSessions, NEW r \in FirmSessions, fth'[q].pc # "idle", fth'[r].pc # "idle"
        PROVE  q = r
    BY <2>2 DEF FInv, Orderly, Ready
  <2> QED
    BY <2>1, <2>2 DEF Orderly, Ready
<1>5. FirmIsCurrent'
  BY DEF FirmIsCurrent, FInv
<1> QED
  BY <1>1, <1>2, <1>3, <1>4, <1>5 DEF FInv

LEMMA AskFInv ==
  ASSUME FInv, NEW s \in FirmSessions, NEW command, NEW ids \in SUBSET TitleIds, Ask(s, command, ids),
         command = "commit" \/ (command = "update" /\ ids = {})
  PROVE  FInv'
<1> DEFINE th == [Resting EXCEPT !.pc = "count", !.command = command, !.ids = ids,
                                 !.input = findNewestFirmTitleId(ids)]
<1>0. /\ Ready(s) /\ Undisturbed /\ fth' = [fth EXCEPT ![s] = th]
      /\ UNCHANGED <<environment, installed, imported, firm, running>>
      /\ fth \in [FirmSessions -> SomeThread]
  BY DEF Ask, nand, FInv, FirmTypes
<1>1. findNewestFirmTitleId(ids) \in SomeTitle
  BY NewestIs DEF SomeTitle, Firms
<1>2. /\ th \in SomeThread /\ th.pc = "count" /\ th.command = command /\ th.ids = ids
      /\ th.input = findNewestFirmTitleId(ids) /\ th.target = NoTitleId
  BY <1>1 DEF SomeThread, Resting, SomeTitle
<1> HIDE DEF th
<1>3. fth' \in [FirmSessions -> SomeThread] /\ fth'[s] = th /\ \A r \in FirmSessions \ {s} : fth'[r] = fth[r]
  BY <1>0, <1>2
<1>4. ThreadTypes(th)
  BY <1>2 DEF ThreadTypes
<1>5. ThreadSure(th) /\ ThreadOrderly(th)
  BY <1>2 DEF ThreadSure, ThreadOrderly
<1>6. Alone => \A r \in FirmSessions \ {s} : Ready(r)
  BY <1>0 DEF Undisturbed, Alone
<1> QED
  BY <1>0, <1>3, <1>4, <1>5, <1>6, ThreadStep

\* The command ends.
LEMMA AnswerFInv ==
  ASSUME FInv, NEW s \in FirmSessions, Answer(s),
         UNCHANGED <<environment, installed, imported, firm, running>>
  PROVE  FInv'
<1>1. Resting \in SomeThread /\ Resting.pc = "idle" /\ Resting.command = "none"
  BY DEF Resting, SomeThread, SomeTitle
<1>2. fth' \in [FirmSessions -> SomeThread] /\ fth'[s] = Resting /\ \A r \in FirmSessions \ {s} : fth'[r] = fth[r]
  BY <1>1 DEF Answer, FInv, FirmTypes
<1>3. ThreadTypes(Resting) /\ ThreadSure(Resting) /\ ThreadOrderly(Resting)
  BY <1>1 DEF ThreadTypes, ThreadSure, ThreadOrderly
<1> QED
  BY <1>1, <1>2, <1>3, ThreadStep

LEMMA CountFInv == ASSUME FInv, NEW s \in FirmSessions, GetTitleCount(s) PROVE FInv'
<1> DEFINE th == [fth[s] EXCEPT !.pc = "list", !.count = Cardinality(On(installed))]
<1>0. /\ fth[s].pc = "count" /\ fth' = [fth EXCEPT ![s] = th]
      /\ UNCHANGED <<environment, installed, imported, firm, running>>
      /\ fth \in [FirmSessions -> SomeThread] /\ fth[s] \in SomeThread /\ ThreadTypes(fth[s])
  BY DEF GetTitleCount, nand, FInv, FirmTypes
<1>1. Cardinality(On(installed)) \in Nat
  <2>1. On(installed) \in SUBSET TitleIds
    BY DEF On
  <2>2. IsFiniteSet(On(installed))
    BY <2>1, TitlesAssumption, FS_Subset
  <2> QED
    BY <2>2, FS_CardinalityType
<1>2. /\ th \in SomeThread /\ th.pc = "list" /\ th.count = Cardinality(On(installed))
      /\ th.command = fth[s].command /\ th.ids = fth[s].ids /\ th.input = fth[s].input
      /\ th.target = fth[s].target
  BY <1>0, <1>1 DEF SomeThread
<1> HIDE DEF th
<1>3. fth' \in [FirmSessions -> SomeThread] /\ fth'[s] = th /\ \A r \in FirmSessions \ {s} : fth'[r] = fth[r]
  BY <1>0, <1>2
<1>4. ThreadTypes(th)
  BY <1>0, <1>2 DEF ThreadTypes
<1>5. ThreadSure(th) /\ ThreadOrderly(th)
  BY <1>2 DEF ThreadSure, ThreadOrderly
<1>6. Alone => \A r \in FirmSessions \ {s} : Ready(r)
  BY <1>0 DEF FInv, Orderly, Ready
<1> QED
  BY <1>0, <1>3, <1>4, <1>5, <1>6, ThreadStep

\* A session goes on to another place with a title it found, and perhaps one
\* to write.
LEMMA GoesOn ==
  ASSUME FInv, NEW s \in FirmSessions, NEW found \in SomeTitle, NEW target \in Firms \union {NoTitleId},
         NEW l \in {"infos", "pending", "commit"}, ~Ready(s),
         fth' = [fth EXCEPT ![s] = [fth[s] EXCEPT !.pc = l, !.found = found, !.target = target]],
         UNCHANGED <<environment, installed, imported, firm, running>>,
         l = "infos" => found \in Firms,
         l = "pending" => fth[s].input # NoTitleId /\ fth[s].command # "update",
         l \in {"infos", "pending"} => target = NoTitleId,
         Steady /\ l = "commit" /\ target # NoTitleId => Sure(target, fth[s].ids),
         Alone => /\ Highest(found)
                  /\ l = "pending" => ~firmNewerThanRunning(found, installed[found])
                  /\ l = "commit" => Chosen(found, fth[s].input, target)
  PROVE  FInv'
<1> DEFINE th == [fth[s] EXCEPT !.pc = l, !.found = found, !.target = target]
<1>0. /\ fth[s].pc # "idle" /\ fth \in [FirmSessions -> SomeThread] /\ fth[s] \in SomeThread
      /\ ThreadTypes(fth[s]) /\ target \in SomeTitle /\ fth' = [fth EXCEPT ![s] = th]
  BY DEF FInv, FirmTypes, Ready, Firms, SomeTitle
<1>1. /\ th \in SomeThread /\ th.pc = l /\ th.found = found /\ th.target = target
      /\ th.command = fth[s].command /\ th.ids = fth[s].ids /\ th.input = fth[s].input
  BY <1>0 DEF SomeThread
<1> HIDE DEF th
<1>2. fth' \in [FirmSessions -> SomeThread] /\ fth'[s] = th /\ \A r \in FirmSessions \ {s} : fth'[r] = fth[r]
  BY <1>0, <1>1
<1>3. l = "pending" => fth[s].input \in Firms
  BY <1>0, NewestIs DEF ThreadTypes, SomeThread
<1>4. ThreadTypes(th)
  BY <1>0, <1>1, <1>3 DEF ThreadTypes
<1>5. Steady => ThreadSure(th)
  BY <1>1 DEF ThreadSure
<1>6. Alone => ThreadOrderly(th) /\ \A r \in FirmSessions \ {s} : Ready(r)
  BY <1>0, <1>1 DEF ThreadOrderly, FInv, Orderly, Ready
<1> QED
  BY <1>2, <1>4, <1>5, <1>6, ThreadStep

\* An update ends; a commit goes on with the titles it is to commit.
LEMMA UndecidedFInv ==
  ASSUME FInv, NEW s \in FirmSessions, NEW found \in SomeTitle, fth[s].pc \in {"list", "infos"},
         Undecided(s, found), UNCHANGED <<environment, installed, imported, firm, running>>,
         Alone => Highest(found) /\ ~firmNewerThanRunning(found, installed[found])
  PROVE  FInv'
<1>1. CASE fth[s].command = "update"
  BY <1>1, AnswerFInv DEF Undecided
<1>2. CASE fth[s].command # "update"
  <2> DEFINE l == IF fth[s].input = NoTitleId THEN "commit" ELSE "pending"
  <2>1. fth[s] \in SomeThread /\ fth[s].target = NoTitleId /\ fth \in [FirmSessions -> SomeThread]
    BY DEF FInv, FirmTypes, ThreadTypes
  <2>2. fth' = [fth EXCEPT ![s] = [fth[s] EXCEPT !.found = found, !.pc = l]]
    BY <1>2 DEF Undecided
  <2>3. [fth[s] EXCEPT !.found = found, !.pc = l] = [fth[s] EXCEPT !.pc = l, !.found = found, !.target = NoTitleId]
    BY <2>1 DEF SomeThread
  <2>4. fth' = [fth EXCEPT ![s] = [fth[s] EXCEPT !.pc = l, !.found = found, !.target = NoTitleId]]
    BY <2>2, <2>3
  <2>5. l \in {"infos", "pending", "commit"} /\ NoTitleId \in Firms \union {NoTitleId} /\ ~Ready(s)
    BY DEF Ready
  <2>6. /\ l = "pending" => fth[s].input # NoTitleId /\ fth[s].command # "update"
        /\ l = "commit" => fth[s].input = NoTitleId
        /\ l # "infos"
    BY <1>2
  <2> HIDE DEF l
  <2>7. l = "commit" => Chosen(found, fth[s].input, NoTitleId)
    BY <2>6 DEF Chosen
  <2> QED
    BY <2>4, <2>5, <2>6, <2>7, GoesOn
<1> QED
  BY <1>1, <1>2

LEMMA ListFInv == ASSUME FInv, NEW s \in FirmSessions, GetTitleList(s) PROVE FInv'
<1>0. /\ fth[s].pc = "list" /\ fth[s] \in SomeThread /\ fth \in [FirmSessions -> SomeThread]
      /\ fth[s].target = NoTitleId /\ ~Ready(s)
      /\ UNCHANGED <<environment, installed, imported, firm, running>>
  BY DEF GetTitleList, nand, FInv, FirmTypes, Ready, ThreadTypes
<1>1. PICK ids \in SUBSET On(installed) :
        /\ \/ Cardinality(ids) = fth[s].count
           \/ ids = On(installed) /\ Cardinality(ids) < fth[s].count
        /\ IF findNewestFirmTitleId(ids) = NoTitleId THEN Undecided(s, findNewestFirmTitleId(ids))
           ELSE fth' = [fth EXCEPT ![s].found = findNewestFirmTitleId(ids), ![s].pc = "infos"]
  BY DEF GetTitleList
<1> DEFINE found == findNewestFirmTitleId(ids)
<1>2. ids \subseteq TitleIds /\ On(installed) \in SUBSET TitleIds
  BY DEF On
<1>3. \/ found = NoTitleId /\ ids \intersect Firms = {}
      \/ found \in ids \intersect Firms /\ \A u \in ids \intersect Firms : u.low <= found.low
  BY <1>2, NewestIs
<1> HIDE DEF found
<1>4. Alone => ids = On(installed)
  <2> SUFFICES ASSUME Alone PROVE ids = On(installed)
    OBVIOUS
  <2>1. fth[s].count = Cardinality(On(installed))
    BY <1>0 DEF FInv, Orderly, ThreadOrderly
  <2>2. IsFiniteSet(On(installed))
    BY <1>2, TitlesAssumption, FS_Subset
  <2>3. Cardinality(On(installed)) = Cardinality(ids) => On(installed) = ids
    BY <2>2, FS_Subset
  <2> QED
    BY <1>1, <2>1, <2>3
<1>5. Alone => Highest(found)
  <2> SUFFICES ASSUME Alone PROVE Highest(found)
    OBVIOUS
  <2>1. PICK u \in Firms : installed[u] # Absent
    BY DEF FInv, Upwards, Alone
  <2>2. \A t \in Firms : t \in ids <=> installed[t] # Absent
    BY <1>4 DEF On, Firms
  <2> QED
    BY <1>3, <2>1, <2>2 DEF Highest
<1>6. CASE found = NoTitleId
  <2>1. ~Alone
    BY <1>5, <1>6, VersionsAre DEF Highest
  <2> QED
    BY <1>0, <1>1, <1>6, <2>1, UndecidedFInv DEF found, SomeTitle
<1>7. CASE found # NoTitleId
  <2>1. fth' = [fth EXCEPT ![s] = [fth[s] EXCEPT !.found = found, !.pc = "infos"]]
    BY <1>1, <1>7 DEF found
  <2>2. [fth[s] EXCEPT !.found = found, !.pc = "infos"]
          = [fth[s] EXCEPT !.pc = "infos", !.found = found, !.target = NoTitleId]
    BY <1>0 DEF SomeThread
  <2>3. fth' = [fth EXCEPT ![s] = [fth[s] EXCEPT !.pc = "infos", !.found = found, !.target = NoTitleId]]
    BY <2>1, <2>2
  <2>4. found \in Firms /\ found \in SomeTitle /\ NoTitleId \in Firms \union {NoTitleId}
    BY <1>3, <1>7 DEF SomeTitle, Firms
  <2> QED
    BY <1>0, <1>5, <2>3, <2>4, GoesOn
<1> QED
  BY <1>6, <1>7

LEMMA InfosFInv == ASSUME FInv, NEW s \in FirmSessions, GetTitleInfos(s) PROVE FInv'
<1> DEFINE t == fth[s].found
           input == fth[s].input
           chosen == IF input.low < t.low THEN t ELSE input
<1>0. /\ fth[s].pc = "infos" /\ fth[s] \in SomeThread /\ fth \in [FirmSessions -> SomeThread]
      /\ t \in Firms /\ t \in TitleIds /\ ~Ready(s) /\ FirmTypes
      /\ input = findNewestFirmTitleId(fth[s].ids) /\ fth[s].ids \subseteq TitleIds
      /\ UNCHANGED <<environment, installed, imported, firm, running>>
  BY DEF GetTitleInfos, nand, FInv, FirmTypes, Ready, ThreadTypes, SomeThread, Firms
<1>1. Alone => Highest(t)
  BY <1>0 DEF FInv, Orderly, ThreadOrderly
<1>2. t \in SomeTitle
  BY <1>0 DEF SomeTitle
<1>3. CASE installed[t] = Absent /\ Answer(s)
  BY <1>0, <1>3, AnswerFInv
<1>4. CASE ~firmNewerThanRunning(t, installed[t]) /\ Undecided(s, t)
  BY <1>0, <1>1, <1>2, <1>4, UndecidedFInv
<1>5. CASE /\ installed[t] # Absent /\ firmNewerThanRunning(t, installed[t])
           /\ fth' = [fth EXCEPT ![s].pc = "commit", ![s].target = chosen]
  <2>1. input = NoTitleId \/ input \in fth[s].ids \intersect Firms
    BY <1>0, NewestIs
  <2>2. t.low \in Nat /\ t.low > 0 /\ input.low \in Nat
    BY <1>0, <2>1, VersionsAre DEF Firms
  <2>3. \/ chosen = t /\ input.low < t.low
        \/ chosen = input /\ input.low >= t.low /\ input \in fth[s].ids \intersect Firms
    BY <2>1, <2>2, VersionsAre
  <2>4. chosen \in Firms
    BY <1>0, <2>3
  <2>5. ASSUME Steady PROVE Sure(chosen, fth[s].ids)
    <3>1. \A u \in TitleIds : installed[u] \in SomeVersion /\ imported[u] \in SomeVersion
      BY <1>0 DEF FirmTypes
    <3>2. \A u \in TitleIds : /\ Coming(u) \in SomeVersion
                              /\ Coming(u) = installed[u] \/ LaterVersion(Coming(u), installed[u])
      BY <2>5, <3>1 DEF Coming, FInv, Upwards
    <3>3. firmNewerThanRunning(t, installed[t]) /\ firmNewerThanRunning(t, Coming(t))
      BY <1>0, <1>5, <3>1, <3>2, NewerGrows
    <3>4. CASE chosen = t
      BY <3>3, <3>4 DEF Sure
    <3>5. CASE chosen = input /\ input.low >= t.low /\ input \in fth[s].ids \intersect Firms
      <4>1. CASE input.low = t.low
        <5>1. input = t
          BY <1>0, <3>5, <4>1, VersionsAre
        <5> QED
          BY <3>3, <3>5, <5>1 DEF Sure
      <4>2. CASE input.low > t.low
        <5>1. t.low >= running.core /\ running.core \in Nat
          BY <1>0, <2>2, <3>1, <3>3, NewerIs DEF FirmTypes, SomeFirm
        <5>2. input \in TitleIds
          BY <3>5 DEF Firms
        <5>3. firmNewerThanRunning(input, Coming(input))
          BY <1>0, <2>2, <3>2, <4>2, <5>1, <5>2, NewerIs
        <5> QED
          BY <3>5, <5>3 DEF Sure
      <4> QED
        BY <2>2, <3>5, <4>1, <4>2
    <3> QED
      BY <2>3, <3>4, <3>5
  <2>6. Chosen(t, input, chosen)
    BY <2>3 DEF Chosen
  <2> HIDE DEF chosen
  <2>7. [fth[s] EXCEPT !.pc = "commit", !.target = chosen]
          = [fth[s] EXCEPT !.pc = "commit", !.found = t, !.target = chosen]
    BY <1>0, <2>4 DEF SomeThread
  <2>8. fth' = [fth EXCEPT ![s] = [fth[s] EXCEPT !.pc = "commit", !.target = chosen]]
    BY <1>5
  <2>9. fth' = [fth EXCEPT ![s] = [fth[s] EXCEPT !.pc = "commit", !.found = t, !.target = chosen]]
    BY <2>7, <2>8
  <2> HIDE DEF t, input
  <2>10. chosen \in Firms \union {NoTitleId}
    BY <2>4
  <2> QED
    BY <1>0, <1>1, <1>2, <2>5, <2>6, <2>9, <2>10, GoesOn DEF input
<1> QED
  BY <1>3, <1>4, <1>5 DEF GetTitleInfos

LEMMA PendingFInv == ASSUME FInv, NEW s \in FirmSessions, GetPendingTitleInfo(s) PROVE FInv'
<1> DEFINE t == fth[s].input
           target == IF firmNewerThanRunning(t, imported[t]) THEN t ELSE NoTitleId
<1>0. /\ fth[s].pc = "pending" /\ fth[s] \in SomeThread /\ fth \in [FirmSessions -> SomeThread]
      /\ t \in Firms /\ t = findNewestFirmTitleId(fth[s].ids) /\ fth[s].ids \subseteq TitleIds
      /\ ~Ready(s) /\ fth[s].found \in SomeTitle
      /\ UNCHANGED <<environment, installed, imported, firm, running>>
  BY DEF GetPendingTitleInfo, nand, FInv, FirmTypes, Ready, ThreadTypes, SomeThread
<1>1. Alone => Highest(fth[s].found) /\ ~firmNewerThanRunning(fth[s].found, installed[fth[s].found])
  BY <1>0 DEF FInv, Orderly, ThreadOrderly
<1>2. CASE imported[t] = Absent
  BY <1>0, <1>2, AnswerFInv DEF GetPendingTitleInfo
<1>3. CASE imported[t] # Absent
  <2>1. t \in fth[s].ids
    BY <1>0, NewestIs, VersionsAre
  <2>2. target \in Firms \union {NoTitleId}
    BY <1>0
  <2>3. target # NoTitleId => Sure(target, fth[s].ids)
    BY <1>3, <2>1 DEF Sure, Coming
  <2>4. Alone => Chosen(fth[s].found, t, target)
    BY <1>0, <1>1, <1>3 DEF Chosen
  <2>5. fth' = [fth EXCEPT ![s] = [fth[s] EXCEPT !.pc = "commit", !.target = target]]
    BY <1>3 DEF GetPendingTitleInfo
  <2> HIDE DEF target
  <2>6. [fth[s] EXCEPT !.pc = "commit", !.target = target]
          = [fth[s] EXCEPT !.pc = "commit", !.found = fth[s].found, !.target = target]
    BY <1>0, <2>2 DEF SomeThread
  <2>7. fth' = [fth EXCEPT ![s] = [fth[s] EXCEPT !.pc = "commit", !.found = fth[s].found, !.target = target]]
    BY <2>5, <2>6
  <2> QED
    BY <1>0, <1>1, <2>2, <2>3, <2>4, <2>7, GoesOn
<1> QED
  BY <1>2, <1>3

-----------------------------------------------------------------------------
(* Steps of AM9 *)

\* A commit, in which the versions of titles only grow.
Grows ==
  /\ installed' \in [TitleIds -> SomeVersion] /\ imported' \in [TitleIds -> SomeVersion]
  /\ Steady => /\ \A t \in TitleIds : imported'[t] # Absent => LaterVersion(imported'[t], installed'[t])
               /\ \A t \in TitleIds : installed'[t] = installed[t] \/ LaterVersion(installed'[t], installed[t])
               /\ \A t \in TitleIds : Coming(t)' = Coming(t) \/ LaterVersion(Coming(t)', Coming(t))

LEMMA LaterIs ==
  /\ \A v, w, x \in SomeVersion : LaterVersion(v, w) /\ LaterVersion(w, x) => LaterVersion(v, x)
  /\ \A v \in SomeVersion : ~LaterVersion(v, v) /\ ~LaterVersion(Absent, v)
  /\ \A f \in SomeFirm, v, w \in SomeVersion :
       LaterVersion(w, v) /\ ~LaterVersion(f, v) => ~LaterVersion(f, w)
BY DEF LaterVersion, SomeVersion, SomeFirm, Absent

LEMMA CommitGrows ==
  ASSUME FInv, NEW ids, Commit(ids)
  PROVE  /\ Grows /\ ids \subseteq TitleIds
         /\ \A t \in ids : imported[t] # Absent /\ installed'[t] = imported[t]
         /\ \A t \in TitleIds \ ids : installed'[t] = installed[t]
         /\ \A t \in TitleIds : Coming(t)' = Coming(t)
<1>0. /\ installed \in [TitleIds -> SomeVersion] /\ imported \in [TitleIds -> SomeVersion]
      /\ Absent \in SomeVersion
  BY VersionsAre DEF FInv, FirmTypes
<1>1. ids \subseteq TitleIds /\ \A t \in ids : imported[t] # Absent
  BY DEF Commit, On
<1>2. /\ \A t \in TitleIds : installed'[t] = (IF t \in ids THEN imported[t] ELSE installed[t])
      /\ \A t \in TitleIds : imported'[t] = (IF t \in ids THEN Absent ELSE imported[t])
  BY DEF Commit
<1>3. installed' \in [TitleIds -> SomeVersion] /\ imported' \in [TitleIds -> SomeVersion]
  BY <1>0 DEF Commit
<1>4. \A t \in TitleIds : Coming(t)' = Coming(t)
  BY <1>1, <1>2 DEF Coming
<1>5. Steady => \A t \in TitleIds : imported[t] # Absent => LaterVersion(imported[t], installed[t])
  BY DEF FInv, Upwards
<1> QED
  BY <1>1, <1>2, <1>3, <1>4, <1>5 DEF Grows

LEMMA ImportGrows ==
  ASSUME FInv, NEW t \in TitleIds, NEW v \in Versions, ImportTitle(t, v)
  PROVE  Grows
<1>0. /\ installed \in [TitleIds -> SomeVersion] /\ imported \in [TitleIds -> SomeVersion]
      /\ v \in SomeVersion /\ v # Absent /\ imported[t] = Absent /\ installed' = installed
      /\ imported' = [imported EXCEPT ![t] = v]
  BY VersionsAre DEF FInv, FirmTypes, ImportTitle
<1>1. imported' \in [TitleIds -> SomeVersion]
  BY <1>0
<1>2. ASSUME Steady PROVE LaterVersion(v, installed[t])
  <2>1. Later(Firm(t, v), Firm(t, installed[t]))
    BY <1>2 DEF ImportTitle, Steady
  <2>2. t.low \in Nat
    BY VersionsAre
  <2> QED
    BY <2>1, <2>2 DEF Later, Firm, LaterVersion
<1>3. \A u \in TitleIds : imported'[u] = IF u = t THEN v ELSE imported[u]
  BY <1>0
<1>4. Steady => \A u \in TitleIds : imported[u] # Absent => LaterVersion(imported[u], installed[u])
  BY DEF FInv, Upwards
<1>5. \A u \in TitleIds : Coming(u)' = (IF u = t THEN v ELSE Coming(u))
  BY <1>0, <1>3 DEF Coming
<1>6. Coming(t) = installed[t]
  BY <1>0 DEF Coming
<1>7. \A u \in TitleIds : u # t => Coming(u)' = Coming(u)
  BY <1>5
<1> HIDE DEF Coming
<1> QED
  BY <1>0, <1>1, <1>2, <1>3, <1>4, <1>5, <1>6, <1>7 DEF Grows

\* What is sure stays sure, and the partitions keep a version that some title
\* has at least.
LEMMA GrownTitles ==
  ASSUME FInv, Grows, UNCHANGED <<environment, running>>, Steady
  PROVE  /\ \A t \in TitleIds, ids \in SUBSET TitleIds : Sure(t, ids) => Sure(t, ids)'
         /\ \A u \in Firms : installed[u] # Absent => installed'[u] # Absent
         /\ \A u \in TitleIds : ~LaterVersion(firm, installed[u]) => ~LaterVersion(firm, installed'[u])
<1>0. /\ installed \in [TitleIds -> SomeVersion] /\ imported \in [TitleIds -> SomeVersion]
      /\ installed' \in [TitleIds -> SomeVersion] /\ imported' \in [TitleIds -> SomeVersion]
      /\ FirmTypes /\ firm \in SomeFirm /\ Firms \subseteq TitleIds
  BY DEF FInv, FirmTypes, Grows, Firms
<1>1. \A t \in TitleIds : installed'[t] = installed[t] \/ LaterVersion(installed'[t], installed[t])
  BY DEF Grows
<1>2. \A t \in TitleIds : /\ Coming(t) \in SomeVersion /\ Coming(t)' \in SomeVersion
                          /\ Coming(t)' = Coming(t) \/ LaterVersion(Coming(t)', Coming(t))
  BY <1>0 DEF Grows, Coming
<1>3. ASSUME NEW t \in TitleIds, NEW ids \in SUBSET TitleIds, Sure(t, ids) PROVE Sure(t, ids)'
  <2>1. CASE t \in ids
    <3>1. firmNewerThanRunning(t, Coming(t))
      BY <1>3, <2>1 DEF Sure
    <3>2. firmNewerThanRunning(t, Coming(t)')
      BY <1>0, <1>2, <3>1, NewerGrows
    <3>3. firmNewerThanRunning(t, Coming(t)')  <=> firmNewerThanRunning(t, Coming(t))'
      BY DEF firmNewerThanRunning
    <3> QED
      BY <2>1, <3>2, <3>3 DEF Sure
  <2>2. CASE t \notin ids
    <3>1. firmNewerThanRunning(t, installed[t])
      BY <1>3, <2>2 DEF Sure
    <3>2. firmNewerThanRunning(t, installed'[t])
      BY <1>0, <1>1, <3>1, NewerGrows
    <3>3. firmNewerThanRunning(t, installed'[t])  <=> firmNewerThanRunning(t, installed[t])'
      BY DEF firmNewerThanRunning
    <3> QED
      BY <2>2, <3>2, <3>3 DEF Sure
  <2> QED
    BY <2>1, <2>2
<1>4. ASSUME NEW u \in Firms, installed[u] # Absent PROVE installed'[u] # Absent
  BY <1>0, <1>1, <1>4, LaterIs
<1>5. ASSUME NEW u \in TitleIds, ~LaterVersion(firm, installed[u]) PROVE ~LaterVersion(firm, installed'[u])
  BY <1>0, <1>1, <1>5, LaterIs
<1> QED
  BY <1>3, <1>4, <1>5

LEMMA NandStep ==
  ASSUME FInv, Grows, UNCHANGED <<environment, running, fth, firm>>,
         Alone => \A r \in FirmSessions : Ready(r), FirmIsCurrent'
  PROVE  FInv'
<1>1. FirmTypes'
  BY DEF FInv, FirmTypes, Grows
<1>2. ASSUME Steady PROVE Upwards' /\ \A s \in FirmSessions : (ThreadSure(fth[s]))'
  <2>1. Upwards
    BY <1>2 DEF FInv
  <2>2. PICK u \in Firms : firm.core = u.low /\ installed[u] # Absent /\ ~LaterVersion(firm, installed[u])
    BY <2>1 DEF Upwards
  <2>3. u \in TitleIds
    BY DEF Firms
  <2>4. firm'.core = u.low /\ installed'[u] # Absent /\ ~LaterVersion(firm', installed'[u])
    BY <1>2, <2>2, <2>3, GrownTitles
  <2>5. Upwards'
    BY <1>2, <2>1, <2>4 DEF Upwards, Grows
  <2>6. ASSUME NEW s \in FirmSessions PROVE (ThreadSure(fth[s]))'
    <3> SUFFICES ASSUME fth[s].pc = "commit", fth[s].target # NoTitleId
                 PROVE  Sure(fth[s].target, fth[s].ids)'
      BY DEF ThreadSure, Sure, Coming, firmNewerThanRunning
    <3>1. fth[s].target \in TitleIds /\ fth[s].ids \in SUBSET TitleIds /\ Sure(fth[s].target, fth[s].ids)
      BY <1>2 DEF FInv, FirmTypes, ThreadTypes, ThreadSure, SomeThread, Firms
    <3>2. PICK t \in TitleIds, ids \in SUBSET TitleIds : t = fth[s].target /\ ids = fth[s].ids
      BY <3>1
    <3>3. Sure(t, ids)'
      BY <1>2, <3>1, <3>2, GrownTitles
    <3>4. Sure(t, ids)' <=> Sure(fth[s].target, fth[s].ids)'
      BY <3>2 DEF Sure, Coming, firmNewerThanRunning
    <3> QED
      BY <3>3, <3>4
  <2> QED
    BY <2>5, <2>6
<1>3. Alone => Orderly'
  BY DEF Orderly, Ready, ThreadOrderly
<1> QED
  BY <1>1, <1>2, <1>3 DEF FInv, Steady, Alone

LEMMA PlainFInv == ASSUME FInv, NEW s \in FirmSessions, NEW ids, PlainCommit(s, ids) PROVE FInv'
<1>1. Grows /\ UNCHANGED <<environment, running, firm, fth>> /\ "plain" \in environment
  BY CommitGrows DEF PlainCommit
<1>2. FirmIsCurrent'
  BY <1>1 DEF FirmIsCurrent
<1> QED
  BY <1>1, <1>2, NandStep DEF PlainCommit, Undisturbed, Alone

LEMMA ImportFInv ==
  ASSUME FInv, NEW t \in TitleIds, NEW v \in Versions, ImportTitle(t, v)
  PROVE  FInv'
<1>1. Grows /\ UNCHANGED <<environment, running, firm, fth, installed>>
  BY ImportGrows DEF ImportTitle
<1>2. FirmIsCurrent'
  BY <1>1 DEF FirmIsCurrent, FInv
<1> QED
  BY <1>1, <1>2, NandStep DEF ImportTitle, Undisturbed, Alone

\* The FIRM that a commit writes: newer than the one that runs and, when
\* nobody interferes, not older than the one in the partitions.
LEMMA Written ==
  ASSUME FInv, NEW s \in FirmSessions, fth[s].pc = "commit", Commit(fth[s].ids), Steady,
         UNCHANGED <<environment, running>>,
         NEW t, t = fth[s].target, t # NoTitleId
  PROVE  /\ t \in Firms
         /\ t.low > running.core \/ (t.low = running.core /\ installed'[t].minor > running.minor)
         /\ Alone => firm.core < t.low \/ (firm.core = t.low /\ ~LaterVersion(firm, installed'[t]))
<1> DEFINE found == fth[s].found
           input == fth[s].input
<1>0. /\ t \in Firms /\ t \in TitleIds /\ FirmTypes /\ Upwards /\ Sure(t, fth[s].ids)
      /\ installed'[t] \in SomeVersion
  BY CommitGrows DEF FInv, FirmTypes, ThreadTypes, ThreadSure, Firms, Grows
<1>1. firmNewerThanRunning(t, installed'[t])
  BY <1>0, CommitGrows DEF Sure, Coming
<1>2. t.low > running.core \/ (t.low = running.core /\ installed'[t].minor > running.minor)
  BY <1>0, <1>1, NewerIs
<1>3. ASSUME Alone
      PROVE  firm.core < t.low \/ (firm.core = t.low /\ ~LaterVersion(firm, installed'[t]))
  <2>1. Highest(found) /\ Chosen(found, input, t)
    BY <1>3 DEF FInv, Orderly, ThreadOrderly
  <2>2. PICK u \in Firms : firm.core = u.low /\ installed[u] # Absent /\ ~LaterVersion(firm, installed[u])
    BY <1>0 DEF Upwards
  <2>3. u.low <= found.low /\ found \in Firms
    BY <2>1, <2>2 DEF Highest
  <2>4. u.low \in Nat /\ t.low \in Nat /\ found.low \in Nat /\ u \in TitleIds /\ found \in TitleIds
    BY <1>0, <2>3, VersionsAre DEF Firms
  <2>5. t.low >= found.low
    <3>1. CASE t = found /\ found.low > input.low
      BY <2>4, <3>1
    <3>2. CASE t = input /\ input.low >= found.low
      BY <3>2
    <3>3. CASE /\ t = input /\ ~firmNewerThanRunning(found, installed[found])
               /\ firmNewerThanRunning(input, imported[input])
      <4>1. running.core \in Nat /\ installed[found] \in SomeVersion /\ imported[t] \in SomeVersion
        BY <1>0, <2>4 DEF FirmTypes, SomeFirm
      <4>2. t.low >= running.core
        BY <1>0, <2>4, <3>3, <4>1, NewerIs
      <4>3. ~(found.low > running.core)
        BY <1>0, <2>4, <3>3, <4>1, NewerIs
      <4> QED
        BY <2>4, <4>1, <4>2, <4>3
    <3> QED
      BY <2>1, <3>1, <3>2, <3>3 DEF Chosen
  <2>6. CASE t.low > u.low
    BY <2>2, <2>6, <2>4
  <2>7. CASE t.low = u.low
    <3>1. t = u
      BY <1>0, <2>7, VersionsAre
    <3>2. ~LaterVersion(firm, installed'[u])
      BY <2>2, <2>4, CommitGrows, GrownTitles
    <3> QED
      BY <2>2, <3>1, <3>2
  <2> QED
    BY <2>3, <2>4, <2>5, <2>6, <2>7
<1> QED
  BY <1>0, <1>2, <1>3

\* After a commit no installed FIRM is newer than the one in the partitions.
LEMMA CommitCurrent ==
  ASSUME FInv, NEW s \in FirmSessions, fth[s].pc = "commit", Commit(fth[s].ids),
         UNCHANGED <<environment, running>>, firm' \in SomeFirm, FirmTypes',
         \/ fth[s].target = NoTitleId /\ firm' = firm
         \/ fth[s].target # NoTitleId /\ firm' = Firm(fth[s].target, installed'[fth[s].target])
  PROVE  FirmIsCurrent'
<1> DEFINE t == fth[s].target
           found == fth[s].found
           input == fth[s].input
           ids == fth[s].ids
           Kept(x, v) == ~ (x.low > firm'.core \/ (x.low = firm'.core /\ v.minor > firm'.minor))
<1> SUFFICES ASSUME environment \intersect {"overlap", "plain", "delete", "older"} = {},
                    NEW x \in TitleIds, x.system, x.unique = 0, x.low % 2 = 0, installed'[x] # Absent
             PROVE  Kept(x, installed'[x])
  <2>1. \A y \in TitleIds :
          Later(Firm(y, [installed'[y] EXCEPT !.revision = 0]), [firm' EXCEPT !.revision = 0])
            <=> ~Kept(y, installed'[y])
    BY UpToRevision DEF FirmTypes
  <2> HIDE DEF Kept
  <2> QED
    BY <2>1 DEF FirmIsCurrent, Firm, Later
<1>0. /\ Alone /\ Steady /\ Upwards /\ FirmTypes /\ ThreadTypes(fth[s]) /\ ids \subseteq TitleIds
      /\ Highest(found) /\ Chosen(found, input, t)
  BY DEF Alone, Steady, FInv, FirmTypes, Orderly, ThreadOrderly, ThreadTypes, SomeThread
<1>1. /\ x.low \in Nat /\ firm.core \in Nat /\ firm.minor \in Nat /\ running.core \in Nat /\ running.minor \in Nat
      /\ firm'.core \in Nat /\ firm'.minor \in Nat
      /\ installed[x] \in SomeVersion /\ imported[x] \in SomeVersion /\ installed'[x] \in SomeVersion
      /\ installed[x].minor \in Nat /\ imported[x].minor \in Nat /\ installed'[x].minor \in Nat
  BY <1>0, VersionsAre DEF FirmTypes, SomeFirm
<1>2. firm'.core > firm.core \/ (firm'.core = firm.core /\ firm'.minor >= firm.minor)
  <2>1. CASE t = NoTitleId
    BY <1>1, <2>1
  <2>2. CASE t # NoTitleId
    <3>1. t \in Firms /\ (firm.core < t.low \/ (firm.core = t.low /\ ~LaterVersion(firm, installed'[t])))
      BY <1>0, <2>2, Written
    <3>2. firm'.core = t.low /\ firm'.minor = installed'[t].minor
      BY <2>2 DEF Firm
    <3> QED
      BY <1>1, <3>1, <3>2 DEF LaterVersion
  <2> QED
    BY <2>1, <2>2
<1>3. CASE x \notin ids
  <2>1. installed'[x] = installed[x]
    BY <1>3, CommitGrows
  <2>2. ~ (x.low > firm.core \/ (x.low = firm.core /\ installed[x].minor > firm.minor))
    BY <1>0, <2>1, CurrentIs DEF FInv
  <2> QED
    BY <1>1, <1>2, <2>1, <2>2
<1>4. CASE x \in ids /\ x.low = 0
  <2>1. PICK u \in Firms : firm.core = u.low
    BY <1>0 DEF Upwards
  <2>2. firm.core > 0
    BY <2>1 DEF Firms
  <2> QED
    BY <1>1, <1>2, <1>4, <2>2
<1>5. CASE x \in ids /\ x.low > 0
  <2>1. x \in Firms
    BY <1>5 DEF Firms
  <2>2. input = findNewestFirmTitleId(ids)
    BY <1>0 DEF ThreadTypes
  <2>3. input \in Firms /\ input \in ids /\ x.low <= input.low /\ input # NoTitleId
    BY <1>0, <1>5, <2>1, <2>2, NewestIs, VersionsAre
  <2>4. /\ input.low \in Nat /\ imported[input] \in SomeVersion /\ imported[input].minor \in Nat
        /\ input \in TitleIds /\ installed'[input] = imported[input]
    BY <1>0, <2>3, CommitGrows, VersionsAre DEF FirmTypes
  <2>5. input.low = x.low => input = x
    BY <2>1, <2>3, VersionsAre
  <2>6. CASE t = found /\ found.low > input.low
    <3>1. found # NoTitleId /\ found.low \in Nat
      BY <1>0, VersionsAre DEF Highest, Firms
    <3>2. firm'.core = found.low
      BY <2>6, <3>1 DEF Firm
    <3> QED
      BY <1>1, <2>3, <2>4, <2>6, <3>1, <3>2
  <2>7. CASE t = input
    <3>1. firm'.core = input.low /\ firm'.minor = installed'[input].minor
      BY <2>3, <2>7 DEF Firm
    <3> QED
      BY <1>1, <2>3, <2>4, <2>5, <3>1
  <2>8. CASE t = NoTitleId /\ ~firmNewerThanRunning(input, imported[input])
    <3>1. ~ (input.low > running.core \/ (input.low = running.core /\ imported[input].minor > running.minor))
      BY <1>0, <2>4, <2>8, NewerIs
    <3>2. running.core < firm.core \/ (running.core = firm.core /\ running.minor <= firm.minor)
      BY <1>0 DEF Upwards
    <3>3. x.low < running.core \/ (x.low = running.core /\ installed'[x].minor <= running.minor)
      BY <1>1, <2>3, <2>4, <2>5, <3>1
    <3> QED
      BY <1>1, <1>2, <3>2, <3>3
  <2> QED
    BY <1>0, <2>3, <2>6, <2>7, <2>8 DEF Chosen
<1> QED
  BY <1>1, <1>3, <1>4, <1>5

\* A thread that rests has found nothing.
LEMMA Rests ==
  /\ Resting \in SomeThread /\ Resting.pc = "idle" /\ ThreadTypes(Resting)
  /\ \A th : th.pc = "idle" => ThreadSure(th) /\ ThreadOrderly(th)
<1>1. Resting \in SomeThread /\ Resting.pc = "idle" /\ Resting.command = "none"
  BY DEF Resting, SomeThread, SomeTitle
<1> QED
  BY <1>1 DEF ThreadTypes, ThreadSure, ThreadOrderly

LEMMA CommitFInv == ASSUME FInv, NEW s \in FirmSessions, CommitTitles(s) PROVE FInv'
<1> DEFINE t == fth[s].target
           ids == fth[s].ids
<1>0. /\ fth[s].pc = "commit" /\ Answer(s) /\ UNCHANGED <<environment, running>> /\ FirmTypes
      /\ t \in Firms \union {NoTitleId} /\ fth \in [FirmSessions -> SomeThread]
  BY DEF CommitTitles, FInv, FirmTypes, ThreadTypes
<1>1. CASE UNCHANGED nand
  BY <1>0, <1>1, AnswerFInv DEF nand
<1>2. CASE /\ Commit(ids)
           /\ \/ t = NoTitleId /\ UNCHANGED firm
              \/ t # NoTitleId /\ installed'[t] # Absent /\ firm' = Firm(t, installed'[t])
  <2>1. Grows
    BY <1>2, CommitGrows
  <2>2. /\ fth' \in [FirmSessions -> SomeThread] /\ fth'[s] = Resting
        /\ \A r \in FirmSessions \ {s} : fth'[r] = fth[r]
    BY <1>0, Rests DEF Answer
  <2>3. firm' \in SomeFirm
    <3>1. CASE t # NoTitleId
      <4>1. t.low \in Nat /\ installed'[t] \in SomeVersion
        BY <1>0, <2>1, <3>1, VersionsAre DEF Grows, Firms
      <4> QED
        BY <1>2, <3>1, <4>1 DEF Firm, SomeFirm, SomeVersion
    <3> QED
      BY <1>0, <1>2, <3>1 DEF FirmTypes
  <2>4. FirmTypes'
    <3>1. \A r \in FirmSessions : ThreadTypes(fth'[r])
      BY <1>0, <2>2, Rests DEF FirmTypes
    <3> QED
      BY <1>0, <2>1, <2>2, <2>3, <3>1 DEF FirmTypes, Grows, ThreadTypes
  <2>5. ASSUME Steady PROVE Upwards'
    <3>1. Upwards /\ Steady'
      BY <1>0, <2>5 DEF FInv, Steady
    <3>2. CASE t = NoTitleId
      <4>1. PICK u \in Firms : firm.core = u.low /\ installed[u] # Absent /\ ~LaterVersion(firm, installed[u])
        BY <3>1 DEF Upwards
      <4>2. installed'[u] # Absent /\ ~LaterVersion(firm', installed'[u]) /\ firm'.core = u.low
        BY <1>0, <1>2, <2>1, <2>5, <3>2, <4>1, GrownTitles DEF Firms
      <4> QED
        BY <1>0, <1>2, <2>1, <2>5, <3>1, <3>2, <4>2 DEF Upwards, Grows
    <3>3. CASE t # NoTitleId
      <4>1. /\ t \in Firms
            /\ t.low > running.core \/ (t.low = running.core /\ installed'[t].minor > running.minor)
        BY <1>0, <1>2, <2>5, <3>3, Written
      <4>2. firm'.core = t.low /\ firm'.minor = installed'[t].minor /\ firm'.revision = installed'[t].revision
        BY <1>2, <3>3 DEF Firm
      <4>3. installed'[t] \in SomeVersion /\ t.low \in Nat
        BY <2>1, <4>1, VersionsAre DEF Grows, Firms
      <4>4. ~LaterVersion(firm', installed'[t])
        BY <4>2, <4>3, VersionsAre DEF LaterVersion
      <4>5. running'.core < firm'.core \/ (running'.core = firm'.core /\ running'.minor <= firm'.minor)
        <5>1. running.core \in Nat /\ running.minor \in Nat /\ installed'[t].minor \in Nat
          BY <1>0, <4>3, VersionsAre DEF FirmTypes, SomeFirm
        <5> QED
          BY <1>0, <4>1, <4>2, <4>3, <5>1
      <4> QED
        BY <1>2, <2>1, <2>5, <3>3, <4>1, <4>2, <4>4, <4>5 DEF Upwards, Grows
    <3> QED
      BY <3>2, <3>3
  <2>6. ASSUME Steady, NEW r \in FirmSessions PROVE (ThreadSure(fth[r]))'
    <3>1. CASE r = s
      BY <2>2, <3>1, Rests DEF ThreadSure
    <3>2. CASE r # s
      <4> SUFFICES ASSUME fth[r].pc = "commit", fth[r].target # NoTitleId
                   PROVE  Sure(fth[r].target, fth[r].ids)'
        BY <2>2, <3>2 DEF ThreadSure, Sure, Coming, firmNewerThanRunning
      <4>1. fth[r].target \in TitleIds /\ fth[r].ids \in SUBSET TitleIds /\ Sure(fth[r].target, fth[r].ids)
        BY <2>6 DEF FInv, FirmTypes, ThreadTypes, ThreadSure, SomeThread, Firms
      <4>2. PICK x \in TitleIds, xs \in SUBSET TitleIds : x = fth[r].target /\ xs = fth[r].ids
        BY <4>1
      <4>3. Sure(x, xs)'
        BY <1>0, <2>1, <2>6, <4>1, <4>2, GrownTitles
      <4>4. Sure(x, xs)' <=> Sure(fth[r].target, fth[r].ids)'
        BY <2>2, <3>2, <4>2 DEF Sure, Coming, firmNewerThanRunning
      <4> QED
        BY <4>3, <4>4
    <3> QED
      BY <3>1, <3>2
  <2>7. ASSUME Alone PROVE Orderly'
    <3>1. \A r \in FirmSessions : fth'[r].pc = "idle"
      BY <1>0, <2>2, <2>7, Rests DEF FInv, Orderly, Ready
    <3> QED
      BY <3>1 DEF Orderly, Ready, ThreadOrderly
  <2>8. FirmIsCurrent'
    BY <1>0, <1>2, <2>3, <2>4, CommitCurrent
  <2> QED
    BY <1>0, <2>4, <2>5, <2>6, <2>7, <2>8 DEF FInv, Steady, Alone
<1> QED
  BY <1>1, <1>2 DEF CommitTitles

\* Where titles may be deleted or written at will, nothing is claimed.
LEMMA UnsteadyFInv ==
  ASSUME FInv, ~Steady, UNCHANGED <<environment, running, fth>>, FirmTypes'
  PROVE  FInv'
BY DEF FInv, Steady, Alone, FirmIsCurrent

LEMMA RestartFInv == FInv /\ Restart => FInv'
<1> SUFFICES ASSUME FInv, Restart PROVE FInv'
  OBVIOUS
<1>0. /\ running' = firm /\ \A s \in FirmSessions : fth'[s] = Resting
      /\ fth' = [s \in FirmSessions |-> Resting]
      /\ UNCHANGED <<environment, installed, imported, firm>>
  BY DEF Restart, nand
<1>1. FirmTypes'
  BY <1>0, Rests DEF FInv, FirmTypes, ThreadTypes
<1>2. Steady => Upwards'
  BY <1>0, <1>1 DEF FInv, Upwards, FirmTypes, SomeFirm
<1>3. \A s \in FirmSessions : fth'[s].pc = "idle"
  BY <1>0, Rests
<1>4. \A s \in FirmSessions : (ThreadSure(fth[s]))'
  BY <1>3 DEF ThreadSure
<1>5. Orderly'
  BY <1>3 DEF Orderly, Ready, ThreadOrderly
<1>6. FirmIsCurrent'
  BY <1>0 DEF FInv, FirmIsCurrent
<1> QED
  BY <1>0, <1>1, <1>2, <1>4, <1>5, <1>6 DEF FInv, Steady

LEMMA FInvNext == FInv /\ [FirmNext]_fvars => FInv'
<1> SUFFICES ASSUME FInv, [FirmNext]_fvars PROVE FInv'
  OBVIOUS
<1>1. CASE \E s \in FirmSessions, ids \in SUBSET On(imported) \ {{}} : Ask(s, "commit", ids)
  <2>1. SUBSET On(imported) \subseteq SUBSET TitleIds
    BY DEF On
  <2> QED
    BY <1>1, <2>1, AskFInv
<1>2. CASE \E s \in FirmSessions : Ask(s, "update", {})
  BY <1>2, AskFInv
<1>3. CASE \E s \in FirmSessions, ids \in SUBSET On(imported) \ {{}} : PlainCommit(s, ids)
  BY <1>3, PlainFInv
<1>4. CASE \E s \in FirmSessions, t \in TitleIds : InstallFIRM(s, t)
  <2>1. PICK s \in FirmSessions, t \in TitleIds : InstallFIRM(s, t)
    BY <1>4
  <2>2. FirmTypes'
    <3>1. t.low \in Nat /\ installed[t] \in SomeVersion /\ FirmTypes
      BY VersionsAre DEF FInv, FirmTypes
    <3>2. Firm(t, installed[t]) \in SomeFirm
      BY <3>1 DEF Firm, SomeFirm, SomeVersion
    <3> QED
      BY <2>1, <3>1, <3>2 DEF FirmTypes, InstallFIRM, ThreadTypes
  <2> QED
    BY <2>1, <2>2, UnsteadyFInv DEF InstallFIRM, Steady
<1>5. CASE \E s \in FirmSessions : GetTitleCount(s) \/ GetTitleList(s) \/ GetTitleInfos(s)
                                   \/ GetPendingTitleInfo(s) \/ CommitTitles(s)
  BY <1>5, CountFInv, ListFInv, InfosFInv, PendingFInv, CommitFInv
<1>6. CASE \E s \in FirmSessions : Refused(s)
  BY <1>6, AnswerFInv DEF Refused, nand
<1>7. CASE \E t \in TitleIds : DeleteTitle(t)
  <2>1. PICK t \in TitleIds : DeleteTitle(t)
    BY <1>7
  <2>2. FirmTypes'
    BY <2>1, VersionsAre DEF FInv, FirmTypes, DeleteTitle, ThreadTypes
  <2> QED
    BY <2>1, <2>2, UnsteadyFInv DEF DeleteTitle, Steady
<1>8. CASE \E t \in TitleIds, v \in Versions : ImportTitle(t, v)
  BY <1>8, ImportFInv
<1>9. CASE Restart
  BY <1>9, RestartFInv
<1>10. CASE UNCHANGED fvars
  BY <1>10 DEF fvars, nand, FInv, FirmTypes, ThreadTypes, Steady, Alone, Upwards, ThreadSure, Sure, Coming,
               firmNewerThanRunning, Orderly, ThreadOrderly, Highest, Chosen, On, Ready, FirmIsCurrent
<1> QED
  BY <1>1, <1>2, <1>3, <1>4, <1>5, <1>6, <1>7, <1>8, <1>9, <1>10 DEF FirmNext

\* What commands know of titles while they look for a FIRM (FInv): versions
\* only grow, what runs is not newer than the partitions, a FIRM chosen stays
\* newer than the one that runs (ipc.c:1-140).
THEOREM FirmInvariance == FirmSpec => []FInv
<1>1. FirmInit => FInv
  BY FInvInit
<1>2. FInv /\ [FirmNext]_fvars => FInv'
  BY FInvNext
<1> QED
  BY <1>1, <1>2, PTL DEF FirmSpec

\* For any titles, versions and sessions: commands that follow one another
\* leave no installed FIRM waiting that is newer than the partitions, up to its
\* revision (ipc.c:89-124).
THEOREM FirmCurrent == FirmSpec => []FirmIsCurrent
<1>1. FInv => FirmIsCurrent
  BY DEF FInv
<1> QED
  BY <1>1, FirmInvariance, PTL

\* A commit writes only a FIRM that is newer than the one that runs and, when
\* commands do not overlap, not older than the one in the partitions
\* (ipc.c:1-124).
THEOREM FirmUpgradesOnly == FirmSpec => FirmOnlyUpgraded
<1> DEFINE Right == firm' # firm /\ environment \intersect {"delete", "older"} = {} =>
                      /\ firm'.core > running.core \/ (firm'.core = running.core /\ firm'.minor > running.minor)
                      /\ "overlap" \notin environment => ~Later(firm, firm')
<1>1. ASSUME FInv, [FirmNext]_fvars PROVE [Right]_fvars
  <2> SUFFICES ASSUME firm' # firm, Steady, FirmNext PROVE Right
    BY <1>1 DEF Steady
  <2>1. PICK s \in FirmSessions : CommitTitles(s)
    BY DEF FirmNext, Ask, PlainCommit, InstallFIRM, GetTitleCount, GetTitleList, GetTitleInfos,
           GetPendingTitleInfo, Refused, DeleteTitle, ImportTitle, Restart, nand, Steady
  <2> DEFINE t == fth[s].target
  <2>2. /\ fth[s].pc = "commit" /\ Commit(fth[s].ids) /\ t # NoTitleId /\ firm' = Firm(t, installed'[t])
        /\ UNCHANGED <<environment, running>>
    BY <2>1 DEF CommitTitles, nand
  <2>3. /\ t \in Firms
        /\ t.low > running.core \/ (t.low = running.core /\ installed'[t].minor > running.minor)
        /\ Alone => firm.core < t.low \/ (firm.core = t.low /\ ~LaterVersion(firm, installed'[t]))
    BY <1>1, <2>2, Written
  <2>4. firm'.core = t.low /\ firm'.minor = installed'[t].minor /\ firm'.revision = installed'[t].revision
    BY <2>2 DEF Firm
  <2>5. firm.core \in Nat /\ t.low \in Nat
    BY <1>1, <2>3, VersionsAre DEF FInv, FirmTypes, SomeFirm, Firms
  <2> HIDE DEF t
  <2>6. Alone => ~Later(firm, firm')
    BY <2>3, <2>4, <2>5 DEF Later, LaterVersion
  <2> QED
    BY <2>3, <2>4, <2>6 DEF Alone
<1>2. FInv /\ [FirmNext]_fvars => [Right]_fvars
  BY <1>1
<1> QED
  BY <1>2, FirmInvariance, PTL DEF FirmSpec, FirmOnlyUpgraded

-----------------------------------------------------------------------------
(* Sizes of files and contents *)

Shifted(s) == [k \in 0..Len(s) |-> IF k < Len(s) THEN s[k + 1] ELSE 0]

LEMMA ShiftedIs ==
  ASSUME NEW s \in Seq(Nat)
  PROVE  /\ Len(s) \in Nat
         /\ \A k \in 0..Len(s) : Shifted(s)[k] \in Nat
         /\ \A k \in 1..Len(s) : Shifted(s)[k - 1] = s[k] /\ s[k] \in Nat
<1>1. Len(s) \in Nat /\ \A k \in 1..Len(s) : s[k] \in Nat
  OBVIOUS
<1> QED
  BY <1>1 DEF Shifted

\* What is added up after each term.
LEMMA TotalIs ==
  ASSUME NEW s \in Seq(Nat)
  PROVE  \E w \in [0..Len(s) -> Int] : Sums(w, Shifted(s), 0, Len(s)) /\ Total(s) = w[Len(s)]
<1> DEFINE n == Len(s)
<1>1. n \in Nat /\ (\A k \in 0..n : Shifted(s)[k] \in Int)
      /\ \A k \in 1..n : Shifted(s)[k - 1] = s[k]
  BY ShiftedIs
<1> HIDE DEF n
<1>2. PICK w \in [0..n -> Int] : Sums(w, Shifted(s), 0, n)
  <2>1. PICK f, z : f = Shifted(s) /\ z = 0
    OBVIOUS
  <2>2. z \in Int /\ \A k \in 0..n : f[k] \in Int
    BY <1>1, <2>1
  <2>3. \E w \in [0..n -> Int] : Sums(w, f, z, n)
    BY <1>1, <2>2, Summation
  <2> QED
    BY <2>1, <2>3
<1> DEFINE Is(g) == g = [k \in 0..n |-> IF k = 0 THEN 0 ELSE g[k - 1] + s[k]]
           sum == CHOOSE g : Is(g)
<1>3. Is(w)
  <2>1. w[0] = 0 /\ \A k \in 1..n : w[k] = w[k - 1] + s[k]
    BY <1>1, <1>2 DEF Sums
  <2>2. \A k \in 0..n : w[k] = IF k = 0 THEN 0 ELSE w[k - 1] + s[k]
    BY <1>1, <2>1
  <2> QED
    BY <2>2
<1>4. Is(sum)
  <2> HIDE DEF Is
  <2> QED
    BY <1>3
<1>5. Total(s) = sum[n]
  BY DEF Total, n
<1> HIDE DEF sum
<1>6. Sums(sum, Shifted(s), 0, n)
  <2>1. sum[0] = 0 /\ \A k \in 1..n : sum[k] = sum[k - 1] + s[k]
    BY <1>1, <1>4
  <2> QED
    BY <1>1, <2>1 DEF Sums
<1>7. \A k \in 0..n : w[k] = sum[k]
  <2>1. PICK f, z, x, u, l : f = Shifted(s) /\ z = 0 /\ x = w /\ u = sum /\ l = n
    OBVIOUS
  <2>2. Within(l, l) /\ Sums(x, f, z, l) /\ Sums(u, f, z, l) /\ Alike(f, f, l)
    BY <1>1, <1>2, <1>6, <2>1 DEF Within, Alike
  <2>3. \A k \in 0..l : x[k] = u[k]
    BY ONLY <2>2, SumsAgree
  <2> QED
    BY <2>1, <2>3
<1>8. n \in 0..n
  BY <1>1
<1> QED
  BY <1>2, <1>5, <1>7, <1>8 DEF n

LEMMA TotalType == ASSUME NEW s \in Seq(Nat) PROVE Total(s) \in Nat
<1>1. PICK w \in [0..Len(s) -> Int] : Sums(w, Shifted(s), 0, Len(s)) /\ Total(s) = w[Len(s)]
  BY TotalIs
<1>2. \A k \in 0..Len(s) : w[k] \in Nat
  <2>1. PICK f, z, n : f = Shifted(s) /\ z = 0 /\ n = Len(s)
    OBVIOUS
  <2>2. z \in Nat /\ n \in Nat /\ \A k \in 0..(n - 1) : f[k] \in Nat
    <3>1. \A k \in 0..n : f[k] \in Nat
      BY <2>1, ShiftedIs
    <3>2. n \in Nat
      BY <2>1
    <3> QED
      BY <2>1, <3>1, <3>2
  <2>3. Sums(w, f, z, n)
    BY <1>1, <2>1
  <2>4. \A k \in 0..n : w[k] \in Nat /\ w[k] <= w[n]
    BY <2>2, <2>3, SumsGrow
  <2> QED
    BY <2>1, <2>4
<1> QED
  BY <1>1, <1>2

\* What is added up in two parts.
LEMMA TotalParts ==
  ASSUME NEW s \in Seq(Nat), NEW s1 \in Seq(Nat), NEW s2 \in Seq(Nat),
         Len(s) = Len(s1) + Len(s2),
         \A k \in 1..Len(s1) : s1[k] = s[k],
         \A k \in 1..Len(s2) : s2[k] = s[Len(s1) + k]
  PROVE  Total(s) = Total(s1) + Total(s2)
<1>0. PICK n \in Nat, m \in Nat, l \in Nat : n = Len(s1) /\ m = Len(s2) /\ l = Len(s) /\ l = n + m
  OBVIOUS
<1>1. PICK w, f : Sums(w, f, 0, l) /\ Total(s) = w[l] /\ f = Shifted(s) /\ \A k \in 0..l : w[k] \in Int
  <2>1. PICK w \in [0..Len(s) -> Int] : Sums(w, Shifted(s), 0, Len(s)) /\ Total(s) = w[Len(s)]
    BY TotalIs
  <2>2. \A k \in 0..l : w[k] \in Int
    BY <1>0
  <2> QED
    BY <1>0, <2>1, <2>2
<1>2. PICK w1, f1 : Sums(w1, f1, 0, n) /\ Total(s1) = w1[n] /\ f1 = Shifted(s1)
  BY <1>0, TotalIs
<1>3. PICK w2, f2 : Sums(w2, f2, 0, m) /\ Total(s2) = w2[m] /\ f2 = Shifted(s2)
  BY <1>0, TotalIs
<1>4. Alike(f, f1, n)
  <2>1. ASSUME NEW k \in 0..(n - 1) PROVE f[k] = f1[k]
    <3>1. k + 1 \in 1..n /\ k \in 0..l /\ k \in 0..n /\ k < n /\ k < l
      BY <1>0
    <3> QED
      BY <1>0, <1>1, <1>2, <3>1 DEF Shifted
  <2> QED
    BY <2>1 DEF Alike
<1>5. \A k \in 1..m : f[n + k - 1] = f2[k - 1] /\ f2[k - 1] \in Nat
  <2>1. ASSUME NEW k \in 1..m PROVE f[n + k - 1] = f2[k - 1] /\ f2[k - 1] \in Nat
    <3>1. n + k \in 1..l /\ k - 1 \in 0..m
      BY <1>0
    <3>2. f[(n + k) - 1] = s[n + k] /\ f2[k - 1] = s2[k] /\ s2[k] \in Nat
      BY <1>0, <1>1, <1>3, <3>1, ShiftedIs
    <3>3. s2[k] = s[n + k]
      BY <1>0
    <3> QED
      BY <3>2, <3>3
  <2> QED
    BY <2>1
<1>6. w[n] = w1[n]
  <2>1. PICK z : z = 0
    OBVIOUS
  <2>2. Within(n, l) /\ Within(n, n)
    BY <1>0 DEF Within
  <2>3. Sums(w, f, z, l) /\ Sums(w1, f1, z, n)
    BY <1>1, <1>2, <2>1
  <2>4. \A k \in 0..n : w[k] = w1[k]
    BY ONLY <1>4, <2>2, <2>3, SumsAgree
  <2> QED
    BY <1>0, <2>4
<1>7. PICK v : v = [k \in 0..m |-> w[n + k] - w[n]]
  OBVIOUS
<1>8. Sums(v, f2, 0, m)
  <2>1. v[0] = 0
    <3>1. v[0] = w[n + 0] - w[n] /\ n + 0 = n /\ n \in 0..l
      BY <1>0, <1>7
    <3> QED
      BY <3>1, <1>1
  <2>2. ASSUME NEW k \in 1..m PROVE v[k] = v[k - 1] + f2[k - 1]
    <3>1. n + k \in 1..l /\ n + (k - 1) \in 0..l /\ n \in 0..l /\ k \in 0..m /\ k - 1 \in 0..m
          /\ n + k - 1 = n + (k - 1) /\ n + k \in 0..l
      BY <1>0
    <3>2. w[n + k] = w[n + k - 1] + f[n + k - 1]
      BY <1>1, <3>1 DEF Sums
    <3>3. v[k] = w[n + k] - w[n] /\ v[k - 1] = w[n + (k - 1)] - w[n]
      BY <1>7, <3>1
    <3>4. w[n] \in Int /\ w[n + (k - 1)] \in Int
      BY <3>1, <1>1
    <3>5. f[n + k - 1] = f2[k - 1] /\ f2[k - 1] \in Nat
      BY <1>5
    <3> QED
      BY <3>1, <3>2, <3>3, <3>4, <3>5
  <2> QED
    BY <2>1, <2>2 DEF Sums
<1>9. v[m] = w2[m]
  <2>1. PICK z : z = 0
    OBVIOUS
  <2>2. Within(m, m) /\ Sums(v, f2, z, m) /\ Sums(w2, f2, z, m) /\ Alike(f2, f2, m)
    BY <1>0, <1>3, <1>8, <2>1 DEF Within, Alike
  <2>3. \A k \in 0..m : v[k] = w2[k]
    BY ONLY <2>2, SumsAgree
  <2> QED
    BY <2>3
<1>10. v[m] = w[n + m] - w[n] /\ w[n] \in Int /\ w[n + m] \in Int
  <2>1. m \in 0..m /\ n \in 0..l /\ n + m \in 0..l
    BY <1>0
  <2> QED
    BY <2>1, <1>1, <1>7
<1> QED
  BY <1>0, <1>1, <1>2, <1>3, <1>6, <1>9, <1>10

\* The alignments that the commands ask for.
Alignments == {16384, 32768, 65536}

LEMMA AlignsAre == \A media : Align(media) \in Alignments /\ ContextAlign(media) \in Alignments
BY DEF Align, ContextAlign, Alignments

LEMMA BlocksType ==
  ASSUME NEW n \in Nat, NEW a \in Alignments
  PROVE  Blocks(n, a) \in Nat /\ a \in Nat /\ a > 0 /\ a <= 65536
BY DEF Blocks, Alignments

LEMMA Remainder == ASSUME NEW n \in Nat, NEW m \in Nat, n < m PROVE n % m = n
  OBVIOUS

LEMMA U32Is == ASSUME ReaderAssumption PROVE U32 \in Nat /\ 65536 <= U32
<1>1. {U32, IndexMax} \subseteq Nat /\ 1024 * IndexMax + 512 + 65536 <= U32
  BY DEF ReaderAssumption
<1> QED
  BY <1>1

LEMMA AlignedType ==
  ASSUME ReaderAssumption, NEW n \in Nat, NEW a \in Alignments
  PROVE  Aligned(n, a) \in Nat
<1>0. U32 \in Nat /\ 65536 <= U32 /\ a \in Nat /\ a > 0
  BY BlocksType, U32Is
<1>1. (n + a - 1) % U32 \in Nat
  <2>1. PICK x \in Nat : x = n + a - 1
    BY <1>0
  <2>2. x % U32 \in Nat
    BY <1>0
  <2> QED
    BY <2>1, <2>2
<1> QED
  BY <1>1 DEF Aligned, Alignments

\* Numbers below 2^32 are rounded up to blocks.
LEMMA AlignedIs ==
  ASSUME ReaderAssumption, NEW n \in Nat, NEW a \in Alignments, n + a <= U32
  PROVE  Aligned(n, a) = Blocks(n, a)
<1>1. a \in Nat /\ a > 0 /\ U32 \in Nat
  BY BlocksType, U32Is
<1>2. (n + a - 1) % U32 = n + a - 1
  BY <1>1, Remainder
<1> QED
  BY <1>2 DEF Aligned, Blocks

LEMMA BlocksBound ==
  ASSUME NEW n \in Nat, NEW a \in Alignments
  PROVE  /\ Blocks(n, a) < n + a
         /\ Blocks(0, a) = 0 /\ Blocks(1, a) = a
BY DEF Blocks, Alignments

\* The enabled indices are all looked at when there are few enough.
LEMMA EnabledIs ==
  ASSUME ReaderAssumption, NEW f \in FileType, IsFiniteSet(f.enabled), Cardinality(f.enabled) <= IndexMax
  PROVE  EnabledIndices(f) = f.enabled
<1>1. IndexMax \in Nat /\ Cardinality(f.enabled) \in Nat /\ f.enabled \subseteq Nat
  BY FS_CardinalityType DEF ReaderAssumption, FileType
<1>2. ASSUME NEW i \in f.enabled PROVE Cardinality({j \in f.enabled : j < i}) < IndexMax
  <2> DEFINE S == {j \in f.enabled : j < i}
  <2>1. S \in SUBSET f.enabled /\ i \notin S
    BY <1>1
  <2> HIDE DEF S
  <2>2. Cardinality(S) <= Cardinality(f.enabled) /\ Cardinality(S) # Cardinality(f.enabled) /\ IsFiniteSet(S)
    BY <2>1, FS_Subset
  <2>3. Cardinality(S) \in Nat
    BY <2>2, FS_CardinalityType
  <2>4. Cardinality(S) < IndexMax
    BY <1>1, <2>2, <2>3
  <2> QED
    BY <2>4 DEF S
<1> QED
  BY <1>2 DEF EnabledIndices

ChunkSizes(f, indices, a) ==
  [k \in 1..Len(f.chunks) |-> IF k \in DOMAIN f.chunks /\ f.chunks[k].index \in indices
                              THEN Aligned(f.chunks[k].size, a) ELSE 0]

LEMMA ChunksAre ==
  ASSUME NEW f \in FileType
  PROVE  /\ Len(f.chunks) \in Nat
         /\ DOMAIN f.chunks = 1..Len(f.chunks)
         /\ \A k \in 1..Len(f.chunks) : f.chunks[k].size \in Nat /\ f.chunks[k].index \in Nat
<1>1. f.chunks \in Seq([index : Nat, size : Nat])
  BY DEF FileType
<1>2. \A k \in 1..Len(f.chunks) : f.chunks[k] \in [index : Nat, size : Nat]
  <2>1. PICK c, X : c = f.chunks /\ X = [index : Nat, size : Nat]
    OBVIOUS
  <2>2. c \in Seq(X)
    BY <1>1, <2>1
  <2>3. \A k \in 1..Len(c) : c[k] \in X
    BY <2>2
  <2> QED
    BY <2>1, <2>3
<1>3. \A k \in 1..Len(f.chunks) : f.chunks[k].size \in Nat /\ f.chunks[k].index \in Nat
  BY <1>2
<1> QED
  BY <1>1, <1>3

LEMMA ChunkSizesAre ==
  ASSUME ReaderAssumption, NEW f \in FileType, NEW indices, NEW a \in Alignments
  PROVE  ChunkSizes(f, indices, a) \in Seq(Nat)
<1>1. ASSUME NEW k \in 1..Len(f.chunks)
      PROVE  (IF k \in DOMAIN f.chunks /\ f.chunks[k].index \in indices
              THEN Aligned(f.chunks[k].size, a) ELSE 0) \in Nat
  BY ChunksAre, AlignedType
<1> QED
  BY <1>1, ChunksAre DEF ChunkSizes

Counted(f, a) == ContentsSize(f, Len(f.chunks), EnabledIndices(f), a) + TMDSize(Len(f.chunks), a)

TitleSize(f, a) == Counted(f, a) + SaveSize(f, a) + 3 * a

RequiredSize(f, a) ==
  TitleSize(f, a) + a + Aligned(Cardinality(EnabledIndices(f)) * 1024 + 512, a)

LEMMA SaveIsNumber ==
  ASSUME ReaderAssumption, NEW f \in FileType, NEW a \in Alignments
  PROVE  SaveSize(f, a) \in Nat
<1>0. U32 \in Nat /\ U32 > 0 /\ a \in Nat
  BY U32Is, BlocksType
<1>1. f.public \in Nat /\ f.private \in Nat /\ f.ctr \in Nat
  BY DEF FileType
<1>2. PICK p \in Nat, q \in Nat, c \in Nat : p = Aligned(f.public, a) /\ q = Aligned(f.private, a) /\ c = Aligned(f.ctr, a)
  BY <1>1, AlignedType
<1>3. PICK z \in Nat : z = IF f.banner THEN a ELSE 0
  BY <1>0
<1>4. (p + q + z) % U32 \in Nat
  <2>1. p + q + z \in Nat
    BY <1>0
  <2> QED
    BY <1>0, <2>1
<1>5. PICK y \in Nat : y = IF f.twl THEN (p + q + z) % U32 ELSE c
  BY <1>4
<1>6. (y + a) % U32 \in Nat
  <2>1. y + a \in Nat
    BY <1>0
  <2> QED
    BY <1>0, <2>1
<1>7. SaveSize(f, a) = IF y = 0 THEN 0 ELSE (y + a) % U32
  BY <1>2, <1>3, <1>5 DEF SaveSize
<1> QED
  BY <1>6, <1>7

LEMMA CountedIsNumber ==
  ASSUME ReaderAssumption, NEW f \in FileType, NEW a \in Alignments
  PROVE  Counted(f, a) \in Nat
<1>0. a \in Nat /\ Len(f.chunks) \in Nat /\ 2820 + 48 * Len(f.chunks) \in Nat
  BY BlocksType, ChunksAre
<1>1. ContentsSize(f, Len(f.chunks), EnabledIndices(f), a) \in Nat
  BY ChunkSizesAre, TotalType DEF ContentsSize, ChunkSizes
<1>2. Aligned(2820 + 48 * Len(f.chunks), a) \in Nat
  BY <1>0, AlignedType
<1>3. (IF Len(f.chunks) > ManyContents THEN 2 ELSE 1) * a \in Nat
  BY <1>0
<1> QED
  BY <1>1, <1>2, <1>3 DEF Counted, TMDSize

LEMMA SizesAreNumbers ==
  ASSUME ReaderAssumption, NEW f \in FileType, IsFiniteSet(f.enabled), NEW a \in Alignments
  PROVE  /\ TitleSize(f, a) \in Nat
         /\ RequiredSize(f, a) \in Nat
         /\ Cardinality(EnabledIndices(f)) * 1024 + 512 \in Nat
         /\ Aligned(Cardinality(EnabledIndices(f)) * 1024 + 512, a) \in Nat
<1>1. a \in Nat
  BY BlocksType
<1>2. TitleSize(f, a) \in Nat
  BY <1>1, SaveIsNumber, CountedIsNumber DEF TitleSize
<1>3. Cardinality(EnabledIndices(f)) \in Nat
  <2>1. EnabledIndices(f) \in SUBSET f.enabled
    BY DEF EnabledIndices
  <2> QED
    BY <2>1, FS_Subset, FS_CardinalityType
<1>4. Cardinality(EnabledIndices(f)) * 1024 + 512 \in Nat
  BY <1>3
<1>5. Aligned(Cardinality(EnabledIndices(f)) * 1024 + 512, a) \in Nat
  BY <1>4, AlignedType
<1> QED
  BY <1>1, <1>2, <1>4, <1>5 DEF RequiredSize

LEMMA SavesAreNumbers ==
  ASSUME NEW f \in FileType, NEW a \in Alignments
  PROVE  /\ Blocks(f.public, a) + Blocks(f.private, a) + Blocks(IF f.banner THEN 1 ELSE 0, a) \in Nat
         /\ Blocks(f.ctr, a) \in Nat
<1>1. f.public \in Nat /\ f.private \in Nat /\ f.ctr \in Nat /\ (IF f.banner THEN 1 ELSE 0) \in Nat
  BY DEF FileType
<1>2. \A n \in Nat : Blocks(n, a) \in Nat
  BY BlocksType
<1>3. PICK b : b = IF f.banner THEN 1 ELSE 0
  OBVIOUS
<1>4. Blocks(f.public, a) \in Nat /\ Blocks(f.private, a) \in Nat /\ Blocks(f.ctr, a) \in Nat /\ Blocks(b, a) \in Nat
  BY <1>1, <1>2, <1>3
<1> QED
  BY <1>3, <1>4

\* What is counted is the space that the title needs.
LEMMA SaveIs ==
  ASSUME ReaderAssumption, NEW f \in FileType, NEW a \in Alignments, Countable(f, a)
  PROVE  SaveSize(f, a) =
           LET saves == IF f.twl
                        THEN Blocks(f.public, a) + Blocks(f.private, a) + Blocks(IF f.banner THEN 1 ELSE 0, a)
                        ELSE Blocks(f.ctr, a)
           IN saves + (IF saves > 0 THEN a ELSE 0)
<1>0. U32 \in Nat /\ a \in Nat /\ a > 0
  BY U32Is, BlocksType
<1>1. f.public \in Nat /\ f.private \in Nat /\ f.ctr \in Nat
  BY DEF FileType
<1>2. f.public + f.private + 4 * a <= U32 /\ f.ctr + 2 * a <= U32
  BY DEF Countable
<1>3. PICK p \in Nat, q \in Nat, c \in Nat : p = Blocks(f.public, a) /\ q = Blocks(f.private, a) /\ c = Blocks(f.ctr, a)
  BY <1>1, BlocksType
<1>4. p < f.public + a /\ q < f.private + a /\ c < f.ctr + a
  BY <1>1, <1>3, BlocksBound
<1>5. f.public + a <= U32 /\ f.private + a <= U32 /\ f.ctr + a <= U32
  BY <1>0, <1>1, <1>2
<1>6. p = Aligned(f.public, a) /\ q = Aligned(f.private, a) /\ c = Aligned(f.ctr, a)
  BY <1>1, <1>3, <1>5, AlignedIs
<1>7. PICK z \in Nat : z = IF f.banner THEN a ELSE 0
  BY <1>0
<1>8. Blocks(IF f.banner THEN 1 ELSE 0, a) = z
  BY <1>7, BlocksBound
<1>9. p + q + z \in Nat /\ p + q + z + a < U32 /\ c + a < U32 /\ z <= a
  BY <1>0, <1>1, <1>2, <1>4, <1>7
<1>10. (p + q + z) % U32 = p + q + z
  <2>1. p + q + z < U32
    BY <1>0, <1>9
  <2> QED
    BY <1>0, <1>9, <2>1, Remainder
<1>11. PICK y \in Nat : y = IF f.twl THEN p + q + z ELSE c
  BY <1>9
<1>12. y + a \in Nat /\ y + a < U32
  BY <1>0, <1>9, <1>11
<1>13. (y + a) % U32 = y + a
  BY <1>0, <1>12, Remainder
<1>14. SaveSize(f, a) = IF y = 0 THEN 0 ELSE (y + a) % U32
  BY <1>6, <1>7, <1>10, <1>11 DEF SaveSize
<1>15. (IF f.twl THEN Blocks(f.public, a) + Blocks(f.private, a) + Blocks(IF f.banner THEN 1 ELSE 0, a)
        ELSE Blocks(f.ctr, a)) = y
  BY <1>3, <1>8, <1>11
<1> QED
  BY <1>0, <1>13, <1>14, <1>15

LEMMA TitleSizeIs ==
  ASSUME ReaderAssumption, NEW f \in FileType, NEW a \in Alignments, Countable(f, a),
         IsFiniteSet(f.enabled), 2820 + 48 * Len(f.chunks) + 65536 <= U32
  PROVE  TitleSize(f, a) = TitleSpace(f, a)
<1>0. U32 \in Nat /\ a \in Nat /\ a > 0 /\ a <= 65536 /\ Len(f.chunks) \in Nat /\ ManyContents \in Nat
  BY U32Is, BlocksType, ChunksAre DEF ReaderAssumption
<1>1. EnabledIndices(f) = f.enabled
  BY EnabledIs DEF Countable
<1>2. Aligned(2820 + 48 * Len(f.chunks), a) = Blocks(2820 + 48 * Len(f.chunks), a)
      /\ Blocks(2820 + 48 * Len(f.chunks), a) \in Nat
  <2>1. 2820 + 48 * Len(f.chunks) \in Nat /\ 2820 + 48 * Len(f.chunks) + a <= U32
    BY <1>0
  <2>2. PICK n \in Nat : n = 2820 + 48 * Len(f.chunks) /\ n + a <= U32
    BY <2>1
  <2>3. Blocks(n, a) \in Nat
    BY BlocksType
  <2>4. n + a <= U32
    BY <2>2
  <2>5. Aligned(n, a) = Blocks(n, a)
    BY <2>4, AlignedIs
  <2> QED
    BY <2>2, <2>3, <2>5
<1>3. ChunkSizes(f, f.enabled, a) =
        [k \in 1..Len(f.chunks) |-> IF f.chunks[k].index \in f.enabled THEN Blocks(f.chunks[k].size, a) ELSE 0]
  <2>1. ASSUME NEW k \in 1..Len(f.chunks)
        PROVE  (IF k \in DOMAIN f.chunks /\ f.chunks[k].index \in f.enabled THEN Aligned(f.chunks[k].size, a) ELSE 0)
               = IF f.chunks[k].index \in f.enabled THEN Blocks(f.chunks[k].size, a) ELSE 0
    <3>1. k \in DOMAIN f.chunks /\ f.chunks[k].size \in Nat
      BY ChunksAre
    <3>2. f.chunks[k].size + a <= U32
      BY <3>1 DEF Countable
    <3> QED
      BY <3>1, <3>2, AlignedIs
  <2> QED
    BY <2>1 DEF ChunkSizes
<1>4. PICK sum \in Nat : sum = Total(ChunkSizes(f, f.enabled, a))
  BY ChunkSizesAre, TotalType
<1>5. ContentsSize(f, Len(f.chunks), EnabledIndices(f), a) = sum
  BY <1>1, <1>4 DEF ContentsSize, ChunkSizes
<1>6. PICK t \in Nat : t = Blocks(2820 + 48 * Len(f.chunks), a)
  BY <1>2
<1>7. PICK b \in Nat, d \in Nat : /\ b = (IF Len(f.chunks) > ManyContents THEN 2 ELSE 1) * a
                               /\ d = (IF Len(f.chunks) >= ManyContents + 1 THEN 5 ELSE 4) * a
                               /\ d = b + 3 * a
  BY <1>0
<1>8. PICK saves :
        saves = IF f.twl
                THEN Blocks(f.public, a) + Blocks(f.private, a) + Blocks(IF f.banner THEN 1 ELSE 0, a)
                ELSE Blocks(f.ctr, a)
  OBVIOUS
<1>9. SaveSize(f, a) = saves + (IF saves > 0 THEN a ELSE 0) /\ SaveSize(f, a) \in Nat
  BY <1>8, SaveIs, SaveIsNumber
<1>10. saves \in Nat
  BY <1>8, SavesAreNumbers
<1>11. TitleSize(f, a) = sum + (b + t) + SaveSize(f, a) + 3 * a
  BY <1>2, <1>5, <1>6, <1>7 DEF TitleSize, Counted, TMDSize
<1>12. TitleSpace(f, a) = sum + d + t + saves + (IF saves > 0 THEN a ELSE 0)
  BY <1>3, <1>4, <1>6, <1>7, <1>8 DEF TitleSpace
<1>13. PICK e \in Nat : e = IF saves > 0 THEN a ELSE 0
  BY <1>0
<1> QED
  BY <1>0, <1>7, <1>9, <1>10, <1>11, <1>12, <1>13

LEMMA RequiredSizeIs ==
  ASSUME ReaderAssumption, NEW f \in FileType, NEW a \in Alignments, Countable(f, a),
         IsFiniteSet(f.enabled), 2820 + 48 * Len(f.chunks) + 65536 <= U32
  PROVE  RequiredSize(f, a) = TitleSpace(f, a) + a + Blocks(Cardinality(f.enabled) * 1024 + 512, a)
<1>1. EnabledIndices(f) = f.enabled
  BY EnabledIs DEF Countable
<1>2. U32 \in Nat /\ IndexMax \in Nat /\ 1024 * IndexMax + 512 + 65536 <= U32 /\ a \in Nat /\ a <= 65536
  BY U32Is, BlocksType DEF ReaderAssumption
<1>3. Cardinality(f.enabled) \in Nat /\ Cardinality(f.enabled) <= IndexMax
  BY FS_CardinalityType DEF Countable
<1>4. Cardinality(f.enabled) * 1024 + 512 \in Nat /\ Cardinality(f.enabled) * 1024 + 512 + a <= U32
  BY <1>2, <1>3
<1>5. Aligned(Cardinality(f.enabled) * 1024 + 512, a) = Blocks(Cardinality(f.enabled) * 1024 + 512, a)
  BY <1>4, AlignedIs
<1> QED
  BY <1>1, <1>5, TitleSizeIs DEF RequiredSize

-----------------------------------------------------------------------------
(* The contents of a DLC *)

\* The first n of the contents that are chosen are the title's.
Known(choice, n) == \A k \in 1..n : choice[k] \in DOMAIN DLC

ChoiceSizes(choice, n, b) == [k \in 1..n |-> Aligned(DLC[choice[k]].size, b)]

ContextSize(choice, b) ==
  Total(ChoiceSizes(choice, Len(choice), b)) + Aligned(Len(choice) * 1024 + 512, b)
  + Aligned(16 * LastIndex + 16 + 4 * LastIndex + 4 + 32 + 4 * Cardinality(DOMAIN DLC), b)

LEMMA DLCSize == ASSUME ReaderAssumption, NEW i \in DOMAIN DLC PROVE DLC[i].size \in Nat
BY DEF ReaderAssumption

LEMMA ChoiceSizesAre ==
  ASSUME ReaderAssumption, NEW choice, NEW n \in Nat, NEW b \in Alignments, Known(choice, n)
  PROVE  ChoiceSizes(choice, n, b) \in Seq(Nat) /\ Total(ChoiceSizes(choice, n, b)) \in Nat
         /\ Len(ChoiceSizes(choice, n, b)) = n
<1>1. ASSUME NEW k \in 1..n PROVE Aligned(DLC[choice[k]].size, b) \in Nat
  BY DLCSize, AlignedType DEF Known
<1>2. ChoiceSizes(choice, n, b) \in Seq(Nat) /\ Len(ChoiceSizes(choice, n, b)) = n
  BY <1>1 DEF ChoiceSizes
<1> QED
  BY <1>2, TotalType

LEMMA NothingChosen == ASSUME NEW choice, NEW b PROVE Total(ChoiceSizes(choice, 0, b)) = 0
<1>1. PICK s : s = ChoiceSizes(choice, 0, b)
  OBVIOUS
<1>2. s \in Seq(Nat) /\ Len(s) = 0
  BY <1>1 DEF ChoiceSizes
<1>3. PICK w \in [0..Len(s) -> Int] : Sums(w, Shifted(s), 0, Len(s)) /\ Total(s) = w[Len(s)]
  BY <1>2, TotalIs
<1>4. w[0] = 0
  BY <1>3 DEF Sums
<1> QED
  BY <1>1, <1>2, <1>3, <1>4

\* A batch more.
Spans(n, batch, from, to) == from = n + 1 /\ to = n + batch

LEMMA BatchAdds ==
  ASSUME ReaderAssumption, NEW choice, NEW n \in Nat, NEW batch \in Nat, NEW b \in Alignments,
         NEW from, NEW to, Spans(n, batch, from, to), Known(choice, to)
  PROVE  /\ Total(ChoiceSizes(choice, to, b)) =
              Total(ChoiceSizes(choice, n, b)) + BatchSize(choice, from, to, b)
         /\ BatchSize(choice, from, to, b) \in Nat
<1> SUFFICES /\ Total(ChoiceSizes(choice, n + batch, b)) =
                  Total(ChoiceSizes(choice, n, b)) + BatchSize(choice, n + 1, n + batch, b)
             /\ BatchSize(choice, n + 1, n + batch, b) \in Nat
  BY DEF Spans
<1>10. Known(choice, n + batch)
  BY DEF Spans
<1>0. Known(choice, n) /\ n + batch \in Nat
  BY <1>10 DEF Known
<1>1. \A k \in 1..batch : n + k \in 1..(n + batch) /\ (n + 1) - 1 + k = n + k
  OBVIOUS
<1>2. (n + batch) - (n + 1) + 1 = batch
  OBVIOUS
<1>3. PICK s, s1, s2 : /\ s = ChoiceSizes(choice, n + batch, b)
                       /\ s1 = ChoiceSizes(choice, n, b)
                       /\ s2 = [k \in 1..batch |-> Aligned(DLC[choice[n + k]].size, b)]
  OBVIOUS
<1>4. BatchSize(choice, n + 1, n + batch, b) = Total(s2)
  <2>1. [k \in 1..((n + batch) - (n + 1) + 1) |-> Aligned(DLC[choice[(n + 1) - 1 + k]].size, b)] = s2
    BY <1>1, <1>2, <1>3
  <2> QED
    BY <2>1 DEF BatchSize
<1>5. s \in Seq(Nat) /\ Len(s) = n + batch /\ s1 \in Seq(Nat) /\ Len(s1) = n
  BY <1>0, <1>10, <1>3, ChoiceSizesAre
<1>6. s2 \in Seq(Nat) /\ Len(s2) = batch
  <2>1. ASSUME NEW k \in 1..batch PROVE Aligned(DLC[choice[n + k]].size, b) \in Nat
    <3>1. choice[n + k] \in DOMAIN DLC
      BY <1>1, <1>10 DEF Known
    <3> QED
      BY <3>1, DLCSize, AlignedType
  <2> QED
    BY <1>3, <2>1
<1>7. \A k \in 1..Len(s1) : s1[k] = s[k]
  BY <1>3, <1>5 DEF ChoiceSizes
<1>8. \A k \in 1..Len(s2) : s2[k] = s[Len(s1) + k]
  BY <1>1, <1>3, <1>5, <1>6 DEF ChoiceSizes
<1>9. Total(s) = Total(s1) + Total(s2)
  BY <1>5, <1>6, <1>7, <1>8, TotalParts
<1> QED
  BY <1>3, <1>4, <1>6, <1>9, TotalType

LEMMA LastIs ==
  ASSUME ReaderAssumption
  PROVE  /\ LastIndex \in Nat /\ Cardinality(DOMAIN DLC) \in Nat
         /\ 20 * (LastIndex + 1) + 32 + 4 * Cardinality(DOMAIN DLC) + 65536 <= U32
<1>1. PICK i \in DOMAIN DLC :
         /\ \A j \in DOMAIN DLC : j <= i
         /\ 20 * (i + 1) + 32 + 4 * Cardinality(DOMAIN DLC) + 65536 <= U32
  BY DEF ReaderAssumption
<1>2. DOMAIN DLC \subseteq Nat /\ Cardinality(DOMAIN DLC) \in Nat
  BY FS_CardinalityType DEF ReaderAssumption
<1>3. \A j \in DOMAIN DLC : i >= j
  BY <1>1, <1>2
<1>4. LastIndex \in DOMAIN DLC /\ \A j \in DOMAIN DLC : LastIndex >= j
  BY <1>3 DEF LastIndex
<1>5. LastIndex = i
  BY <1>2, <1>3, <1>4
<1> QED
  BY <1>1, <1>2, <1>5

LEMMA ContextIsNumber ==
  ASSUME ReaderAssumption, NEW choice \in Seq(Nat), NEW b \in Alignments
  PROVE  /\ Len(choice) \in Nat
         /\ Aligned(Len(choice) * 1024 + 512, b) \in Nat
         /\ Aligned(16 * LastIndex + 16 + 4 * LastIndex + 4 + 32 + 4 * Cardinality(DOMAIN DLC), b) \in Nat
<1>1. Len(choice) \in Nat
  OBVIOUS
<1>2. Len(choice) * 1024 + 512 \in Nat
  BY <1>1
<1>3. 16 * LastIndex + 16 + 4 * LastIndex + 4 + 32 + 4 * Cardinality(DOMAIN DLC) \in Nat
  BY LastIs
<1> QED
  BY <1>1, <1>2, <1>3, AlignedType

\* What is counted is the space for the context.
LEMMA ContextSizeIs ==
  ASSUME ReaderAssumption, NEW choice \in Seq(Nat), NEW b \in Alignments,
         CountableChoice(choice, b), Known(choice, Len(choice))
  PROVE  ContextSize(choice, b) =
           Total([k \in 1..Len(choice) |-> Blocks(DLC[choice[k]].size, b)])
           + Blocks(Len(choice) * 1024 + 512, b)
           + Blocks(20 * Cardinality(0..LastIndex) + 32 + 4 * Cardinality(DOMAIN DLC), b)
<1>0. Len(choice) \in Nat /\ b \in Nat /\ b <= 65536 /\ U32 \in Nat
  BY U32Is, BlocksType, ContextIsNumber
<1>1. ChoiceSizes(choice, Len(choice), b) = [k \in 1..Len(choice) |-> Blocks(DLC[choice[k]].size, b)]
  <2>1. ASSUME NEW k \in 1..Len(choice)
        PROVE  Aligned(DLC[choice[k]].size, b) = Blocks(DLC[choice[k]].size, b)
    <3>1. DLC[choice[k]].size \in Nat
      BY DLCSize DEF Known
    <3>2. k \in DOMAIN choice
      OBVIOUS
    <3>3. DLC[choice[k]].size + b <= U32
      BY <3>2 DEF CountableChoice
    <3> QED
      BY <3>1, <3>3, AlignedIs
  <2> QED
    BY <2>1 DEF ChoiceSizes
<1>2. Aligned(Len(choice) * 1024 + 512, b) = Blocks(Len(choice) * 1024 + 512, b)
  <2>1. Len(choice) * 1024 + 512 \in Nat /\ Len(choice) * 1024 + 512 + b <= U32
    BY <1>0 DEF CountableChoice
  <2> QED
    BY <2>1, AlignedIs
<1>3. PICK x \in Nat : /\ x = 16 * LastIndex + 16 + 4 * LastIndex + 4 + 32 + 4 * Cardinality(DOMAIN DLC)
                       /\ x = 20 * Cardinality(0..LastIndex) + 32 + 4 * Cardinality(DOMAIN DLC)
                       /\ x + b <= U32
  <2>1. Cardinality(0..LastIndex) = LastIndex + 1
    <3>1. PICK z \in Int, l \in Nat : z = 0 /\ l = LastIndex
      BY LastIs
    <3>2. Cardinality(z..l) = IF z > l THEN 0 ELSE l - z + 1
      BY FS_Interval
    <3> QED
      BY <3>1, <3>2
  <2> QED
    BY <1>0, <2>1, LastIs
<1>4. Aligned(x, b) = Blocks(x, b)
  BY <1>3, AlignedIs
<1> QED
  BY <1>1, <1>2, <1>3, <1>4 DEF ContextSize

-----------------------------------------------------------------------------
(* The questions *)

Places == {"idle", "init", "lock_info", "info", "size", "lock", "tmd", "chunks", "save", "unlock",
           "unlock_info", "context"}

Results == {"none", "ok", "no header", "not found", "too small", "no tmd", "invalid", "no indices",
            "no chunks", "refused"}

ReaderType ==
  [pc : Places, command : Commands \union {"none"}, media : Medias,
   file : DOMAIN CIAFile \union {NoFile}, choice : Seq(Nat), n : Nat, indices : SUBSET Nat,
   size : Int, of : DOMAIN CIAFile \union {NoFile}, result : Results]

\* Where the thread has the lock, and where the TMD of its file is in min_tmd.
Holding(x) ==
  \/ x.pc \in {"info", "tmd", "chunks", "save", "unlock"}
  \/ x.command = "info" /\ x.pc \in {"size", "lock"}

HasTMD(x) ==
  \/ x.pc \in {"chunks", "save", "unlock"}
  \/ x.command = "info" /\ x.pc \in {"size", "lock"}

\* Which places a command comes to.
Follows(x) ==
  /\ x.command \notin {"none", "context"} => x.file \in DOMAIN CIAFile
  /\ x.pc \in {"lock_info", "info", "unlock_info"} => x.command = "info"
  /\ x.pc = "tmd" => x.command = "required"
  /\ x.pc \in {"size", "lock", "chunks", "save", "unlock"} => x.command \in {"info", "required"}
  /\ x.pc = "init" => x.command \notin {"none", "context"}
  /\ x.pc = "context" => x.command = "context"

Answered(x, command) == x.pc = "idle" /\ x.result = "ok" /\ x.command = command

\* What a question about a file has counted.
CountsFile(x) ==
  LET f == CIAFile[x.file]
      a == Align(x.media)
  IN
  /\ x.command = "info" /\ x.pc \in {"size", "lock", "chunks", "save", "unlock"} => x.of = x.file
  /\ x.pc \in {"lock", "tmd", "chunks", "save", "unlock"} => x.indices = EnabledIndices(f)
  /\ x.pc = "save" => x.size = Counted(f, a)
  /\ x.pc = "unlock" => x.size = TitleSize(f, a)
  /\ x.command = "info" /\ x.pc \in {"unlock_info", "idle"} /\ x.result = "ok" =>
       x.of = x.file /\ x.size = TitleSize(f, a)
  /\ Answered(x, "required") => x.size = RequiredSize(f, a)
  /\ \A command \in DOMAIN MetaPart : Answered(x, command) => x.size = ConEnd(f)

\* What a question about a DLC has counted; none when it is beyond the choice.
CountsChoice(x) ==
  LET b == ContextAlign(x.media) IN
  /\ x.pc = "context" /\ x.n <= Len(x.choice) =>
       Known(x.choice, x.n) /\ x.size = Total(ChoiceSizes(x.choice, x.n, b))
  /\ Answered(x, "context") => Known(x.choice, Len(x.choice)) /\ x.size = ContextSize(x.choice, b)

Own(x) == x \in ReaderType /\ Follows(x) /\ CountsFile(x) /\ CountsChoice(x)

RInv ==
  /\ reader \in [Readers -> ReaderType]
  /\ \A r \in Readers :
       /\ Own(reader[r])
       /\ Holding(reader[r]) => lock_owner = r
       /\ HasTMD(reader[r]) => min_tmd = reader[r].file

LEMMA QuestionIs ==
  ASSUME ReaderAssumption, NEW q \in Questions
  PROVE  /\ q.command \in Commands /\ q.media \in Medias /\ q.file \in DOMAIN CIAFile \union {NoFile}
         /\ q.choice \in Seq(Nat)
         /\ q.command # "context" => q.file \in DOMAIN CIAFile
<1>1. q \in QuestionType /\ (q.command = "context" \/ q.file \in DOMAIN CIAFile)
  BY DEF ReaderAssumption
<1> QED
  BY <1>1 DEF QuestionType

LEMMA FileIs ==
  ASSUME ReaderAssumption, NEW name \in DOMAIN CIAFile
  PROVE  /\ CIAFile[name] \in FileType /\ IsFiniteSet(CIAFile[name].enabled)
         /\ 2820 + 48 * Len(CIAFile[name].chunks) + 65536 <= U32
<1>1. CIAFile \in [DOMAIN CIAFile -> FileType]
  BY DEF ReaderAssumption
<1>2. CIAFile[name] \in FileType
  BY <1>1
<1> QED
  BY <1>2 DEF ReaderAssumption

LEMMA UnaskedIs ==
  /\ Unasked \in ReaderType
  /\ Unasked.pc = "idle" /\ Unasked.command = "none" /\ Unasked.result = "none"
  /\ Unasked.n = 0 /\ Unasked.indices = {} /\ Unasked.size = 0 /\ Unasked.of = NoFile
<1>1. Unasked \in ReaderType
  <2>4. <<>> \in Seq(Nat)
    OBVIOUS
  <2>0. PICK e \in Seq(Nat) : e = <<>>
    BY <2>4
  <2>1. PICK i \in SUBSET Nat : i = {}
    OBVIOUS
  <2>2. "idle" \in Places /\ "none" \in Results /\ "none" \in Medias
    BY DEF Places, Results, Medias
  <2>3. Unasked = [pc |-> "idle", command |-> "none", media |-> "none", file |-> NoFile, choice |-> e,
                   n |-> 0, indices |-> i, size |-> 0, of |-> NoFile, result |-> "none"]
    BY <2>0, <2>1 DEF Unasked
  <2> QED
    BY <2>1, <2>2, <2>3 DEF ReaderType
<1> QED
  BY <1>1 DEF Unasked

LEMMA RInvInit == ASSUME ReaderAssumption, ReaderInit PROVE RInv
<1>1. Unasked \in ReaderType
  BY UnaskedIs
<1>2. reader \in [Readers -> ReaderType] /\ \A r \in Readers : reader[r] = Unasked
  BY <1>1 DEF ReaderInit
<1>3. Unasked.pc = "idle" /\ Unasked.result = "none" /\ Unasked.command = "none"
  BY DEF Unasked
<1>4. Own(Unasked) /\ ~Holding(Unasked) /\ ~HasTMD(Unasked)
  BY <1>1, <1>3 DEF Own, Follows, CountsFile, CountsChoice, Answered, Holding, HasTMD, Places
<1> QED
  BY <1>2, <1>4 DEF RInv

\* A thread's step, when it leaves the others what they hold.
LEMMA ReaderMoves ==
  ASSUME RInv, NEW r \in Readers, NoReader \notin Readers, NEW x,
         reader' = [reader EXCEPT ![r] = x], Own(x),
         Holding(x) => lock_owner' = r,
         HasTMD(x) => min_tmd' = x.file,
         lock_owner' = lock_owner \/ lock_owner \in {r, NoReader},
         min_tmd' = min_tmd \/ lock_owner = r
  PROVE  RInv'
<1>1. reader \in [Readers -> ReaderType] /\ x \in ReaderType
  BY DEF RInv, Own
<1>2. reader' \in [Readers -> ReaderType]
  BY <1>1
<1>3. ASSUME NEW s \in Readers
      PROVE  /\ Own(reader'[s])
             /\ Holding(reader'[s]) => lock_owner' = s
             /\ HasTMD(reader'[s]) => min_tmd' = reader'[s].file
  <2>1. CASE s = r
    <3>1. reader'[s] = x
      BY <1>1, <2>1
    <3> QED
      BY <2>1, <3>1
  <2>2. CASE s # r
    <3>1. reader'[s] = reader[s]
      BY <1>1, <2>2
    <3>2. Own(reader[s]) /\ (Holding(reader[s]) => lock_owner = s) /\ (HasTMD(reader[s]) => min_tmd = reader[s].file)
      BY DEF RInv
    <3>3. HasTMD(reader[s]) => Holding(reader[s])
      BY DEF HasTMD, Holding
    <3>4. Holding(reader[s]) => lock_owner = s /\ lock_owner' = s /\ min_tmd' = min_tmd
      BY <2>2, <3>2
    <3> QED
      BY <3>1, <3>2, <3>3, <3>4
  <2> QED
    BY <2>1, <2>2
<1> QED
  BY <1>2, <1>3 DEF RInv

\* Where a thread is.
LEMMA ReaderIs ==
  ASSUME RInv, NEW r \in Readers
  PROVE  /\ reader \in [Readers -> ReaderType] /\ reader[r] \in ReaderType /\ Own(reader[r])
         /\ Holding(reader[r]) => lock_owner = r
         /\ HasTMD(reader[r]) => min_tmd = reader[r].file
BY DEF RInv

LEMMA TakeRInv ==
  ASSUME ReaderAssumption, RInv, NEW r \in Readers, NEW q \in Questions, NEW l, Take(r, q, l),
         \/ l = "init" /\ q.command # "context"
         \/ l = "context" /\ q.command = "context"
  PROVE  RInv'
<1>0. PICK u \in ReaderType : u = Unasked
  BY UnaskedIs
<1>1. PICK x : x = [u EXCEPT !.pc = l, !.command = q.command, !.media = q.media, !.file = q.file,
                             !.choice = q.choice]
  OBVIOUS
<1>2. reader' = [reader EXCEPT ![r] = x]
  BY <1>0, <1>1 DEF Take
<1>3. x \in ReaderType /\ x.pc = l /\ x.command = q.command /\ x.media = q.media /\ x.file = q.file
      /\ x.choice = q.choice /\ x.n = u.n /\ x.size = u.size /\ x.result = u.result
  <2>1. l \in Places
    BY DEF Places
  <2> QED
    BY <1>1, <2>1, QuestionIs DEF ReaderType
<1>4. /\ x.pc = l /\ x.command = q.command /\ x.result = "none" /\ x.n = 0 /\ x.size = 0
      /\ x.command # "none"
      /\ x.command # "context" => x.file \in DOMAIN CIAFile
  BY <1>0, <1>3, UnaskedIs, QuestionIs DEF Commands
<1>5. Follows(x)
  BY <1>4 DEF Follows
<1>6. CountsFile(x)
  BY <1>4 DEF CountsFile, Answered
<1>7. CountsChoice(x)
  <2>1. Total(ChoiceSizes(x.choice, 0, ContextAlign(x.media))) = 0 /\ Known(x.choice, 0)
    BY NothingChosen DEF Known
  <2> QED
    BY <1>4, <2>1 DEF CountsChoice, Answered
<1>8. ~Holding(x) /\ ~HasTMD(x)
  BY <1>4 DEF Holding, HasTMD
<1>9. lock_owner' = lock_owner /\ min_tmd' = min_tmd
  BY DEF Take
<1>10. NoReader \notin Readers
  BY DEF ReaderAssumption
<1>11. Own(x)
  BY <1>3, <1>5, <1>6, <1>7 DEF Own
<1> QED
  BY <1>2, <1>8, <1>9, <1>10, <1>11, ReaderMoves

\* A command answers anything but "ok".
Declined(y, res, n) == [y EXCEPT !.pc = "idle", !.result = res, !.size = n]

LEMMA DeclinedOwn ==
  ASSUME NEW y, Own(y), NEW res \in Results, res # "ok", NEW n \in Int
  PROVE  LET x == Declined(y, res, n) IN Own(x) /\ ~Holding(x) /\ ~HasTMD(x)
<1>1. PICK x : x = Declined(y, res, n)
  OBVIOUS
<1>2. y \in ReaderType
  BY DEF Own
<1>3. x \in ReaderType /\ x.pc = "idle" /\ x.result = res /\ x.command = y.command /\ x.file = y.file
  BY <1>1, <1>2 DEF Declined, ReaderType, Places
<1>4. Follows(x) /\ CountsFile(x) /\ CountsChoice(x)
  BY <1>3 DEF Own, Follows, CountsFile, CountsChoice, Answered
<1> QED
  BY <1>1, <1>3, <1>4 DEF Own, Holding, HasTMD

\* A step that leaves the lock and min_tmd alone.
LEMMA StaysRInv ==
  ASSUME ReaderAssumption, RInv, NEW r \in Readers, NEW x, reader' = [reader EXCEPT ![r] = x], Own(x),
         Holding(x) => lock_owner = r, HasTMD(x) => min_tmd = x.file, UNCHANGED <<lock_owner, min_tmd>>
  PROVE  RInv'
<1>1. NoReader \notin Readers
  BY DEF ReaderAssumption
<1> QED
  BY <1>1, ReaderMoves

LEMMA RefusesRInv ==
  ASSUME ReaderAssumption, RInv, NEW r \in Readers, NEW res \in Results, res # "ok", NEW n \in Int,
         Finish(r, res, n), UNCHANGED <<lock_owner, min_tmd>>
  PROVE  RInv'
<1>1. reader' = [reader EXCEPT ![r] = Declined(reader[r], res, n)]
  BY ReaderIs DEF Finish, Declined
<1>2. LET x == Declined(reader[r], res, n) IN Own(x) /\ ~Holding(x) /\ ~HasTMD(x)
  BY ReaderIs, DeclinedOwn
<1> QED
  BY <1>1, <1>2, StaysRInv

LEMMA Up64Is ==
  ASSUME NEW n \in Nat
  PROVE  /\ Up64(n) \in Nat /\ Up64(n) % 64 = 0
         /\ n % 64 = 0 => Up64(n) = n
BY DEF Up64

LEMMA ConEndIs ==
  ASSUME NEW f \in FileType
  PROVE  /\ ConEnd(f) \in Nat
         /\ f.con % 64 = 0 => ConEnd(f) = Up64(ConEnd(f))
<1>1. f.cert \in Nat /\ f.tik \in Nat /\ f.tmd \in Nat /\ f.con \in Nat
  BY DEF FileType
<1>2. 8256 + f.cert \in Nat
  BY <1>1
<1>3. PICK u \in Nat : u = Up64(8256 + f.cert)
  BY <1>2, Up64Is
<1>4. u + f.tik \in Nat
  BY <1>1
<1>5. PICK v \in Nat : v = Up64(u + f.tik)
  BY <1>4, Up64Is
<1>6. v + f.tmd \in Nat
  BY <1>1
<1>7. PICK w \in Nat : w = Up64(v + f.tmd) /\ w % 64 = 0
  BY <1>6, Up64Is
<1>8. PICK c \in Nat : c = f.con
  BY <1>1
<1>9. ConEnd(f) = w + c
  BY <1>3, <1>5, <1>7, <1>8 DEF ConEnd
<1>10. w + c \in Nat /\ (c % 64 = 0 => (w + c) % 64 = 0)
  BY <1>7
<1>11. c % 64 = 0 => Up64(w + c) = w + c
  BY <1>10, Up64Is
<1> QED
  BY <1>8, <1>9, <1>10, <1>11

MetaCommands == {"smdh", "dependencies", "core"}

LEMMA MetaIs == DOMAIN MetaPart = MetaCommands
BY DEF MetaPart, MetaCommands

\* A question about a part of a file is answered.
LEMMA AnswersRInv ==
  ASSUME ReaderAssumption, RInv, NEW r \in Readers, NEW res \in Results, NEW n \in Int,
         Finish(r, res, n), UNCHANGED <<lock_owner, min_tmd>>,
         \/ reader[r].command \in {"offset", "meta size", "meta"}
         \/ reader[r].command \in MetaCommands /\ n = ConEnd(CIAFile[reader[r].file])
  PROVE  RInv'
<1>1. PICK y : y = reader[r]
  OBVIOUS
<1>2. PICK x : x = [y EXCEPT !.pc = "idle", !.result = res, !.size = n]
  OBVIOUS
<1>3. reader' = [reader EXCEPT ![r] = x]
  BY <1>1, <1>2, ReaderIs DEF Finish
<1>4. Own(y) /\ y \in ReaderType
  BY <1>1, ReaderIs
<1>5. x \in ReaderType /\ x.pc = "idle" /\ x.command = y.command /\ x.file = y.file /\ x.size = n
  BY <1>2, <1>4 DEF ReaderType, Places
<1>6. /\ x.command \notin {"info", "required", "context"}
      /\ x.command \in MetaCommands => x.size = ConEnd(CIAFile[x.file])
  BY <1>1, <1>5 DEF MetaCommands
<1>7. Follows(x)
  BY <1>4, <1>5 DEF Own, Follows
<1>8. CountsFile(x)
  <2>1. ASSUME NEW command \in DOMAIN MetaPart, Answered(x, command) PROVE x.size = ConEnd(CIAFile[x.file])
    BY <1>6, <2>1, MetaIs DEF Answered
  <2> QED
    BY <1>5, <1>6, <2>1 DEF CountsFile, Answered
<1>9. CountsChoice(x)
  BY <1>5, <1>6 DEF CountsChoice, Answered
<1>10. Own(x) /\ ~Holding(x) /\ ~HasTMD(x)
  BY <1>5, <1>7, <1>8, <1>9 DEF Own, Holding, HasTMD
<1> QED
  BY <1>3, <1>10, StaysRInv

Same(x, y) ==
  /\ x.command = y.command /\ x.file = y.file /\ x.media = y.media /\ x.of = y.of
  /\ x.indices = y.indices /\ x.size = y.size /\ x.result = y.result

\* A thread comes to another place.
LEMMA AdvanceIs ==
  ASSUME RInv, NEW r \in Readers, NEW l \in Places, Advance(r, l)
  PROVE  \E x \in ReaderType : reader' = [reader EXCEPT ![r] = x] /\ x.pc = l /\ Same(x, reader[r])
<1>1. reader[r] \in ReaderType /\ Own(reader[r]) /\ reader \in [Readers -> ReaderType]
  BY ReaderIs
<1>2. reader' = [reader EXCEPT ![r] = [reader[r] EXCEPT !.pc = l]]
  BY <1>1 DEF Advance
<1>3. PICK x : x = [reader[r] EXCEPT !.pc = l]
  OBVIOUS
<1>4. x \in ReaderType /\ x.pc = l /\ Same(x, reader[r])
  BY <1>1, <1>3 DEF ReaderType, Same
<1> QED
  BY <1>2, <1>3, <1>4

LEMMA InitReaderRInv ==
  ASSUME ReaderAssumption, RInv, NEW r \in Readers, InitReader(r)
  PROVE  RInv'
<1>0. UNCHANGED <<lock_owner, min_tmd>> /\ reader[r].pc = "init"
  BY DEF InitReader, At
<1>1. Own(reader[r]) /\ reader[r] \in ReaderType /\ reader[r].file \in DOMAIN CIAFile
  BY <1>0, ReaderIs DEF Own, Follows
<1>2. CIAFile[reader[r].file] \in FileType
  BY <1>1, FileIs
<1>3. CASE Finish(r, "no header", 0)
  <2>1. PICK res \in Results, n \in Int : res = "no header" /\ n = 0
    BY DEF Results
  <2>2. Finish(r, res, n) /\ res # "ok"
    BY <1>3, <2>1
  <2> QED
    BY <1>0, <2>2, RefusesRInv
<1>4. ASSUME NEW l \in {"lock_info", "size"}, Advance(r, l),
             l = "lock_info" => reader[r].command = "info",
             l = "size" => reader[r].command = "required"
      PROVE  RInv'
  <2>1. PICK x \in ReaderType : reader' = [reader EXCEPT ![r] = x] /\ x.pc = l /\ Same(x, reader[r])
    <3>1. l \in Places
      BY DEF Places
    <3> QED
      BY <1>4, <3>1, AdvanceIs
  <2>5. x.command = reader[r].command /\ x.file = reader[r].file
    BY <2>1 DEF Same
  <2>2. Follows(x)
    BY <1>1, <1>4, <2>1, <2>5 DEF Own, Follows
  <2>3. CountsFile(x) /\ CountsChoice(x)
    BY <1>4, <2>1, <2>5 DEF CountsFile, CountsChoice, Answered
  <2>4. Own(x) /\ ~Holding(x) /\ ~HasTMD(x)
    BY <1>4, <2>1, <2>5, <2>2, <2>3 DEF Own, Holding, HasTMD
  <2> QED
    BY <1>0, <2>1, <2>4, StaysRInv
<1>5. CASE GetTitleInfo(r)
  BY <1>4, <1>5 DEF GetTitleInfo
<1>6. CASE GetRequiredSize(r)
  BY <1>4, <1>6 DEF GetRequiredSize
<1>7. CASE ExtractMetaPart(r)
  <2>1. PICK n \in Int, res \in Results : n = ConEnd(CIAFile[reader[r].file]) /\ Finish(r, res, n)
    <3>1. PICK m \in Int : m = ConEnd(CIAFile[reader[r].file])
      BY <1>2, ConEndIs
    <3>2. PICK o, i : o \in Results /\ i \in Results /\ o = "ok" /\ i = "not found"
      BY DEF Results
    <3>3. Finish(r, IF File(r).left >= MetaPart[reader[r].command] THEN o ELSE i, m)
      BY <1>7, <3>1, <3>2 DEF ExtractMetaPart, File
    <3>4. (IF File(r).left >= MetaPart[reader[r].command] THEN o ELSE i) \in Results
      BY <3>2
    <3> QED
      BY <3>1, <3>3, <3>4
  <2>2. reader[r].command \in MetaCommands
    BY <1>7, MetaIs DEF ExtractMetaPart
  <2> QED
    BY <1>0, <2>1, <2>2, AnswersRInv
<1>8. CASE GetMetaStart(r)
  <2>1. PICK n \in Int : Finish(r, "ok", n)
    BY <1>2, <1>8, ConEndIs DEF GetMetaStart, File
  <2>2. reader[r].command \in {"offset", "meta size", "meta"} /\ "ok" \in Results
    BY <1>8 DEF GetMetaStart, Results
  <2> QED
    BY <1>0, <2>1, <2>2, AnswersRInv
<1>9. CASE GetMetaSize(r)
  <2>1. PICK n \in Int : Finish(r, "ok", n)
    <3>1. PICK m \in Nat : m = CIAFile[reader[r].file].meta
      BY <1>2 DEF FileType
    <3>2. Finish(r, "ok", File(r).meta)
      BY <1>9 DEF GetMetaSize
    <3>3. File(r).meta = m
      BY <3>1 DEF File
    <3>4. m \in Int
      OBVIOUS
    <3> QED
      BY <3>2, <3>3, <3>4, Zenon
  <2>2. reader[r].command \in {"offset", "meta size", "meta"} /\ "ok" \in Results
    BY <1>9 DEF GetMetaSize, Results
  <2> QED
    BY <1>0, <2>1, <2>2, AnswersRInv
<1>10. CASE ExtractMeta(r)
  <2>1. PICK n \in Int, res \in Results : Finish(r, res, n)
    <3>1. PICK m \in Nat, l \in Nat : m = CIAFile[reader[r].file].meta /\ l = CIAFile[reader[r].file].left
      BY <1>2 DEF FileType
    <3>2. PICK room \in {m - 1, m, m + 1} :
            IF m > room THEN Finish(r, "too small", 0) ELSE Finish(r, "ok", IF l < room THEN l ELSE room)
      BY <1>10, <3>1 DEF ExtractMeta, File
    <3>3. (IF l < room THEN l ELSE room) \in Int /\ "ok" \in Results /\ "too small" \in Results
      BY DEF Results
    <3>4. CASE m > room
      <4>1. PICK n \in Int : n = 0
        OBVIOUS
      <4>2. Finish(r, "too small", n)
        BY <3>2, <3>4, <4>1
      <4> QED
        BY <3>3, <4>2
    <3>5. CASE ~(m > room)
      <4>1. Finish(r, "ok", IF l < room THEN l ELSE room)
        BY <3>2, <3>5
      <4> QED
        BY <3>3, <4>1
    <3> QED
      BY <3>4, <3>5
  <2>2. reader[r].command \in {"offset", "meta size", "meta"}
    BY <1>10 DEF ExtractMeta
  <2> QED
    BY <1>0, <2>1, <2>2, AnswersRInv
<1> QED
  BY <1>3, <1>5, <1>6, <1>7, <1>8, <1>9, <1>10 DEF InitReader

LEMMA LockIs ==
  ASSUME NEW r, NEW l, Lock(r, l)
  PROVE  lock_owner' = r /\ lock_owner \in {r, NoReader} /\ Advance(r, l)
BY DEF Lock, TMDLock!Acquire, TMDLock!Reenter

LEMMA LeaveIs == ASSUME NEW r, TMDLock!Leave(r) PROVE lock_owner = r
BY DEF TMDLock!Leave

LEMMA LockForInfoRInv ==
  ASSUME ReaderAssumption, RInv, NEW r \in Readers, LockForInfo(r)
  PROVE  RInv'
<1>0. reader[r].pc = "lock_info" /\ Lock(r, "info") /\ min_tmd' = min_tmd
  BY DEF LockForInfo, At
<1>1. lock_owner' = r /\ lock_owner \in {r, NoReader} /\ Advance(r, "info")
  BY <1>0, LockIs
<1>2. PICK x \in ReaderType : reader' = [reader EXCEPT ![r] = x] /\ x.pc = "info" /\ Same(x, reader[r])
  <2>1. PICK l \in Places : l = "info"
    BY DEF Places
  <2>2. Advance(r, l)
    BY <1>1, <2>1
  <2> QED
    BY <2>1, <2>2, AdvanceIs
<1>3. Own(reader[r]) /\ x.command = reader[r].command /\ x.file = reader[r].file
  BY <1>2, ReaderIs DEF Same
<1>4. Follows(x) /\ x.command = "info"
  BY <1>0, <1>2, <1>3 DEF Own, Follows
<1>5. CountsFile(x) /\ CountsChoice(x)
  BY <1>2 DEF CountsFile, CountsChoice, Answered
<1>6. Own(x) /\ ~HasTMD(x)
  BY <1>2, <1>4, <1>5 DEF Own, HasTMD
<1>7. NoReader \notin Readers
  BY DEF ReaderAssumption
<1> QED
  BY <1>0, <1>1, <1>2, <1>6, <1>7, ReaderMoves

LEMMA FailedRInv ==
  ASSUME ReaderAssumption, RInv, NEW r \in Readers, NEW res \in Results, res # "ok", Failed(r, res),
         UNCHANGED <<lock_owner, min_tmd>>
  PROVE  RInv'
<1>1. CASE reader[r].command = "info"
  <2>1. PICK y, x : y = reader[r] /\ x = [y EXCEPT !.pc = "unlock_info", !.result = res]
    OBVIOUS
  <2>2. reader' = [reader EXCEPT ![r] = x]
    BY <1>1, <2>1, ReaderIs DEF Failed
  <2>3. Own(y) /\ y \in ReaderType /\ y.command = "info"
    BY <1>1, <2>1, ReaderIs
  <2>4. x \in ReaderType /\ x.pc = "unlock_info" /\ x.result = res /\ x.command = "info" /\ x.file = y.file
    BY <2>1, <2>3 DEF ReaderType, Places
  <2>5. Follows(x) /\ CountsFile(x) /\ CountsChoice(x)
    BY <2>3, <2>4 DEF Own, Follows, CountsFile, CountsChoice, Answered
  <2>6. Own(x) /\ ~Holding(x) /\ ~HasTMD(x)
    BY <2>4, <2>5 DEF Own, Holding, HasTMD
  <2> QED
    BY <2>2, <2>6, StaysRInv
<1>2. CASE reader[r].command # "info"
  <2>1. PICK n \in Int : n = 0
    OBVIOUS
  <2>2. Finish(r, res, n)
    BY <1>2, <2>1 DEF Failed
  <2> QED
    BY <2>2, RefusesRInv
<1> QED
  BY <1>1, <1>2

LEMMA ReadInfo408RInv ==
  ASSUME ReaderAssumption, RInv, NEW r \in Readers, ReadInfo408(r)
  PROVE  RInv'
<1>0. reader[r].pc = "info" /\ lock_owner' = lock_owner
  BY DEF ReadInfo408, At
<1>1. PICK y : y = reader[r] /\ Own(y) /\ y \in ReaderType
  BY ReaderIs
<1>2. lock_owner = r /\ y.command = "info" /\ y.file \in DOMAIN CIAFile
  BY <1>0, <1>1, ReaderIs DEF Holding, Own, Follows
<1>3. CASE min_tmd' = y.file /\ reader' = [reader EXCEPT ![r].pc = "size", ![r].of = min_tmd']
  <2>1. PICK x : x = [y EXCEPT !.pc = "size", !.of = y.file]
    OBVIOUS
  <2>2. reader' = [reader EXCEPT ![r] = x]
    BY <1>1, <1>3, <2>1, ReaderIs
  <2>3. x \in ReaderType /\ x.pc = "size" /\ x.of = y.file /\ x.command = "info" /\ x.file = y.file
    BY <1>1, <1>2, <2>1 DEF ReaderType, Places
  <2>4. Follows(x) /\ CountsFile(x) /\ CountsChoice(x)
    BY <1>2, <2>3 DEF Follows, CountsFile, CountsChoice, Answered
  <2>5. Own(x)
    BY <2>3, <2>4 DEF Own
  <2>6. NoReader \notin Readers
    BY DEF ReaderAssumption
  <2> QED
    BY <1>0, <1>2, <1>3, <2>2, <2>3, <2>5, <2>6, ReaderMoves
<1>4. CASE /\ reader' = [reader EXCEPT ![r].pc = "unlock_info", ![r].result = "no tmd"]
           /\ UNCHANGED min_tmd
  <2>1. PICK res \in Results : res = "no tmd"
    BY DEF Results
  <2>2. Failed(r, res) /\ res # "ok"
    BY <1>1, <1>2, <1>4, <2>1 DEF Failed
  <2> QED
    BY <1>0, <1>4, <2>2, FailedRInv
<1> QED
  BY <1>1, <1>3, <1>4 DEF ReadInfo408

LEMMA ReadEnabledIndicesRInv ==
  ASSUME ReaderAssumption, RInv, NEW r \in Readers, ReadEnabledIndices(r)
  PROVE  RInv'
<1>0. reader[r].pc = "size" /\ lock_owner' = lock_owner /\ min_tmd' = min_tmd
  BY DEF ReadEnabledIndices, At
<1>1. PICK y : y = reader[r] /\ Own(y) /\ y \in ReaderType
  BY ReaderIs
<1>2. /\ y.pc = "size" /\ y.command \in {"info", "required"} /\ y.file \in DOMAIN CIAFile
      /\ y.command = "info" => lock_owner = r /\ min_tmd = y.file /\ y.of = y.file
  BY <1>0, <1>1, ReaderIs DEF Holding, HasTMD, Own, Follows, CountsFile
<1>3. CASE reader' = [reader EXCEPT ![r].pc = "lock", ![r].indices = EnabledIndices(File(r))]
  <2>1. PICK x : x = [y EXCEPT !.pc = "lock", !.indices = EnabledIndices(CIAFile[y.file])]
    OBVIOUS
  <2>2. reader' = [reader EXCEPT ![r] = x]
    BY <1>1, <1>3, <2>1, ReaderIs DEF File
  <2>3. EnabledIndices(CIAFile[y.file]) \in SUBSET Nat
    BY <1>2, FileIs DEF FileType, EnabledIndices
  <2>4. x \in ReaderType /\ x.pc = "lock" /\ x.of = y.of /\ x.command = y.command /\ x.file = y.file
        /\ x.indices = EnabledIndices(CIAFile[y.file])
    BY <1>1, <2>1, <2>3 DEF ReaderType, Places
  <2>5. Follows(x) /\ CountsFile(x) /\ CountsChoice(x)
    BY <1>2, <2>4 DEF Follows, CountsFile, CountsChoice, Answered
  <2>6. Own(x) /\ (Holding(x) => lock_owner = r) /\ (HasTMD(x) => min_tmd = x.file)
    BY <1>2, <2>4, <2>5 DEF Own, Holding, HasTMD
  <2> QED
    BY <1>0, <2>2, <2>6, StaysRInv
<1>4. CASE Failed(r, "invalid") \/ Failed(r, "no indices")
  <2>1. PICK res \in Results : res # "ok" /\ Failed(r, res)
    BY <1>4 DEF Results
  <2> QED
    BY <1>0, <2>1, FailedRInv
<1> QED
  BY <1>3, <1>4 DEF ReadEnabledIndices

LEMMA LockForSizeRInv ==
  ASSUME ReaderAssumption, RInv, NEW r \in Readers, LockForSize(r)
  PROVE  RInv'
<1>1. PICK l : l = IF reader[r].command = "info" THEN "chunks" ELSE "tmd"
  OBVIOUS
<1>0. reader[r].pc = "lock" /\ Lock(r, l) /\ min_tmd' = min_tmd
  BY <1>1 DEF LockForSize, At
<1>2. lock_owner' = r /\ lock_owner \in {r, NoReader} /\ Advance(r, l)
  BY <1>0, LockIs
<1>3. l \in Places
  BY <1>1 DEF Places
<1>4. PICK x \in ReaderType : reader' = [reader EXCEPT ![r] = x] /\ x.pc = l /\ Same(x, reader[r])
  BY <1>2, <1>3, AdvanceIs
<1>5. PICK y : y = reader[r] /\ Own(y)
  BY ReaderIs
<1>6. /\ x.command = y.command /\ x.file = y.file /\ x.of = y.of /\ x.indices = y.indices
      /\ y.pc = "lock" /\ l = IF y.command = "info" THEN "chunks" ELSE "tmd"
      /\ y.command = "info" => min_tmd = y.file
  BY <1>0, <1>1, <1>4, <1>5, ReaderIs DEF Same, HasTMD
<1>7. Follows(x) /\ CountsFile(x) /\ CountsChoice(x)
  BY <1>4, <1>5, <1>6 DEF Own, Follows, CountsFile, CountsChoice, Answered
<1>8. Own(x) /\ (HasTMD(x) => min_tmd' = x.file)
  BY <1>0, <1>4, <1>6, <1>7 DEF Own, HasTMD
<1>9. NoReader \notin Readers
  BY DEF ReaderAssumption
<1> QED
  BY <1>0, <1>2, <1>4, <1>8, <1>9, ReaderMoves

LEMMA ReadMinTMDRInv ==
  ASSUME ReaderAssumption, RInv, NEW r \in Readers, ReadMinTMD(r)
  PROVE  RInv'
<1>0. reader[r].pc = "tmd" /\ lock_owner' = lock_owner
  BY DEF ReadMinTMD, At
<1>1. PICK y : y = reader[r] /\ Own(y)
  BY ReaderIs
<1>2. lock_owner = r /\ y.pc = "tmd"
  BY <1>0, <1>1, ReaderIs DEF Holding
<1>3. CASE min_tmd' = reader[r].file /\ Advance(r, "chunks")
  <2>1. PICK l \in Places : l = "chunks"
    BY DEF Places
  <2>2. PICK x \in ReaderType : reader' = [reader EXCEPT ![r] = x] /\ x.pc = l /\ Same(x, reader[r])
    BY <1>3, <2>1, AdvanceIs
  <2>3. x.command = y.command /\ x.file = y.file /\ x.indices = y.indices /\ x.of = y.of /\ x.pc = "chunks"
    BY <1>1, <2>1, <2>2 DEF Same
  <2>4. Follows(x) /\ CountsFile(x) /\ CountsChoice(x)
    BY <1>1, <1>2, <2>3 DEF Own, Follows, CountsFile, CountsChoice, Answered
  <2>5. Own(x)
    BY <2>2, <2>4 DEF Own
  <2>6. NoReader \notin Readers
    BY DEF ReaderAssumption
  <2> QED
    BY <1>0, <1>1, <1>2, <1>3, <2>2, <2>3, <2>5, <2>6, ReaderMoves
<1>4. CASE Failed(r, "no tmd") /\ UNCHANGED min_tmd
  <2>1. PICK res \in Results : res # "ok" /\ Failed(r, res)
    BY <1>4 DEF Results
  <2> QED
    BY <1>0, <1>4, <2>1, FailedRInv
<1> QED
  BY <1>3, <1>4 DEF ReadMinTMD

\* A thread goes on to count.
Counting(y, l, n, s) == [y EXCEPT !.pc = l, !.n = n, !.size = s]

LEMMA CountingIs ==
  ASSUME NEW y \in ReaderType, NEW l \in Places, NEW n \in Nat, NEW s \in Int, NEW x, x = Counting(y, l, n, s)
  PROVE  /\ x \in ReaderType /\ x.pc = l /\ x.n = n /\ x.size = s
         /\ x.command = y.command /\ x.file = y.file /\ x.media = y.media /\ x.choice = y.choice
         /\ x.of = y.of /\ x.indices = y.indices /\ x.result = y.result
BY DEF ReaderType, Counting

LEMMA ReadChunksRInv ==
  ASSUME ReaderAssumption, RInv, NEW r \in Readers, ReadChunks(r)
  PROVE  RInv'
<1>0. reader[r].pc = "chunks" /\ lock_owner' = lock_owner /\ min_tmd' = min_tmd
  BY DEF ReadChunks, At
<1>1. PICK y : y = reader[r] /\ Own(y) /\ y \in ReaderType
  BY ReaderIs
<1>2. /\ lock_owner = r /\ min_tmd = y.file /\ y.pc = "chunks" /\ y.command \in {"info", "required"}
      /\ y.file \in DOMAIN CIAFile /\ y.indices = EnabledIndices(CIAFile[y.file])
  BY <1>0, <1>1, ReaderIs DEF Holding, HasTMD, Own, Follows, CountsFile
<1>3. PICK f, a : f = CIAFile[y.file] /\ a = Align(y.media) /\ f \in FileType /\ a \in Alignments
  BY <1>2, FileIs, AlignsAre
<1>4. CASE reader' = [reader EXCEPT ![r].pc = "save", ![r].n = Len(CIAFile[min_tmd].chunks),
             ![r].size = ContentsSize(File(r), Len(CIAFile[min_tmd].chunks), reader[r].indices, Align(reader[r].media))
                         + TMDSize(Len(CIAFile[min_tmd].chunks), Align(reader[r].media))]
  <2>1. PICK n \in Nat, s \in Int, l \in Places : n = Len(f.chunks) /\ s = Counted(f, a) /\ l = "save"
    <3>1. "save" \in Places
      BY DEF Places
    <3>2. Counted(f, a) \in Nat /\ Len(f.chunks) \in Nat
      BY <1>3, CountedIsNumber, ChunksAre
    <3> QED
      BY <3>1, <3>2
  <2>2. /\ Len(CIAFile[min_tmd].chunks) = n
        /\ ContentsSize(File(r), Len(CIAFile[min_tmd].chunks), reader[r].indices, Align(reader[r].media))
           + TMDSize(Len(CIAFile[min_tmd].chunks), Align(reader[r].media)) = s
    BY <1>1, <1>2, <1>3, <2>1 DEF Counted, File
  <2>3. PICK x : x = Counting(y, l, n, s)
    OBVIOUS
  <2>4. reader' = [reader EXCEPT ![r] = x]
    BY <1>1, <1>4, <2>1, <2>2, <2>3, ReaderIs DEF Counting
  <2>5. /\ x \in ReaderType /\ x.pc = l /\ x.size = s /\ x.command = y.command /\ x.file = y.file
        /\ x.media = y.media /\ x.of = y.of /\ x.indices = y.indices
    BY <1>1, <2>3, CountingIs
  <2>6. x.pc = "save" /\ x.size = Counted(CIAFile[x.file], Align(x.media))
    BY <1>3, <2>1, <2>5
  <2>7. Follows(x) /\ CountsFile(x) /\ CountsChoice(x)
    BY <1>1, <1>2, <2>5, <2>6 DEF Own, Follows, CountsFile, CountsChoice, Answered
  <2>8. Own(x) /\ (HasTMD(x) => min_tmd = x.file)
    BY <1>2, <2>5, <2>7 DEF Own
  <2> QED
    BY <1>0, <1>2, <2>4, <2>8, StaysRInv
<1>5. CASE Failed(r, "no chunks")
  <2>1. PICK res \in Results : res # "ok" /\ Failed(r, res)
    BY <1>5 DEF Results
  <2> QED
    BY <1>0, <2>1, FailedRInv
<1> QED
  BY <1>4, <1>5 DEF ReadChunks

LEMMA AddSaveRInv ==
  ASSUME ReaderAssumption, RInv, NEW r \in Readers, AddSave(r)
  PROVE  RInv'
<1>0. reader[r].pc = "save" /\ lock_owner' = lock_owner /\ min_tmd' = min_tmd
  BY DEF AddSave, At
<1>1. PICK y : y = reader[r] /\ Own(y) /\ y \in ReaderType
  BY ReaderIs
<1>2. /\ lock_owner = r /\ min_tmd = y.file /\ y.pc = "save" /\ y.command \in {"info", "required"}
      /\ y.file \in DOMAIN CIAFile /\ y.indices = EnabledIndices(CIAFile[y.file])
      /\ y.size = Counted(CIAFile[y.file], Align(y.media))
  BY <1>0, <1>1, ReaderIs DEF Holding, HasTMD, Own, Follows, CountsFile
<1>3. PICK f, a : f = CIAFile[y.file] /\ a = Align(y.media) /\ f \in FileType /\ a \in Alignments
                  /\ IsFiniteSet(f.enabled)
  BY <1>2, FileIs, AlignsAre
<1>4. PICK n \in Nat, s \in Int, l \in Places : n = y.n /\ s = TitleSize(f, a) /\ l = "unlock"
  <2>1. "unlock" \in Places
    BY DEF Places
  <2>2. TitleSize(f, a) \in Nat
    BY <1>3, SizesAreNumbers
  <2>3. y.n \in Nat
    BY <1>1 DEF ReaderType
  <2> QED
    BY <2>1, <2>2, <2>3
<1>5. y.size + SaveSize(CIAFile[min_tmd], a) + 3 * a = s
  BY <1>2, <1>3, <1>4 DEF TitleSize
<1>6. PICK x : x = Counting(y, l, n, s)
  OBVIOUS
<1>7. reader' = [reader EXCEPT ![r] = x]
  <2>1. reader' = [reader EXCEPT ![r].pc = "unlock",
                                 ![r].size = reader[r].size + SaveSize(CIAFile[min_tmd], a) + 3 * a]
    BY <1>1, <1>3 DEF AddSave
  <2>2. reader' = [reader EXCEPT ![r].pc = l, ![r].size = s]
    BY <1>1, <1>4, <1>5, <2>1
  <2>3. reader' = [reader EXCEPT ![r] = [y EXCEPT !.pc = l, !.size = s]]
    BY <1>1, <2>2, ReaderIs
  <2>4. [y EXCEPT !.pc = l, !.size = s] = x
    BY <1>1, <1>4, <1>6 DEF ReaderType, Counting
  <2> QED
    BY <2>3, <2>4
<1>8. /\ x \in ReaderType /\ x.pc = l /\ x.size = s /\ x.command = y.command /\ x.file = y.file
      /\ x.media = y.media /\ x.of = y.of /\ x.indices = y.indices
  BY <1>1, <1>6, CountingIs
<1>9. x.pc = "unlock" /\ x.size = TitleSize(CIAFile[x.file], Align(x.media))
  BY <1>3, <1>4, <1>8
<1>10. Follows(x) /\ CountsFile(x) /\ CountsChoice(x)
  BY <1>1, <1>2, <1>8, <1>9 DEF Own, Follows, CountsFile, CountsChoice, Answered
<1>11. Own(x) /\ (HasTMD(x) => min_tmd = x.file)
  BY <1>2, <1>8, <1>10 DEF Own
<1> QED
  BY <1>0, <1>2, <1>7, <1>11, StaysRInv

LEMMA UnlockSizeRInv ==
  ASSUME ReaderAssumption, RInv, NEW r \in Readers, UnlockSize(r)
  PROVE  RInv'
<1>0. reader[r].pc = "unlock" /\ min_tmd' = min_tmd /\ lock_owner = r /\ NoReader \notin Readers
  BY LeaveIs DEF UnlockSize, At, ReaderAssumption
<1>1. PICK y : y = reader[r] /\ Own(y) /\ y \in ReaderType
  BY ReaderIs
<1>2. /\ y.pc = "unlock" /\ y.command \in {"info", "required"}
      /\ y.file \in DOMAIN CIAFile /\ y.indices = EnabledIndices(CIAFile[y.file])
      /\ y.size = TitleSize(CIAFile[y.file], Align(y.media))
      /\ y.command = "info" => y.of = y.file
  BY <1>0, <1>1 DEF Own, Follows, CountsFile
<1>3. CASE y.command = "info"
  <2>1. PICK x : x = [y EXCEPT !.pc = "unlock_info", !.result = "ok"]
    OBVIOUS
  <2>2. reader' = [reader EXCEPT ![r] = x]
    BY <1>1, <1>3, <2>1, ReaderIs DEF UnlockSize
  <2>3. /\ x \in ReaderType /\ x.pc = "unlock_info" /\ x.command = "info" /\ x.file = y.file /\ x.media = y.media
        /\ x.of = y.of /\ x.size = y.size
    BY <1>1, <1>3, <2>1 DEF ReaderType, Places, Results
  <2>4. Follows(x) /\ CountsFile(x) /\ CountsChoice(x)
    BY <1>2, <1>3, <2>3 DEF Follows, CountsFile, CountsChoice, Answered
  <2>5. Own(x) /\ ~Holding(x) /\ ~HasTMD(x)
    BY <2>3, <2>4 DEF Own, Holding, HasTMD
  <2> QED
    BY <1>0, <2>2, <2>5, ReaderMoves
<1>4. CASE y.command = "required"
  <2>1. PICK f, a : f = CIAFile[y.file] /\ a = Align(y.media) /\ f \in FileType /\ a \in Alignments
                    /\ IsFiniteSet(f.enabled)
    BY <1>2, FileIs, AlignsAre
  <2>2. PICK s \in Int : s = RequiredSize(f, a)
    BY <2>1, SizesAreNumbers
  <2>3. y.size + a + Aligned(Cardinality(y.indices) * 1024 + 512, a) = s
    BY <1>2, <2>1, <2>2 DEF RequiredSize
  <2>4. Finish(r, "ok", s)
    BY <1>1, <1>4, <2>1, <2>3 DEF UnlockSize
  <2>5. PICK x : x = [y EXCEPT !.pc = "idle", !.result = "ok", !.size = s]
    OBVIOUS
  <2>6. reader' = [reader EXCEPT ![r] = x]
    BY <1>1, <2>4, <2>5, ReaderIs DEF Finish
  <2>7. /\ x \in ReaderType /\ x.pc = "idle" /\ x.command = "required" /\ x.file = y.file /\ x.media = y.media
        /\ x.size = s
    BY <1>1, <1>4, <2>5 DEF ReaderType, Places, Results
  <2>8. "required" \notin DOMAIN MetaPart
    BY MetaIs DEF MetaCommands
  <2>9. x.size = RequiredSize(CIAFile[x.file], Align(x.media))
    BY <2>1, <2>2, <2>7
  <2>10. Follows(x) /\ CountsFile(x) /\ CountsChoice(x)
    BY <1>2, <2>7, <2>8, <2>9 DEF Follows, CountsFile, CountsChoice, Answered
  <2>11. Own(x) /\ ~Holding(x) /\ ~HasTMD(x)
    BY <2>7, <2>10 DEF Own, Holding, HasTMD
  <2> QED
    BY <1>0, <2>6, <2>11, ReaderMoves
<1> QED
  BY <1>2, <1>3, <1>4

LEMMA UnlockInfoRInv ==
  ASSUME ReaderAssumption, RInv, NEW r \in Readers, UnlockInfo(r)
  PROVE  RInv'
<1>0. reader[r].pc = "unlock_info" /\ min_tmd' = min_tmd /\ lock_owner = r /\ NoReader \notin Readers
      /\ Advance(r, "idle")
  BY LeaveIs DEF UnlockInfo, At, ReaderAssumption
<1>1. PICK y : y = reader[r] /\ Own(y)
  BY ReaderIs
<1>2. PICK l \in Places : l = "idle"
  BY DEF Places
<1>3. PICK x \in ReaderType : reader' = [reader EXCEPT ![r] = x] /\ x.pc = l /\ Same(x, reader[r])
  BY <1>0, <1>2, AdvanceIs
<1>4. /\ x.pc = "idle" /\ x.command = y.command /\ x.file = y.file /\ x.media = y.media /\ x.of = y.of
      /\ x.size = y.size /\ x.result = y.result
  BY <1>1, <1>2, <1>3 DEF Same
<1>5. y.pc = "unlock_info" /\ y.command = "info" /\ y.file \in DOMAIN CIAFile
  BY <1>0, <1>1 DEF Own, Follows
<1>6. y.result = "ok" => y.of = y.file /\ y.size = TitleSize(CIAFile[y.file], Align(y.media))
  BY <1>1, <1>5 DEF Own, CountsFile
<1>7. "info" \notin DOMAIN MetaPart
  BY MetaIs DEF MetaCommands
<1>8. Follows(x) /\ CountsFile(x) /\ CountsChoice(x)
  BY <1>4, <1>5, <1>6, <1>7 DEF Follows, CountsFile, CountsChoice, Answered
<1>9. Own(x) /\ ~Holding(x) /\ ~HasTMD(x)
  BY <1>3, <1>4, <1>8 DEF Own, Holding, HasTMD
<1> QED
  BY <1>0, <1>3, <1>9, ReaderMoves

LEMMA ContextContentsRInv ==
  ASSUME ReaderAssumption, RInv, NEW r \in Readers, ContextContents(r)
  PROVE  RInv'
<1>0. reader[r].pc = "context" /\ lock_owner' = lock_owner /\ min_tmd' = min_tmd
  BY DEF ContextContents, At
<1>1. PICK y : y = reader[r] /\ Own(y) /\ y \in ReaderType
  BY ReaderIs
<1>2. y.pc = "context" /\ y.command = "context" /\ y.choice \in Seq(Nat) /\ y.n \in Nat
  BY <1>0, <1>1 DEF Own, Follows, ReaderType
<1>3. PICK choice \in Seq(Nat), b \in Alignments, n \in Nat, c \in Nat :
        choice = y.choice /\ b = ContextAlign(y.media) /\ n = y.n /\ c = Len(choice)
  BY <1>2, AlignsAre
<1>4. PICK batch \in Nat : batch = IF c < ContextBatch THEN c ELSE ContextBatch
  <2>1. ContextBatch \in Nat
    BY DEF ReaderAssumption
  <2> QED
    BY <2>1
<1>5. PICK from, to : from = n + 1 /\ to = n + batch
  OBVIOUS
<1>6. CASE /\ \A k \in (from..to) \intersect DOMAIN choice : choice[k] \in DOMAIN DLC
           /\ reader' = [reader EXCEPT ![r].n = IF to > c THEN c + 1 ELSE to,
                ![r].size = IF to > c THEN 0 ELSE y.size + BatchSize(choice, from, to, b)]
  <2>1. to <= c => n <= c /\ to \in Nat /\ \A k \in 1..to : k \in 1..n \/ k \in (from..to) \intersect DOMAIN choice
    <3>1. from = n + 1 /\ to = n + batch /\ DOMAIN choice = 1..c
      BY <1>3, <1>5
    <3>2. to \in Nat /\ (to <= c => n <= c)
      BY <3>1
    <3>3. ASSUME to <= c, NEW k \in 1..to, k \notin 1..n PROVE k \in (from..to) \intersect DOMAIN choice
      <4>1. k \in from..to /\ k \in 1..c
        BY <3>1, <3>2, <3>3
      <4> QED
        BY <3>1, <4>1
    <3> QED
      BY <3>2, <3>3
  <2>2. to <= c => Known(choice, n) /\ y.size = Total(ChoiceSizes(choice, n, b))
    BY <1>1, <1>2, <1>3, <2>1 DEF Own, CountsChoice
  <2>3. to <= c => Known(choice, to)
    BY <1>6, <2>1, <2>2 DEF Known
  <2>4. to <= c => /\ Total(ChoiceSizes(choice, to, b)) = y.size + BatchSize(choice, from, to, b)
                   /\ Total(ChoiceSizes(choice, to, b)) \in Nat
    <3> SUFFICES ASSUME to <= c
        PROVE  /\ Total(ChoiceSizes(choice, to, b)) = y.size + BatchSize(choice, from, to, b)
               /\ Total(ChoiceSizes(choice, to, b)) \in Nat
      OBVIOUS
    <3>1. Known(choice, to) /\ to \in Nat /\ Spans(n, batch, from, to)
      BY <1>5, <2>1, <2>3 DEF Spans
    <3>2. Total(ChoiceSizes(choice, to, b)) = Total(ChoiceSizes(choice, n, b)) + BatchSize(choice, from, to, b)
      BY <3>1, BatchAdds
    <3>3. Total(ChoiceSizes(choice, to, b)) \in Nat
      BY <3>1, ChoiceSizesAre
    <3> QED
      BY <2>2, <3>2, <3>3
  <2>5. PICK m \in Nat : m = IF to > c THEN c + 1 ELSE to
    BY <1>3, <1>5, <2>1
  <2>6. to > c \/ to <= c
    BY <1>3, <1>5
  <2>7. PICK s \in Int : s = IF to > c THEN 0 ELSE y.size + BatchSize(choice, from, to, b)
    BY <2>4, <2>6
  <2>8. PICK l \in Places : l = "context"
    BY DEF Places
  <2>9. PICK x : x = Counting(y, l, m, s)
    OBVIOUS
  <2>10. reader' = [reader EXCEPT ![r] = x]
    <3>1. reader' = [reader EXCEPT ![r].n = m, ![r].size = s]
      BY <1>6, <2>5, <2>7
    <3>2. reader' = [reader EXCEPT ![r] = [y EXCEPT !.n = m, !.size = s]]
      BY <1>1, <3>1, ReaderIs
    <3>3. [y EXCEPT !.n = m, !.size = s] = x
      BY <1>1, <1>2, <2>8, <2>9 DEF ReaderType, Counting
    <3> QED
      BY <3>2, <3>3
  <2>11. /\ x \in ReaderType /\ x.pc = l /\ x.n = m /\ x.size = s /\ x.command = y.command
         /\ x.media = y.media /\ x.choice = y.choice
    BY <1>1, <2>9, CountingIs
  <2>12. m <= c => m = to /\ to <= c /\ s = Total(ChoiceSizes(choice, to, b))
    BY <1>3, <1>5, <2>1, <2>4, <2>5, <2>6, <2>7
  <2>13. x.n <= Len(x.choice) => Known(x.choice, x.n) /\ x.size = Total(ChoiceSizes(x.choice, x.n, ContextAlign(x.media)))
    BY <1>3, <2>3, <2>11, <2>12
  <2>14. Follows(x) /\ CountsFile(x) /\ CountsChoice(x)
    BY <1>2, <2>8, <2>11, <2>13 DEF Follows, CountsFile, CountsChoice, Answered
  <2>15. Own(x) /\ ~Holding(x) /\ ~HasTMD(x)
    BY <1>2, <2>8, <2>11, <2>14 DEF Own, Holding, HasTMD
  <2> QED
    BY <1>0, <2>10, <2>15, StaysRInv
<1>7. CASE Finish(r, "refused", 0)
  <2>1. PICK res \in Results, z \in Int : res = "refused" /\ z = 0
    BY DEF Results
  <2>2. Finish(r, res, z) /\ res # "ok"
    BY <1>7, <2>1
  <2> QED
    BY <1>0, <2>2, RefusesRInv
<1> QED
  BY <1>1, <1>3, <1>4, <1>5, <1>6, <1>7 DEF ContextContents

LEMMA ContextLastRInv ==
  ASSUME ReaderAssumption, RInv, NEW r \in Readers, ContextLast(r)
  PROVE  RInv'
<1>0. reader[r].pc = "context" /\ lock_owner' = lock_owner /\ min_tmd' = min_tmd
      /\ reader[r].n = Len(reader[r].choice)
  BY DEF ContextLast, At
<1>1. PICK y : y = reader[r] /\ Own(y) /\ y \in ReaderType
  BY ReaderIs
<1>2. y.pc = "context" /\ y.command = "context" /\ y.choice \in Seq(Nat) /\ y.n = Len(y.choice)
  BY <1>0, <1>1 DEF Own, Follows, ReaderType
<1>3. PICK choice \in Seq(Nat), b \in Alignments :
        choice = y.choice /\ b = ContextAlign(y.media)
  BY <1>2, AlignsAre
<1>4. Known(choice, Len(choice)) /\ y.size = Total(ChoiceSizes(choice, Len(choice), b))
  <2>1. Len(choice) \in Nat /\ y.n <= Len(y.choice)
    BY <1>2, <1>3
  <2> QED
    BY <1>1, <1>2, <1>3, <2>1 DEF Own, CountsChoice
<1>5. PICK s \in Int : s = ContextSize(choice, b)
  BY <1>4, ChoiceSizesAre, ContextIsNumber DEF ContextSize
<1>6. CASE Finish(r, "ok", y.size + Aligned(Len(choice) * 1024 + 512, b)
                     + Aligned(16 * LastIndex + 16 + 4 * LastIndex + 4 + 32 + 4 * Cardinality(DOMAIN DLC), b))
  <2>1. Finish(r, "ok", s)
    BY <1>4, <1>5, <1>6 DEF ContextSize
  <2>2. PICK x : x = [y EXCEPT !.pc = "idle", !.result = "ok", !.size = s]
    OBVIOUS
  <2>3. reader' = [reader EXCEPT ![r] = x]
    BY <1>1, <2>1, <2>2, ReaderIs DEF Finish
  <2>4. /\ x \in ReaderType /\ x.pc = "idle" /\ x.command = "context" /\ x.choice = choice /\ x.media = y.media
        /\ x.size = s
    BY <1>1, <1>2, <1>3, <2>2 DEF ReaderType, Places, Results
  <2>5. "context" \notin DOMAIN MetaPart
    BY MetaIs DEF MetaCommands
  <2>6. Known(x.choice, Len(x.choice)) /\ x.size = ContextSize(x.choice, ContextAlign(x.media))
    BY <1>3, <1>4, <1>5, <2>4
  <2>7. Follows(x) /\ CountsFile(x) /\ CountsChoice(x)
    BY <2>4, <2>5, <2>6 DEF Follows, CountsFile, CountsChoice, Answered
  <2>8. Own(x) /\ ~Holding(x) /\ ~HasTMD(x)
    BY <2>4, <2>7 DEF Own, Holding, HasTMD
  <2> QED
    BY <1>0, <2>3, <2>8, StaysRInv
<1>7. CASE Finish(r, "refused", 0)
  <2>1. PICK res \in Results, z \in Int : res = "refused" /\ z = 0
    BY DEF Results
  <2>2. Finish(r, res, z) /\ res # "ok"
    BY <1>7, <2>1
  <2> QED
    BY <1>0, <2>2, RefusesRInv
<1> QED
  BY <1>1, <1>3, <1>6, <1>7 DEF ContextLast

LEMMA ContextMediaRInv ==
  ASSUME ReaderAssumption, RInv, NEW r \in Readers, ContextMedia(r)
  PROVE  RInv'
<1>1. PICK res \in Results, z \in Int : res = "invalid" /\ z = 0
  BY DEF Results
<1>2. Finish(r, res, z) /\ res # "ok" /\ UNCHANGED <<lock_owner, min_tmd>>
  BY <1>1 DEF ContextMedia
<1> QED
  BY <1>2, RefusesRInv

LEMMA RInvNext == ASSUME ReaderAssumption, RInv, [ReaderNext]_rdvars PROVE RInv'
<1>1. CASE UNCHANGED rdvars
  BY <1>1 DEF RInv, rdvars
<1>2. ASSUME NEW r \in Readers, ReaderStep(r) PROVE RInv'
  BY <1>2, InitReaderRInv, LockForInfoRInv, ReadInfo408RInv, ReadEnabledIndicesRInv, LockForSizeRInv,
     ReadMinTMDRInv, ReadChunksRInv, AddSaveRInv, UnlockSizeRInv, UnlockInfoRInv, ContextContentsRInv,
     ContextLastRInv, ContextMediaRInv DEF ReaderStep
<1>3. ASSUME NEW r \in Readers, NEW q \in Questions, Question(r, q) \/ ContextQuestion(r, q) PROVE RInv'
  <2>1. CASE Question(r, q)
    <3>1. PICK l : l = "init"
      OBVIOUS
    <3>2. Take(r, q, l) /\ q.command # "context"
      BY <2>1, <3>1 DEF Question
    <3> QED
      BY <3>1, <3>2, TakeRInv
  <2>2. CASE ContextQuestion(r, q)
    <3>1. PICK l : l = "context"
      OBVIOUS
    <3>2. Take(r, q, l) /\ q.command = "context"
      BY <2>2, <3>1 DEF ContextQuestion
    <3> QED
      BY <3>1, <3>2, TakeRInv
  <2> QED
    BY <1>3, <2>1, <2>2
<1> QED
  BY <1>1, <1>2, <1>3 DEF ReaderNext

\* Each thread has counted, so far, for the file or the DLC of its own question,
\* and what is in min_tmd is of the file of the thread that counts with it.
THEOREM ReadersInvariance == ReaderSpec => []RInv
<1>1. ReaderInit => RInv
  BY RInvInit, ReaderAssumption
<1>2. RInv /\ [ReaderNext]_rdvars => RInv'
  BY RInvNext, ReaderAssumption
<1> QED
  BY <1>1, <1>2, PTL DEF ReaderSpec

LEMMA AnswersHold == ASSUME ReaderAssumption, RInv PROVE AnswersAreOwn
<1> SUFFICES ASSUME NEW r \in Readers
    PROVE
      LET f == File(r)
          a == Align(reader[r].media)
          b == ContextAlign(reader[r].media)
          choice == reader[r].choice
          is(command) == At(r, "idle") /\ reader[r].result = "ok" /\ reader[r].command = command
      IN
      /\ is("info") => reader[r].of = reader[r].file
      /\ is("info") /\ Countable(f, a) => reader[r].size = TitleSpace(f, a)
      /\ is("required") /\ Countable(f, a) =>
           reader[r].size = TitleSpace(f, a) + a + Blocks(Cardinality(f.enabled) * 1024 + 512, a)
      /\ \A command \in DOMAIN MetaPart :
           is(command) /\ f.con % 64 = 0 => reader[r].size = Up64(ConEnd(f))
      /\ is("context") /\ CountableChoice(choice, b) =>
           reader[r].size =
             Total([k \in 1..Len(choice) |-> Blocks(DLC[choice[k]].size, b)])
             + Blocks(Len(choice) * 1024 + 512, b)
             + Blocks(20 * Cardinality(0..LastIndex) + 32 + 4 * Cardinality(DOMAIN DLC), b)
  BY DEF AnswersAreOwn
<1>1. PICK y : y = reader[r] /\ Own(y) /\ y \in ReaderType
  BY ReaderIs
<1>2. PICK f, a, b, choice : /\ f = CIAFile[y.file] /\ a = Align(y.media) /\ b = ContextAlign(y.media)
                             /\ choice = y.choice /\ a \in Alignments /\ b \in Alignments /\ choice \in Seq(Nat)
  BY <1>1, AlignsAre DEF ReaderType
<1>3. \A command : At(r, "idle") /\ reader[r].result = "ok" /\ reader[r].command = command => Answered(y, command)
  BY <1>1 DEF At, Answered
<1>4. ASSUME NEW command \in {"info", "required"} \union DOMAIN MetaPart, Answered(y, command)
      PROVE  f \in FileType /\ IsFiniteSet(f.enabled) /\ 2820 + 48 * Len(f.chunks) + 65536 <= U32
  <2>1. command \notin {"none", "context"}
    BY MetaIs DEF MetaCommands
  <2>2. y.file \in DOMAIN CIAFile
    BY <1>1, <1>4, <2>1 DEF Own, Follows, Answered
  <2> QED
    BY <1>2, <2>2, FileIs
<1>5. Answered(y, "info") => y.of = y.file /\ (Countable(f, a) => y.size = TitleSpace(f, a))
  <2>1. Answered(y, "info") => y.of = y.file /\ y.size = TitleSize(f, a)
    BY <1>1, <1>2 DEF Own, CountsFile, Answered
  <2> QED
    BY <1>2, <1>4, <2>1, TitleSizeIs
<1>6. Answered(y, "required") /\ Countable(f, a) =>
        y.size = TitleSpace(f, a) + a + Blocks(Cardinality(f.enabled) * 1024 + 512, a)
  <2>1. Answered(y, "required") => y.size = RequiredSize(f, a)
    BY <1>1, <1>2 DEF Own, CountsFile
  <2> SUFFICES ASSUME Answered(y, "required"), Countable(f, a)
      PROVE  y.size = TitleSpace(f, a) + a + Blocks(Cardinality(f.enabled) * 1024 + 512, a)
    OBVIOUS
  <2>2. f \in FileType /\ IsFiniteSet(f.enabled) /\ 2820 + 48 * Len(f.chunks) + 65536 <= U32
    BY <1>4
  <2>3. RequiredSize(f, a) = TitleSpace(f, a) + a + Blocks(Cardinality(f.enabled) * 1024 + 512, a)
    BY <1>2, <2>2, RequiredSizeIs
  <2> QED
    BY <2>1, <2>3
<1>7. ASSUME NEW command \in DOMAIN MetaPart, Answered(y, command), f.con % 64 = 0
      PROVE  y.size = Up64(ConEnd(f))
  <2>1. y.size = ConEnd(f)
    BY <1>1, <1>2, <1>7 DEF Own, CountsFile
  <2>4. command \in {"info", "required"} \union DOMAIN MetaPart
    OBVIOUS
  <2>2. f \in FileType
    <3>1. Answered(y, command)
      BY <1>7
    <3>2. \A z \in {"info", "required"} \union DOMAIN MetaPart : Answered(y, z) => f \in FileType
      BY <1>4
    <3> QED
      BY <2>4, <3>1, <3>2
  <2>3. ConEnd(f) = Up64(ConEnd(f))
    BY <1>7, <2>2, ConEndIs
  <2> QED
    BY <2>1, <2>3, Zenon
<1>8. Answered(y, "context") /\ CountableChoice(choice, b) =>
        y.size = Total([k \in 1..Len(choice) |-> Blocks(DLC[choice[k]].size, b)])
                 + Blocks(Len(choice) * 1024 + 512, b)
                 + Blocks(20 * Cardinality(0..LastIndex) + 32 + 4 * Cardinality(DOMAIN DLC), b)
  <2>1. Answered(y, "context") => Known(choice, Len(choice)) /\ y.size = ContextSize(choice, b)
    BY <1>1, <1>2 DEF Own, CountsChoice
  <2> SUFFICES ASSUME Answered(y, "context"), CountableChoice(choice, b)
      PROVE  y.size = Total([k \in 1..Len(choice) |-> Blocks(DLC[choice[k]].size, b)])
                      + Blocks(Len(choice) * 1024 + 512, b)
                      + Blocks(20 * Cardinality(0..LastIndex) + 32 + 4 * Cardinality(DOMAIN DLC), b)
    OBVIOUS
  <2>2. ContextSize(choice, b) =
          Total([k \in 1..Len(choice) |-> Blocks(DLC[choice[k]].size, b)])
          + Blocks(Len(choice) * 1024 + 512, b)
          + Blocks(20 * Cardinality(0..LastIndex) + 32 + 4 * Cardinality(DOMAIN DLC), b)
    <3>1. choice \in Seq(Nat) /\ b \in Alignments /\ Known(choice, Len(choice))
      BY <1>2, <2>1
    <3> QED
      BY <3>1, ContextSizeIs
  <2> QED
    BY <2>1, <2>2
<1> QED
  BY <1>1, <1>2, <1>3, <1>5, <1>6, <1>7, <1>8 DEF File

\* Whatever the other session threads read into min_tmd meanwhile, each answer
\* is about the file of its own question and is the space that it needs, for
\* every file and DLC that can be counted.
THEOREM ReaderAnswers == ReaderSpec => []AnswersAreOwn
<1>1. RInv => AnswersAreOwn
  BY AnswersHold, ReaderAssumption
<1> QED
  BY <1>1, ReadersInvariance, PTL
=============================================================================
